-------------------------- MODULE UartServerProofs --------------------------
(***************************************************************************)
(* Proofs about UartServer, for all requests, chunk sizes and buffer       *)
(* sizes, any number of resets, cut writes and gaps on the line.           *)
(***************************************************************************)
EXTENDS UartServer, PacketsProofs, FiniteSetTheorems

\* The packet that a request becomes is a sequence of bytes.
LEMMA SendBytesType ==
    ASSUME CrcBytes, NEW r \in Requests
    PROVE  /\ r = [cmd |-> r.cmd, pld |-> r.pld]
           /\ r.cmd \in Byte /\ r.pld \in Seq(Byte) /\ Len(r.pld) <= MAX_PLD_LEN
           /\ send_bytes(r.cmd, r.pld) \in Seq(Byte)
           /\ Len(send_bytes(r.cmd, r.pld)) = MIN_PKT_LEN + Len(r.pld)
<1>1. /\ r.pld \in Seq(Byte) /\ Len(r.pld) \in Nat /\ Len(r.pld) <= MAX_PLD_LEN
      /\ r.cmd \in 0 .. READ_POWER /\ r = [cmd |-> r.cmd, pld |-> r.pld]
  BY RequestsAssumption
<1>2. r.cmd \in Byte
  BY <1>1 DEF Byte, READ_POWER
<1>3. QED
  BY <1>1, <1>2, SentBytes

\* The marks of the first n bytes of a packet.
Mark == [of : Nat, at : Nat]
MarksOf(o, n) == [j \in 1 .. n |-> [of |-> o, at |-> j]]

LEMMA MarksOfType ==
    ASSUME NEW o \in Nat, NEW n \in Nat
    PROVE  /\ MarksOf(o, n) \in Seq(Mark) /\ Len(MarksOf(o, n)) = n
           /\ \A j \in 1 .. n : MarksOf(o, n)[j].of = o /\ MarksOf(o, n)[j].at = j
<1>1. \A j \in 1 .. n : [of |-> o, at |-> j] \in Mark
  BY DEF Mark
<1>2. MarksOf(o, n) \in [1 .. n -> Mark]
  BY <1>1 DEF MarksOf
<1>3. MarksOf(o, n) \in Seq(Mark) /\ Len(MarksOf(o, n)) = n
  BY <1>2
<1>4. QED
  BY <1>3 DEF MarksOf

\* What Send puts on the line.
LEMMA SendPuts ==
    ASSUME TypeOK, CrcBytes, NEW r \in Requests, Send(r)
    PROVE  LET bytes == send_bytes(r.cmd, r.pld)
           IN  \E n \in 0 .. Len(bytes) :
                   /\ line' = line \o SubSeq(bytes, 1, n)
                   /\ marks' = marks \o MarksOf(Len(sent) + 1, n)
                   /\ cut' = (cut \/ n < Len(bytes))
<1> DEFINE bytes == send_bytes(r.cmd, r.pld)
<1>1. PICK n \in {Len(bytes)} \cup { m \in ShortWrites : m < Len(bytes) } :
          /\ line' = line \o SubSeq(bytes, 1, n)
          /\ marks' = marks \o MarksOf(Len(sent) + 1, n)
          /\ cut' = (cut \/ n < Len(bytes))
  BY DEF Send, MarksOf
<1>2. n \in 0 .. Len(bytes)
  <2>1. Len(bytes) \in Nat /\ \A m \in ShortWrites : m \in Nat
    BY SendBytesType, SizesAssumption
  <2> HIDE DEF bytes
  <2>2. n = Len(bytes) \/ (n \in ShortWrites /\ n < Len(bytes))
    BY <1>1
  <2>3. n \in Nat /\ n <= Len(bytes)
    <3>1. CASE n = Len(bytes)
      BY <2>1, <3>1
    <3>2. CASE n \in ShortWrites /\ n < Len(bytes)
      BY <2>1, <3>2
    <3>3. QED
      BY <2>2, <3>1, <3>2
  <2>4. QED
    BY <2>1, <2>3
<1>3. QED
  BY <1>1, <1>2

\* Events are of three types.
EventType == {"data", "overflow", "junk"}

\* How many of the events in the queue are data events.
LEMMA DataCount ==
    ASSUME NEW e \in Seq(EventType)
    PROVE  /\ IsFiniteSet(DataAt(e)) /\ DataEvents(e) \in Nat
           /\ DataEvents(e) <= Len(e)
<1>1. Len(e) \in Nat
  OBVIOUS
<1>2. IsFiniteSet(1 .. Len(e)) /\ Cardinality(1 .. Len(e)) = Len(e)
  <2>1. IsFiniteSet(1 .. Len(e)) /\ Cardinality(1 .. Len(e)) = IF 1 > Len(e) THEN 0 ELSE Len(e) - 1 + 1
    BY SMTT(30), <1>1, FS_Interval
  <2>2. QED
    BY <1>1, <2>1
<1>3. DataAt(e) \in SUBSET (1 .. Len(e))
  BY DEF DataAt
<1>4. QED
  BY <1>2, <1>3, FS_Subset, FS_CardinalityType DEF DataEvents

LEMMA PostEvents ==
    ASSUME events \in Seq(EventType), Len(events) <= QueueLen, NEW type \in EventType, Post(type)
    PROVE  events' \in Seq(EventType) /\ Len(events') <= QueueLen
<1>1. QueueLen \in Nat /\ Len(events) \in Nat
  BY SizesAssumption
<1>2. /\ Append(events, type) \in Seq(EventType)
      /\ Len(Append(events, type)) = Len(events) + 1
  BY AppendProperties
<1>3. QED
  BY <1>1, <1>2 DEF Post

\* The history counts what it should: it only grows, and not beyond the queue.
LEMMA PostType ==
    ASSUME events \in Seq(EventType), Len(events) <= QueueLen, foreign \in 0 .. QueueLen,
           NEW type \in EventType, Post(type)
    PROVE  /\ events' \in Seq(EventType) /\ Len(events') <= QueueLen
           /\ foreign' \in 0 .. QueueLen /\ foreign <= foreign'
           /\ Len(events') - DataEvents(events') <= foreign'
<1>1. events' \in Seq(EventType) /\ Len(events') <= QueueLen
  BY PostEvents
<1>2. DataEvents(events') \in Nat /\ DataEvents(events') <= Len(events')
  BY <1>1, DataCount
<1>3. Len(events') \in Nat /\ QueueLen \in Nat
  BY <1>1, SizesAssumption
<1> DEFINE f == Len(events') - DataEvents(events')
<1>4. f \in 0 .. QueueLen
  BY <1>1, <1>2, <1>3
<1>5. foreign' = IF foreign < f THEN f ELSE foreign
  BY DEF Post, greatest
<1> HIDE DEF f
<1>6. foreign' \in 0 .. QueueLen /\ foreign <= foreign' /\ f <= foreign'
  BY <1>3, <1>4, <1>5
<1>7. QED
  BY <1>1, <1>6 DEF f

-----------------------------------------------------------------------------
(***************************************************************************)
(* The bytes on their way and their marks                                  *)
(***************************************************************************)

\* What the task has read, what the driver holds and what is on the line.
stream == (buf \o ring) \o line

\* Every byte has its mark.
MarksFit == Len(marks) = Len(stream)

\* A read starts at the front of an empty buffer.
StartsInFront == pc \in {"wait", "check", "read"} => pos = 0

Behind(s, k) == SubSeq(s, k + 1, Len(s))
Without(s, k) == SubSeq(s, 1, k) \o SubSeq(s, k + 2, Len(s))

\* The bytes s2 with the marks m2 are some of the bytes s with the marks m, in the
\* same order: number i was number f[i].  Those behind p2 were behind p.
Keeps(f, s, m, p, s2, m2, p2) ==
    /\ m2 \in Seq(Mark) /\ Len(m2) = Len(s2) /\ Len(s2) \in Nat
    /\ \A i \in 1 .. Len(s2) :
           /\ f[i] \in 1 .. Len(s) /\ m2[i] = m[f[i]] /\ s2[i] = s[f[i]]
           /\ i > p2 => f[i] > p
    /\ \A i, j \in 1 .. Len(s2) : i < j => f[i] < f[j]

LEMMA KeepsAll ==
    ASSUME NEW s \in Seq(Byte), NEW m \in Seq(Mark), Len(m) = Len(s),
           NEW p \in Nat, NEW p2 \in Nat, p <= p2
    PROVE  \E f : Keeps(f, s, m, p, s, m, p2)
<1> DEFINE f == [i \in 1 .. Len(s) |-> i]
<1>1. Len(s) \in Nat
  OBVIOUS
<1>2. Keeps(f, s, m, p, s, m, p2)
  BY <1>1 DEF Keeps
<1>3. QED
  BY <1>2

LEMMA KeepsBehind ==
    ASSUME NEW s \in Seq(Byte), NEW m \in Seq(Mark), Len(m) = Len(s),
           NEW p \in Nat, NEW k \in 0 .. Len(s), p <= k
    PROVE  \E f : Keeps(f, s, m, p, Behind(s, k), Behind(m, k), 0)
<1> DEFINE f == [i \in 1 .. Len(s) - k |-> k + i]
           s2 == Behind(s, k)
           m2 == Behind(m, k)
<1>1. Len(s) \in Nat /\ k \in Nat /\ k <= Len(s)
  OBVIOUS
<1>2. Len(s2) = Len(s) - k /\ \A i \in 1 .. Len(s) - k : s2[i] = s[k + i]
  BY SplitSeq DEF Behind
<1>3. /\ m2 \in Seq(Mark) /\ Len(m2) = Len(s) - k
      /\ \A i \in 1 .. Len(s) - k : m2[i] = m[k + i]
  BY SplitSeq DEF Behind
<1>4. \A i \in 1 .. Len(s) - k : f[i] = k + i /\ k + i \in 1 .. Len(s) /\ k + i > p
  BY <1>1
<1> HIDE DEF f, s2, m2
<1>5. \A i, j \in 1 .. Len(s) - k : i < j => f[i] < f[j]
  BY <1>1, <1>4
<1>6. Keeps(f, s, m, p, s2, m2, 0)
  BY <1>1, <1>2, <1>3, <1>4, <1>5 DEF Keeps
<1>7. QED
  BY <1>6 DEF s2, m2

\* One element less.
LEMMA WithoutElements ==
    ASSUME NEW S, NEW s \in Seq(S), NEW k \in 0 .. Len(s) - 1
    PROVE  /\ Without(s, k) \in Seq(S) /\ Len(Without(s, k)) = Len(s) - 1
           /\ \A i \in 1 .. Len(s) - 1 : Without(s, k)[i] = s[IF i <= k THEN i ELSE i + 1]
<1> DEFINE a == SubSeq(s, 1, k)
           b == SubSeq(s, k + 2, Len(s))
<1>1. Len(s) \in Nat /\ k \in Nat /\ k \in 0 .. Len(s) /\ k + 1 \in 0 .. Len(s) /\ k + 1 + 1 = k + 2
  OBVIOUS
<1>2. a \in Seq(S) /\ Len(a) = k /\ \A i \in 1 .. k : a[i] = s[i]
  BY <1>1, SplitSeq
<1>3. /\ b \in Seq(S) /\ Len(b) = Len(s) - (k + 1)
      /\ \A i \in 1 .. Len(s) - (k + 1) : b[i] = s[k + 1 + i]
  <2>1. /\ SubSeq(s, k + 1 + 1, Len(s)) \in Seq(S)
        /\ Len(SubSeq(s, k + 1 + 1, Len(s))) = Len(s) - (k + 1)
        /\ \A i \in 1 .. Len(s) - (k + 1) : SubSeq(s, k + 1 + 1, Len(s))[i] = s[k + 1 + i]
    BY <1>1, SplitSeq
  <2>2. QED
    BY <1>1, <2>1
<1> HIDE DEF a, b
<1>4. /\ a \o b \in Seq(S) /\ Len(a \o b) = Len(a) + Len(b)
      /\ \A i \in 1 .. Len(a) + Len(b) : (a \o b)[i] = IF i <= Len(a) THEN a[i] ELSE b[i - Len(a)]
  BY <1>2, <1>3, ConcatProperties
<1>5. Len(a) + Len(b) = Len(s) - 1
  BY <1>1, <1>2, <1>3
<1>6. \A i \in 1 .. Len(s) - 1 : (a \o b)[i] = s[IF i <= k THEN i ELSE i + 1]
  <2> TAKE i \in 1 .. Len(s) - 1
  <2>1. (a \o b)[i] = IF i <= k THEN a[i] ELSE b[i - k]
    BY <1>2, <1>4, <1>5
  <2>2. CASE i <= k
    BY <1>1, <1>2, <2>1, <2>2
  <2>3. CASE ~(i <= k)
    <3>1. i - k \in 1 .. Len(s) - (k + 1) /\ k + 1 + (i - k) = i + 1
      BY <1>1, <2>3
    <3>2. b[i - k] = s[k + 1 + (i - k)]
      BY <1>3, <3>1
    <3>3. QED
      BY <2>1, <2>3, <3>1, <3>2
  <2>4. QED
    BY <2>2, <2>3
<1>7. QED
  BY <1>4, <1>5, <1>6 DEF Without, a, b

LEMMA KeepsWithout ==
    ASSUME NEW s \in Seq(Byte), NEW m \in Seq(Mark), Len(m) = Len(s),
           NEW p \in Nat, NEW k \in 0 .. Len(s) - 1, p <= k
    PROVE  \E f : Keeps(f, s, m, p, Without(s, k), Without(m, k), p)
<1> DEFINE f == [i \in 1 .. Len(s) - 1 |-> IF i <= k THEN i ELSE i + 1]
           s2 == Without(s, k)
           m2 == Without(m, k)
<1>1. Len(s) \in Nat /\ k \in Nat /\ k <= Len(s) - 1
  OBVIOUS
<1>2. \A i \in 1 .. Len(s) - 1 :
          /\ f[i] = IF i <= k THEN i ELSE i + 1
          /\ f[i] \in 1 .. Len(s)
          /\ i > p => f[i] > p
  BY <1>1
<1>3. Len(s2) = Len(s) - 1 /\ \A i \in 1 .. Len(s) - 1 : s2[i] = s[f[i]]
  BY WithoutElements
<1>4. /\ m2 \in Seq(Mark) /\ Len(m2) = Len(s) - 1
      /\ \A i \in 1 .. Len(s) - 1 : m2[i] = m[f[i]]
  BY WithoutElements
<1> HIDE DEF f, s2, m2
<1>5. \A i, j \in 1 .. Len(s) - 1 : i < j => f[i] < f[j]
  BY <1>1, <1>2
<1>6. Len(s) - 1 \in Nat
  BY <1>1
<1>7. Keeps(f, s, m, p, s2, m2, p)
  BY <1>2, <1>3, <1>4, <1>5, <1>6 DEF Keeps
<1>8. QED
  BY <1>7 DEF s2, m2

\* Where one sequence ends and the next one begins.
LEMMA BehindConcat ==
    ASSUME NEW S, NEW a \in Seq(S), NEW b \in Seq(S)
    PROVE  Len(a) \in 0 .. Len(a \o b) /\ Behind(a \o b, Len(a)) = b
<1> DEFINE c == a \o b
           q == Behind(c, Len(a))
<1>1. Len(a) \in Nat /\ Len(b) \in Nat
  OBVIOUS
<1>2. /\ c \in Seq(S) /\ Len(c) = Len(a) + Len(b)
      /\ \A i \in 1 .. Len(a) + Len(b) : c[i] = IF i <= Len(a) THEN a[i] ELSE b[i - Len(a)]
  BY ConcatProperties
<1> HIDE DEF c
<1>3. Len(a) \in 0 .. Len(c)
  BY <1>1, <1>2
<1>4. /\ q \in Seq(S) /\ Len(q) = Len(c) - Len(a)
      /\ \A i \in 1 .. Len(c) - Len(a) : q[i] = c[Len(a) + i]
  BY <1>2, <1>3, SplitSeq DEF Behind
<1> HIDE DEF q
<1>5. Len(q) = Len(b)
  BY <1>1, <1>2, <1>4
<1>6. \A i \in 1 .. Len(b) : q[i] = b[i]
  <2> TAKE i \in 1 .. Len(b)
  <2>1. /\ i \in 1 .. Len(c) - Len(a) /\ Len(a) + i \in 1 .. Len(a) + Len(b)
        /\ ~(Len(a) + i <= Len(a)) /\ Len(a) + i - Len(a) = i
    BY <1>1, <1>2
  <2>2. q[i] = c[Len(a) + i]
    BY <1>4, <2>1
  <2>3. c[Len(a) + i] = b[Len(a) + i - Len(a)]
    BY <1>2, <2>1
  <2>4. QED
    BY <2>1, <2>2, <2>3
<1>7. q = b
  BY <1>4, <1>5, <1>6, SeqEqual
<1>8. QED
  BY <1>3, <1>7 DEF q, c

LEMMA WithoutConcat ==
    ASSUME NEW S, NEW a \in Seq(S), NEW b \in Seq(S), b # <<>>
    PROVE  Len(a) \in 0 .. Len(a \o b) - 1 /\ Without(a \o b, Len(a)) = a \o Tail(b)
<1> DEFINE c == a \o b
           q == Without(c, Len(a))
           t == Tail(b)
           r == a \o t
<1>1. Len(a) \in Nat /\ Len(b) \in Nat /\ Len(b) # 0
  BY EmptySeq
<1>2. /\ c \in Seq(S) /\ Len(c) = Len(a) + Len(b)
      /\ \A i \in 1 .. Len(a) + Len(b) : c[i] = IF i <= Len(a) THEN a[i] ELSE b[i - Len(a)]
  BY ConcatProperties
<1>3. t \in Seq(S) /\ Len(t) = Len(b) - 1 /\ \A i \in 1 .. Len(b) - 1 : t[i] = b[i + 1]
  BY HeadTailProperties
<1> HIDE DEF c, t
<1>4. /\ r \in Seq(S) /\ Len(r) = Len(a) + Len(t)
      /\ \A i \in 1 .. Len(a) + Len(t) : r[i] = IF i <= Len(a) THEN a[i] ELSE t[i - Len(a)]
  BY <1>3, ConcatProperties
<1>5. Len(a) \in 0 .. Len(c) - 1
  BY <1>1, <1>2
<1>6. /\ q \in Seq(S) /\ Len(q) = Len(c) - 1
      /\ \A i \in 1 .. Len(c) - 1 : q[i] = c[IF i <= Len(a) THEN i ELSE i + 1]
  BY <1>2, <1>5, WithoutElements
<1> HIDE DEF q, r
<1>7. Len(q) = Len(r) /\ Len(r) = Len(a) + Len(b) - 1
  BY <1>1, <1>2, <1>3, <1>4, <1>6
<1>8. \A i \in 1 .. Len(a) + Len(b) - 1 : q[i] = r[i]
  <2> TAKE i \in 1 .. Len(a) + Len(b) - 1
  <2>1. /\ i \in 1 .. Len(c) - 1 /\ i \in 1 .. Len(a) + Len(t)
        /\ i \in 1 .. Len(a) + Len(b) /\ i + 1 \in 1 .. Len(a) + Len(b)
    BY <1>1, <1>2, <1>3
  <2>2. CASE i <= Len(a)
    BY <1>2, <1>4, <1>6, <2>1, <2>2
  <2>3. CASE ~(i <= Len(a))
    <3>1. q[i] = c[i + 1] /\ r[i] = t[i - Len(a)]
      BY <1>4, <1>6, <2>1, <2>3
    <3>2. i - Len(a) \in 1 .. Len(b) - 1 /\ ~(i + 1 <= Len(a)) /\ i + 1 - Len(a) = i - Len(a) + 1
      BY <1>1, <2>3
    <3>3. c[i + 1] = b[i + 1 - Len(a)]
      BY <1>2, <2>1, <3>2
    <3>5. t[i - Len(a)] = b[i - Len(a) + 1]
      BY <1>3, <3>2
    <3>4. QED
      BY <3>1, <3>2, <3>3, <3>5
  <2>4. QED
    BY <2>2, <2>3
<1>9. q = r
  BY <1>4, <1>6, <1>7, <1>8, SeqEqual
<1>10. QED
  BY <1>5, <1>9 DEF q, r, c, t

\* Concatenation, kept unexpanded where it is only regrouped.
Cat(a, b) == a \o b

LEMMA Regroup ==
    ASSUME NEW S, NEW a \in Seq(S), NEW b \in Seq(S), NEW c \in Seq(S)
    PROVE  Cat(Cat(a, b), c) = Cat(a, Cat(b, c))
BY DEF Cat

LEMMA CatType ==
    ASSUME NEW S, NEW a \in Seq(S), NEW b \in Seq(S)
    PROVE  Cat(a, b) \in Seq(S)
BY DEF Cat

\* Bytes that move on from one buffer to the next.
LEMMA MovedOn ==
    ASSUME NEW S, NEW a \in Seq(S), NEW b \in Seq(S), NEW c \in Seq(S), NEW n \in 0 .. Len(b)
    PROVE  LET x == SubSeq(b, 1, n)
               y == SubSeq(b, n + 1, Len(b))
           IN  /\ Cat(Cat(a, x), y) = Cat(a, b)
               /\ Cat(Cat(c, Cat(a, x)), y) = Cat(Cat(c, a), b)
<1> DEFINE x == SubSeq(b, 1, n)
           y == SubSeq(b, n + 1, Len(b))
<1>1. x \in Seq(S) /\ y \in Seq(S)
  BY SplitSeq
<1>2. Cat(x, y) = b
  BY SplitSeq DEF Cat
<1>3. Cat(c, a) \in Seq(S)
  BY CatType
<1> HIDE DEF x, y
<1>5. Cat(Cat(a, x), y) = Cat(a, Cat(x, y))
  BY <1>1, Regroup
<1>6. Cat(Cat(c, a), x) = Cat(c, Cat(a, x))
  BY <1>1, Regroup
<1>7. Cat(Cat(Cat(c, a), x), y) = Cat(Cat(c, a), Cat(x, y))
  BY <1>1, <1>3, Regroup
<1>8. Cat(Cat(c, Cat(a, x)), y) = Cat(Cat(c, a), b)
  BY <1>2, <1>6, <1>7
<1>9. Cat(Cat(a, x), y) = Cat(a, b)
  BY <1>2, <1>5
<1>10. QED
  BY <1>8, <1>9 DEF x, y

-----------------------------------------------------------------------------
(***************************************************************************)
(* Types                                                                   *)
(***************************************************************************)

\* In mt6701_eeprom_write_wait there is a wait to come.
WaitsLeft == pc = "eeprom" => waits \in 1 .. 2

TypeInv == TypeOK /\ WaitsLeft /\ MarksFit /\ StartsInFront

LEMMA InitTypeInv == Init => TypeInv
<1> SUFFICES ASSUME Init PROVE TypeInv
  OBVIOUS
<1>1. /\ RingCap \in Nat /\ BufLen \in Nat /\ QueueLen \in Nat
      /\ MaxJunk \in Nat /\ MaxResets \in Nat
  BY SizesAssumption
<1>2. /\ sent \in Seq(Requests) /\ line \in Seq(Byte) /\ ring \in Seq(Byte) /\ buf \in Seq(Byte)
      /\ events \in Seq(EventType) /\ served \in Seq([cmd : Byte, pld : Seq(Byte)])
      /\ marks \in Seq(Mark)
  <2>1. /\ sent = <<>> /\ line = <<>> /\ ring = <<>> /\ buf = <<>> /\ events = <<>> /\ served = <<>>
        /\ marks = <<>>
    BY DEF Init
  <2>2. \A S : <<>> \in Seq(S)
    BY EmptySeq
  <2>3. QED
    BY <2>1, <2>2
<1>3. Len(ring) = 0 /\ Len(buf) = 0 /\ Len(events) = 0
  BY DEF Init
<1>4. pos \in 0 .. Len(buf)
  BY <1>3 DEF Init
<1>5. /\ pc = "wait" /\ waits \in 0 .. 2 /\ taken \in Nat /\ junk \in 0 .. MaxJunk
      /\ resets \in 0 .. MaxResets
  <2>1. pc = "wait" /\ waits = 0 /\ taken = 0 /\ junk = 0 /\ resets = 0
    BY DEF Init
  <2>2. QED
    BY <1>1, <2>1
<1>6. Len(ring) <= RingCap /\ Len(buf) <= BufLen /\ Len(events) <= QueueLen
  BY <1>1, <1>3
<1>7. cut \in BOOLEAN /\ foreign \in 0 .. QueueLen
  <2>1. cut = FALSE /\ foreign = 0
    BY DEF Init
  <2>2. foreign \in 0 .. QueueLen
    BY <1>1, <2>1
  <2>3. QED
    BY <2>1, <2>2
<1>8. QED
  <2>1. TypeOK
    BY <1>2, <1>4, <1>5, <1>6, <1>7 DEF TypeOK, EventType, Mark
  <2>2. WaitsLeft /\ StartsInFront
    BY <1>5 DEF WaitsLeft, StartsInFront, Init
  <2>3. MarksFit
    <3>1. stream = (<<>> \o <<>>) \o <<>> /\ marks = <<>>
      BY DEF Init, stream
    <3>2. \A q \in Seq(Byte) : <<>> \o q = q
      BY ConcatEmptySeq
    <3>3. <<>> \in Seq(Byte)
      BY EmptySeq
    <3>4. stream = <<>>
      BY <3>1, <3>2, <3>3
    <3>5. QED
      BY <3>1, <3>4 DEF MarksFit
  <2>4. QED
    BY <2>1, <2>2, <2>3 DEF TypeInv

\* How much one chunk is.
LEMMA ChunkFacts ==
    ASSUME TypeOK, line # <<>>, Len(ring) < RingCap, NEW c \in Chunks,
           NEW n, n = least(c, least(Len(line), RingCap - Len(ring)))
    PROVE  n \in 1 .. Len(line) /\ n <= c /\ n + Len(ring) <= RingCap
<1>1. Len(line) \in Nat \ {0} /\ Len(ring) \in Nat /\ RingCap \in Nat /\ c \in Nat \ {0}
  BY SizesAssumption, EmptySeq DEF TypeOK
<1>2. QED
  BY <1>1 DEF least

\* What decode_packet and decoded_len make of the bytes at the pointer.
LEMMA TakenFacts ==
    ASSUME TypeOK, Left >= MIN_PKT_LEN, AtPacket
    PROVE  /\ pos + decoded_len(buf, pos) \in 0 .. Len(buf)
           /\ decode_packet(buf, pos) \in Packet
<1>1. buf \in Seq(Byte) /\ pos \in Nat /\ Len(buf) \in Nat /\ Len(buf) - pos >= MIN_PKT_LEN
  BY DEF TypeOK, Left
<1>2. decoded_len(buf, pos) # 0
  BY DEF AtPacket
<1>3. decoded_len(buf, pos) \in Nat /\ pos + decoded_len(buf, pos) <= Len(buf)
  BY <1>1, <1>2, DecodedLenBounds
<1>4. decode_packet(buf, pos) \in Packet
  BY <1>1, <1>2, DecodedType
<1>5. QED
  BY <1>1, <1>3, <1>4

\* What there is of the stream, and of the marks with it, stays in order: a read
\* moves the bytes on, lost bytes and those of a buffer that was parsed go.
LEMMA StreamStep ==
    ASSUME TypeOK, MarksFit, StartsInFront,
           RxChunk \/ RxOverflow \/ RxJunk \/ Task \/ Reset \/ UNCHANGED vars
    PROVE  \E f : Keeps(f, stream, marks, pos, stream', marks', pos')
<1>1. /\ line \in Seq(Byte) /\ ring \in Seq(Byte) /\ buf \in Seq(Byte) /\ marks \in Seq(Mark)
      /\ pos \in Nat /\ Len(buf) \in Nat /\ Len(ring) \in Nat /\ pos <= Len(buf)
  BY DEF TypeOK, Mark
<1>2. buf \o ring \in Seq(Byte) /\ ring \o line \in Seq(Byte) /\ Len(buf \o ring) = Len(buf) + Len(ring)
  BY <1>1, ConcatProperties
<1>3. stream \in Seq(Byte) /\ Len(marks) = Len(stream)
  BY <1>1, <1>2, ConcatProperties DEF stream, MarksFit
<1>4. stream = buf \o (ring \o line)
  <2>1. buf \in Seq(Byte) /\ ring \in Seq(Byte) /\ line \in Seq(Byte)
    BY <1>1
  <2>2. Cat(Cat(buf, ring), line) = Cat(buf, Cat(ring, line))
    BY <2>1, Regroup
  <2>3. QED
    BY <2>2 DEF stream, Cat
<1>5. ASSUME stream' = stream, marks' = marks, pos' \in Nat, pos <= pos'
      PROVE  \E f : Keeps(f, stream, marks, pos, stream', marks', pos')
  <2>1. \E f : Keeps(f, stream, marks, pos, stream, marks, pos')
    BY <1>1, <1>3, <1>5, KeepsAll
  <2>2. QED
    BY <1>5, <2>1
<1>6. CASE RxChunk
  <2>1. PICK c \in Chunks :
            LET n == least(c, least(Len(line), RingCap - Len(ring)))
            IN  /\ ring' = ring \o SubSeq(line, 1, n)
                /\ line' = SubSeq(line, n + 1, Len(line))
    BY <1>6 DEF RxChunk
  <2> DEFINE n == least(c, least(Len(line), RingCap - Len(ring)))
  <2>2. n \in 1 .. Len(line)
    BY <1>6, ChunkFacts DEF RxChunk
  <2>3. /\ ring' = ring \o SubSeq(line, 1, n) /\ line' = SubSeq(line, n + 1, Len(line))
        /\ buf' = buf /\ marks' = marks /\ pos' = pos
    BY <1>6, <2>1 DEF RxChunk, task
  <2> HIDE DEF n
  <2>4. n \in 0 .. Len(line)
    BY <1>1, <2>2
  <2>5. (buf \o (ring \o SubSeq(line, 1, n))) \o SubSeq(line, n + 1, Len(line)) = (buf \o ring) \o line
    <3>1. buf \in Seq(Byte) /\ ring \in Seq(Byte) /\ line \in Seq(Byte)
      BY <1>1
    <3>2. Cat(Cat(buf, Cat(ring, SubSeq(line, 1, n))), SubSeq(line, n + 1, Len(line)))
              = Cat(Cat(buf, ring), line)
      BY <2>4, <3>1, MovedOn
    <3>3. QED
      BY <3>2 DEF Cat
  <2>6. stream' = stream
    BY <2>3, <2>5 DEF stream
  <2>7. QED
    BY <1>1, <1>5, <2>3, <2>6
<1>7. CASE RxOverflow
  <2> DEFINE k == Len(buf) + Len(ring)
  <2>1. /\ line # <<>> /\ line' = Tail(line) /\ buf' = buf /\ ring' = ring /\ pos' = pos
        /\ marks' = Without(marks, k)
    BY <1>7 DEF RxOverflow, task, Without
  <2>2. k \in 0 .. Len(stream) - 1 /\ Without(stream, k) = (buf \o ring) \o Tail(line)
    BY <1>1, <1>2, <2>1, WithoutConcat DEF stream
  <2>3. stream' = Without(stream, k)
    BY <2>1, <2>2 DEF stream
  <2>4. pos <= k
    BY <1>1
  <2> HIDE DEF k
  <2>5. \E f : Keeps(f, stream, marks, pos, Without(stream, k), Without(marks, k), pos)
    BY <1>1, <1>3, <2>2, <2>4, KeepsWithout
  <2>6. QED
    BY <2>1, <2>3, <2>5
<1>8. CASE Reset
  <2> DEFINE k == Len(buf) + Len(ring)
  <2>1. /\ buf' = <<>> /\ ring' = <<>> /\ line' = line /\ pos' = 0
        /\ marks' = Behind(marks, k)
    BY <1>8 DEF Reset, Behind
  <2>2. k \in 0 .. Len(stream) /\ Behind(stream, k) = line
    <3> DEFINE front == buf \o ring
    <3>1. front \in Seq(Byte) /\ Len(front) = k /\ stream = front \o line
      BY <1>2 DEF stream
    <3> HIDE DEF front, k
    <3>2. Len(front) \in 0 .. Len(front \o line) /\ Behind(front \o line, Len(front)) = line
      BY <1>1, <3>1, BehindConcat
    <3>3. QED
      BY <3>1, <3>2
  <2>3. stream' = Behind(stream, k)
    <3>1. (<<>> \o <<>>) \o line = line
      <4>1. <<>> \in Seq(Byte) /\ \A s \in Seq(Byte) : <<>> \o s = s
        BY ConcatEmptySeq, EmptySeq
      <4>2. <<>> \o <<>> = <<>>
        BY <4>1
      <4>3. QED
        BY <1>1, <4>1, <4>2
    <3>2. stream' = (<<>> \o <<>>) \o line
      BY <2>1 DEF stream
    <3>3. QED
      BY <2>2, <3>1, <3>2
  <2>4. pos <= k
    BY <1>1
  <2> HIDE DEF k
  <2>5. \E f : Keeps(f, stream, marks, pos, Behind(stream, k), Behind(marks, k), 0)
    BY <1>1, <1>3, <2>2, <2>4, KeepsBehind
  <2>6. QED
    BY <2>1, <2>3, <2>5
<1>9. CASE EndParse
  <2> DEFINE k == Len(buf)
  <2>1. /\ buf' = <<>> /\ ring' = ring /\ line' = line /\ pos' = 0
        /\ marks' = Behind(marks, k)
    BY <1>9 DEF EndParse, Behind, driver
  <2>2. k \in 0 .. Len(stream) /\ Behind(stream, k) = ring \o line
    BY <1>1, <1>2, <1>4, BehindConcat
  <2>3. stream' = Behind(stream, k)
    <3>1. <<>> \o ring = ring
      BY <1>1, ConcatEmptySeq
    <3>2. stream' = (<<>> \o ring) \o line
      BY <2>1 DEF stream
    <3>3. QED
      BY <2>2, <3>1, <3>2
  <2>4. pos <= k
    BY <1>1
  <2> HIDE DEF k
  <2>5. \E f : Keeps(f, stream, marks, pos, Behind(stream, k), Behind(marks, k), 0)
    BY <1>1, <1>3, <2>2, <2>4, KeepsBehind
  <2>6. QED
    BY <2>1, <2>3, <2>5
<1>10. CASE ReadSome
  <2> DEFINE n == least(Len(ring), BufLen - Len(buf))
  <2>1. n \in 0 .. Len(ring)
    <3>1. BufLen \in Nat
      BY SizesAssumption
    <3>2. QED
      BY <1>1, <1>10, <3>1 DEF ReadSome, least
  <2>2. /\ buf' = buf \o SubSeq(ring, 1, n) /\ ring' = SubSeq(ring, n + 1, Len(ring))
        /\ line' = line /\ marks' = marks /\ pos' = pos
    BY <1>10 DEF ReadSome
  <2> HIDE DEF n
  <2>3. (buf \o SubSeq(ring, 1, n)) \o SubSeq(ring, n + 1, Len(ring)) = buf \o ring
    <3>1. buf \in Seq(Byte) /\ ring \in Seq(Byte) /\ line \in Seq(Byte)
      BY <1>1
    <3>2. Cat(Cat(buf, SubSeq(ring, 1, n)), SubSeq(ring, n + 1, Len(ring))) = Cat(buf, ring)
      BY <2>1, <3>1, MovedOn
    <3>3. QED
      BY <3>2 DEF Cat
  <2>4. stream' = stream
    BY <2>2, <2>3 DEF stream
  <2>5. QED
    BY <1>1, <1>5, <2>2, <2>4
<1>11. CASE TakePacket
  <2>1. /\ buf' = buf /\ ring' = ring /\ line' = line /\ marks' = marks
        /\ pos' = pos + decoded_len(buf, pos) /\ Left >= MIN_PKT_LEN /\ AtPacket
    BY <1>11 DEF TakePacket, driver
  <2>2. decoded_len(buf, pos) \in Nat
    <3>1. Len(buf) - pos >= MIN_PKT_LEN
      BY <2>1 DEF Left
    <3>2. QED
      BY <1>1, <3>1, DecodedLenBounds
  <2>3. pos' \in Nat /\ pos <= pos'
    BY <1>1, <2>1, <2>2
  <2>4. QED
    BY <1>5, <2>1, <2>3 DEF stream
<1>12. CASE \/ RxJunk \/ UNCHANGED vars
            \/ ReceiveEvent \/ CheckBuffered \/ ReadDone \/ SkipByte \/ EepromWait
  <2>1. /\ UNCHANGED <<buf, ring, line, marks>>
        /\ pos' = pos \/ pos' = pos + 1 \/ (pos' = 0 /\ pc = "read")
    BY <1>12 DEF RxJunk, vars, ReceiveEvent, CheckBuffered, ReadDone, SkipByte, EepromWait,
       driver, task
  <2>2. pos' \in Nat /\ pos <= pos'
    BY <1>1, <2>1 DEF StartsInFront
  <2>3. QED
    BY <1>5, <2>1, <2>2 DEF stream
<1>13. QED
  BY <1>6, <1>7, <1>8, <1>9, <1>10, <1>11, <1>12 DEF Task

\* So the marks keep their type and fit.
LEMMA MarksStep ==
    ASSUME CrcBytes, TypeOK, MarksFit, StartsInFront, [Next]_vars
    PROVE  marks' \in Seq(Mark) /\ MarksFit'
<1>1. ASSUME NEW r \in Requests, Send(r) PROVE marks' \in Seq(Mark) /\ MarksFit'
  <2> DEFINE bytes == send_bytes(r.cmd, r.pld)
  <2>1. bytes \in Seq(Byte)
    BY SendBytesType
  <2>2. PICK n \in 0 .. Len(bytes) :
                /\ line' = line \o SubSeq(bytes, 1, n)
                /\ marks' = marks \o MarksOf(Len(sent) + 1, n)
    BY <1>1, SendPuts
  <2> DEFINE new == SubSeq(bytes, 1, n)
  <2> HIDE DEF bytes
  <2>3. new \in Seq(Byte) /\ Len(new) = n /\ n \in Nat
    BY <2>1, SplitSeq
  <2>4. Len(sent) + 1 \in Nat
    BY DEF TypeOK
  <2>5. MarksOf(Len(sent) + 1, n) \in Seq(Mark) /\ Len(MarksOf(Len(sent) + 1, n)) = n
    BY <2>3, <2>4, MarksOfType
  <2> HIDE DEF new
  <2>6. marks \in Seq(Mark) /\ line \in Seq(Byte) /\ buf \in Seq(Byte) /\ ring \in Seq(Byte)
    BY DEF TypeOK, Mark
  <2>7. marks' \in Seq(Mark) /\ Len(marks') = Len(marks) + n
    BY <2>2, <2>5, <2>6, ConcatProperties
  <2>8. buf \o ring \in Seq(Byte)
    BY <2>6, ConcatProperties
  <2>9. Len(stream) = Len(buf \o ring) + Len(line)
    BY <2>6, <2>8, ConcatProperties DEF stream
  <2>10. line' \in Seq(Byte) /\ Len(line') = Len(line) + n /\ buf' = buf /\ ring' = ring
    <3>1. line \o new \in Seq(Byte) /\ Len(line \o new) = Len(line) + Len(new)
      BY <2>3, <2>6, ConcatProperties
    <3>2. line' = line \o new
      BY <2>2 DEF new
    <3>3. buf' = buf /\ ring' = ring
      BY <1>1 DEF Send, task, driver
    <3>4. QED
      BY <2>3, <3>1, <3>2, <3>3
  <2>11. Len(stream') = Len(buf \o ring) + Len(line')
    BY <2>8, <2>10, ConcatProperties DEF stream
  <2>12. Len(buf \o ring) \in Nat /\ Len(line) \in Nat
    BY <2>6, <2>8
  <2>13. Len(marks') = Len(stream')
    BY <2>3, <2>7, <2>9, <2>10, <2>11, <2>12 DEF MarksFit
  <2>14. QED
    BY <2>7, <2>13 DEF MarksFit
<1>2. CASE ~(\E r \in Requests : Send(r))
  <2>1. PICK f : Keeps(f, stream, marks, pos, stream', marks', pos')
    BY <1>2, StreamStep DEF Next
  <2>2. marks' \in Seq(Mark) /\ Len(marks') = Len(stream')
    BY <2>1 DEF Keeps
  <2>3. QED
    BY <2>2 DEF MarksFit
<1>3. QED
  BY <1>1, <1>2

\* The driver and the line: each step keeps the types.
LEMMA LineTypes ==
    ASSUME CrcBytes, TypeOK, MarksFit, StartsInFront,
           (\E r \in Requests : Send(r)) \/ RxChunk \/ RxOverflow \/ RxJunk \/ Reset
    PROVE  TypeOK'
<1>b. marks' \in Seq(Mark)
  BY MarksStep DEF Next
<1>a. /\ Len(line) \in Nat /\ Len(ring) \in Nat /\ Len(events) \in Nat /\ Len(buf) \in Nat
      /\ RingCap \in Nat /\ BufLen \in Nat /\ QueueLen \in Nat
      /\ MaxJunk \in Nat /\ MaxResets \in Nat
  BY SizesAssumption DEF TypeOK
<1>1. ASSUME NEW r \in Requests, Send(r) PROVE TypeOK'
  <2> DEFINE bytes == send_bytes(r.cmd, r.pld)
  <2>1. bytes \in Seq(Byte) /\ Len(bytes) \in Nat
    BY SendBytesType
  <2>2. sent' \in Seq(Requests) /\ Len(sent) \in Nat
    BY <1>1, AppendProperties DEF Send, TypeOK
  <2>3. line' \in Seq(Byte) /\ marks' \in Seq(Mark) /\ cut' \in BOOLEAN
    <3>1. PICK n \in 0 .. Len(bytes) :
                  /\ line' = line \o SubSeq(bytes, 1, n)
                  /\ marks' = marks \o MarksOf(Len(sent) + 1, n)
                  /\ cut' = (cut \/ n < Len(bytes))
      BY <1>1, SendPuts
    <3> HIDE DEF bytes
    <3>2. SubSeq(bytes, 1, n) \in Seq(Byte) /\ n \in Nat
      BY <2>1, SplitSeq
    <3>3. MarksOf(Len(sent) + 1, n) \in Seq(Mark)
      BY <2>2, <3>2, MarksOfType
    <3>4. line \in Seq(Byte) /\ marks \in Seq(Mark)
      BY DEF TypeOK, Mark
    <3>5. line' \in Seq(Byte)
      BY <3>1, <3>2, <3>4, ConcatProperties
    <3>6. marks' \in Seq(Mark)
      BY <3>1, <3>3, <3>4, ConcatProperties
    <3>7. QED
      BY <3>1, <3>5, <3>6
  <2>4. UNCHANGED <<ring, events, foreign, pc, buf, pos, waits, served, taken, junk, resets>>
    BY <1>1 DEF Send, driver, task
  <2>5. QED
    BY <1>b, <2>2, <2>3, <2>4 DEF TypeOK, Mark
<1>2. CASE RxChunk
  <2>1. PICK c \in Chunks :
            LET n == least(c, least(Len(line), RingCap - Len(ring)))
            IN  /\ ring' = ring \o SubSeq(line, 1, n)
                /\ line' = SubSeq(line, n + 1, Len(line))
    BY <1>2 DEF RxChunk
  <2> DEFINE n == least(c, least(Len(line), RingCap - Len(ring)))
  <2>2. n \in 1 .. Len(line) /\ n + Len(ring) <= RingCap
    BY <1>2, ChunkFacts DEF RxChunk
  <2> HIDE DEF n
  <2>3. n \in 0 .. Len(line) /\ n \in Nat
    BY <1>a, <2>2
  <2>4. SubSeq(line, 1, n) \in Seq(Byte) /\ Len(SubSeq(line, 1, n)) = n /\ line' \in Seq(Byte)
    BY <2>1, <2>3, SplitSeq DEF TypeOK, n
  <2>5. ring' \in Seq(Byte) /\ Len(ring') = Len(ring) + n
    BY <2>1, <2>4, ConcatProperties DEF TypeOK, n
  <2>6. events' \in Seq(EventType) /\ Len(events') <= QueueLen /\ foreign' \in 0 .. QueueLen
    BY <1>2, PostType DEF RxChunk, TypeOK, EventType
  <2>7. UNCHANGED <<sent, pc, buf, pos, waits, served, taken, cut, junk, resets>>
    BY <1>2 DEF RxChunk, task
  <2>8. Len(ring') <= RingCap
    BY <1>a, <2>2, <2>3, <2>5
  <2>9. QED
    BY <1>b, <2>4, <2>5, <2>6, <2>7, <2>8 DEF TypeOK, EventType, Mark
<1>3. CASE RxOverflow
  <2>1. line' \in Seq(Byte)
    BY <1>3, HeadTailProperties DEF RxOverflow, TypeOK
  <2>2. events' \in Seq(EventType) /\ Len(events') <= QueueLen /\ foreign' \in 0 .. QueueLen
    BY <1>3, PostType DEF RxOverflow, TypeOK, EventType
  <2>3. UNCHANGED <<sent, ring, pc, buf, pos, waits, served, taken, junk, resets>> /\ cut' = TRUE
    BY <1>3 DEF RxOverflow, task
  <2>4. QED
    BY <1>b, <2>1, <2>2, <2>3 DEF TypeOK, EventType, Mark
<1>4. CASE RxJunk
  <2>1. junk' \in 0 .. MaxJunk
    BY <1>a, <1>4 DEF RxJunk, TypeOK
  <2>2. events' \in Seq(EventType) /\ Len(events') <= QueueLen /\ foreign' \in 0 .. QueueLen
    BY <1>4, PostType DEF RxJunk, TypeOK, EventType
  <2>3. UNCHANGED <<sent, line, ring, pc, buf, pos, waits, served, taken, cut, resets>>
    BY <1>4 DEF RxJunk, task
  <2>4. QED
    BY <1>b, <2>1, <2>2, <2>3 DEF TypeOK, EventType, Mark
<1>5. CASE Reset
  <2>1. resets' \in 0 .. MaxResets
    BY <1>a, <1>5 DEF Reset, TypeOK
  <2>2. ring' \in Seq(Byte) /\ buf' \in Seq(Byte) /\ events' \in Seq(EventType)
    BY <1>5 DEF Reset
  <2>3. Len(ring') = 0 /\ Len(buf') = 0 /\ Len(events') = 0
    BY <1>5 DEF Reset
  <2>4. pos' \in 0 .. Len(buf') /\ waits' \in 0 .. 2 /\ pc' = "wait" /\ cut' = TRUE
        /\ foreign' \in 0 .. QueueLen
    BY <1>a, <1>5, <2>3 DEF Reset
  <2>5. UNCHANGED <<sent, line, served, taken, junk>>
    BY <1>5 DEF Reset
  <2>6. QED
    BY <1>b, <1>a, <2>1, <2>2, <2>3, <2>4, <2>5 DEF TypeOK, EventType, Mark
<1>6. QED
  BY <1>1, <1>2, <1>3, <1>4, <1>5

\* The task: each step keeps the types.
LEMMA TaskTypes ==
    ASSUME CrcBytes, TypeOK, WaitsLeft, MarksFit, StartsInFront, Task
    PROVE  TypeOK'
<1>b. marks' \in Seq(Mark)
  BY MarksStep DEF Next
<1>a. /\ Len(line) \in Nat /\ Len(ring) \in Nat /\ Len(events) \in Nat /\ Len(buf) \in Nat
      /\ pos \in Nat /\ pos <= Len(buf) /\ taken \in Nat
      /\ RingCap \in Nat /\ BufLen \in Nat
  BY SizesAssumption DEF TypeOK
<1>1. CASE ReceiveEvent
  <2>1. events' \in Seq(EventType) /\ Len(events') <= QueueLen
    <3>1. events \in Seq(EventType) /\ events # <<>> /\ events' = Tail(events)
      BY <1>1 DEF ReceiveEvent, TypeOK, EventType
    <3>2. events' \in Seq(EventType) /\ Len(events') = Len(events) - 1
      BY <3>1, HeadTailProperties
    <3>3. QED
      BY <1>a, <3>2, SizesAssumption DEF TypeOK
  <2>2. pc' \in {"wait", "check"}
    BY <1>1 DEF ReceiveEvent
  <2>3. UNCHANGED <<sent, line, ring, foreign, buf, pos, waits, served, taken, cut, junk, resets>>
    BY <1>1 DEF ReceiveEvent
  <2>4. QED
    BY <1>b, <2>1, <2>2, <2>3 DEF TypeOK, EventType, Mark
<1>2. CASE CheckBuffered
  BY <1>2, <1>b DEF CheckBuffered, TypeOK, driver, Mark
<1>3. CASE ReadSome
  <2> DEFINE n == least(Len(ring), BufLen - Len(buf))
  <2>1. n \in 0 .. Len(ring) /\ Len(buf) + n <= BufLen
    BY <1>a, <1>3 DEF ReadSome, least
  <2>2. /\ buf' = buf \o SubSeq(ring, 1, n)
        /\ ring' = SubSeq(ring, n + 1, Len(ring))
        /\ taken' = taken + n
        /\ UNCHANGED <<sent, line, events, foreign, pc, pos, waits, served, cut, junk, resets>>
    BY <1>3 DEF ReadSome
  <2> HIDE DEF n
  <2>3. SubSeq(ring, 1, n) \in Seq(Byte) /\ Len(SubSeq(ring, 1, n)) = n
    BY <2>1, SplitSeq DEF TypeOK
  <2>4. ring' \in Seq(Byte) /\ Len(ring') = Len(ring) - n
    BY <2>1, <2>2, SplitSeq DEF TypeOK
  <2>5. buf' \in Seq(Byte) /\ Len(buf') = Len(buf) + n
    BY <2>2, <2>3, ConcatProperties DEF TypeOK
  <2>6. Len(ring') <= RingCap /\ Len(buf') <= BufLen /\ pos \in 0 .. Len(buf') /\ taken' \in Nat
    <3>1. Len(ring) <= RingCap
      BY DEF TypeOK
    <3>2. QED
      BY <1>a, <2>1, <2>2, <2>4, <2>5, <3>1
  <2>7. QED
    BY <1>b, <2>2, <2>4, <2>5, <2>6 DEF TypeOK, Mark
<1>4. CASE ReadDone
  <2>1. pc' = "parse" /\ pos' = 0 /\ cut' \in BOOLEAN
    BY <1>4 DEF ReadDone, TypeOK
  <2>2. UNCHANGED <<sent, line, ring, events, foreign, buf, waits, served, taken, junk, resets>>
    BY <1>4 DEF ReadDone, driver
  <2>3. pos' \in 0 .. Len(buf')
    BY <1>a, <2>1, <2>2
  <2>4. QED
    BY <1>b, <2>1, <2>2, <2>3 DEF TypeOK, Mark
<1>5. CASE SkipByte
  <2>1. pos' \in 0 .. Len(buf)
    BY <1>a, <1>5 DEF SkipByte, Left, MIN_PKT_LEN
  <2>2. UNCHANGED <<sent, line, ring, events, foreign, pc, buf, waits, served, taken, cut, junk, resets>>
    BY <1>5 DEF SkipByte, driver
  <2>3. QED
    BY <1>b, <2>1, <2>2 DEF TypeOK, Mark
<1>6. CASE TakePacket
  <2> DEFINE p == decode_packet(buf, pos)
             e == [cmd |-> p.cmd, pld |-> p.pld]
             T == [cmd : Byte, pld : Seq(Byte)]
  <2>1. Left >= MIN_PKT_LEN /\ AtPacket
    BY <1>6 DEF TakePacket
  <2>2. pos' \in 0 .. Len(buf)
    BY <1>6, <2>1, TakenFacts DEF TakePacket
  <2>3. e \in T
    <3>1. p \in Packet
      BY <2>1, TakenFacts
    <3> HIDE DEF p
    <3>2. p.cmd \in Byte /\ p.pld \in Seq(Byte)
      BY <3>1 DEF Packet
    <3>3. QED
      BY <3>2
  <2>4. served' = served \/ served' = Append(served, e)
    BY <1>6 DEF TakePacket
  <2>5. served' \in Seq(T)
    <3> HIDE DEF e, T
    <3>1. served \in Seq(T)
      BY DEF TypeOK, T
    <3>2. Append(served, e) \in Seq(T)
      BY <2>3, <3>1, AppendProperties
    <3>3. QED
      BY <2>4, <3>1, <3>2
  <2>6. waits' \in 0 .. 2
    BY <1>6 DEF TakePacket, EepromWaits
  <2>7. pc' \in {"eeprom", "parse"}
    BY <1>6 DEF TakePacket
  <2>8. UNCHANGED <<sent, line, ring, events, foreign, buf, taken, cut, junk, resets>>
    BY <1>6 DEF TakePacket, driver
  <2>9. QED
    BY <1>b, <2>2, <2>5, <2>6, <2>7, <2>8 DEF TypeOK, Mark
<1>7. CASE EepromWait
  <2>1. waits' \in 0 .. 2 /\ pc' \in {"eeprom", "parse"}
    BY <1>7 DEF EepromWait, WaitsLeft
  <2>2. UNCHANGED <<sent, line, ring, events, foreign, buf, pos, served, taken, cut, junk, resets>>
    BY <1>7 DEF EepromWait, driver
  <2>3. QED
    BY <1>b, <2>1, <2>2 DEF TypeOK, Mark
<1>8. CASE EndParse
  <2>1. pc' = "wait" /\ buf' = <<>> /\ pos' = 0
    BY <1>8 DEF EndParse
  <2>2. UNCHANGED <<sent, line, ring, events, foreign, waits, served, taken, cut, junk, resets>>
    BY <1>8 DEF EndParse, driver
  <2>3. buf' \in Seq(Byte) /\ Len(buf') = 0
    BY <2>1
  <2>4. pos' \in 0 .. Len(buf') /\ Len(buf') <= BufLen
    BY <1>a, <2>1, <2>3
  <2>5. QED
    BY <1>b, <2>1, <2>2, <2>3, <2>4 DEF TypeOK, Mark
<1>9. QED
  BY <1>1, <1>2, <1>3, <1>4, <1>5, <1>6, <1>7, <1>8 DEF Task

LEMMA TypeStep ==
    ASSUME CrcBytes, TypeInv, [Next]_vars
    PROVE  TypeInv'
<1>0. TypeOK /\ WaitsLeft /\ MarksFit /\ StartsInFront
  BY DEF TypeInv
<1>a. MarksFit'
  BY <1>0, MarksStep
<1>b. StartsInFront'
  <2>1. CASE UNCHANGED vars
    BY <1>0, <2>1 DEF vars, driver, task, StartsInFront
  <2>2. ASSUME NEW r \in Requests, Send(r) PROVE StartsInFront'
    BY <1>0, <2>2 DEF Send, task, StartsInFront
  <2>3. CASE RxChunk \/ RxOverflow \/ RxJunk \/ Reset
    BY <1>0, <2>3 DEF RxChunk, RxOverflow, RxJunk, Reset, task, StartsInFront
  <2>4. CASE Task
    BY <1>0, <2>4 DEF Task, ReceiveEvent, CheckBuffered, ReadSome, ReadDone, SkipByte, TakePacket,
       EepromWait, EndParse, StartsInFront
  <2>5. QED
    BY <2>1, <2>2, <2>3, <2>4 DEF Next
<1>c. TypeOK' /\ WaitsLeft'
  <2>1. CASE UNCHANGED vars
    BY <1>0, <2>1 DEF vars, driver, task, TypeOK, WaitsLeft
  <2>2. ASSUME NEW r \in Requests, Send(r) PROVE TypeOK' /\ WaitsLeft'
    BY <1>0, <2>2, LineTypes DEF Send, task, WaitsLeft
  <2>3. CASE RxChunk \/ RxOverflow \/ RxJunk \/ Reset
    BY <1>0, <2>3, LineTypes DEF RxChunk, RxOverflow, RxJunk, Reset, task, WaitsLeft
  <2>4. CASE Task
    <3>1. TypeOK'
      BY <1>0, <2>4, TaskTypes
    <3>2. WaitsLeft'
      <4>1. CASE TakePacket
        BY <1>0, <4>1 DEF TakePacket, EepromWaits, WaitsLeft
      <4>2. CASE EepromWait
        BY <1>0, <4>2 DEF EepromWait, WaitsLeft, TypeOK
      <4>3. CASE ReceiveEvent \/ CheckBuffered \/ ReadSome \/ ReadDone \/ SkipByte \/ EndParse
        BY <1>0, <4>3 DEF ReceiveEvent, CheckBuffered, ReadSome, ReadDone, SkipByte, EndParse, WaitsLeft
      <4>4. QED
        BY <2>4, <4>1, <4>2, <4>3 DEF Task
    <3>3. QED
      BY <3>1, <3>2
  <2>5. QED
    BY <2>1, <2>2, <2>3, <2>4 DEF Next
<1>1. QED
  BY <1>a, <1>b, <1>c DEF TypeInv

\* The variables keep their types, whatever the line carries: the pointer stays
\* in the buffer, a read never fills more than it (pos_in_buf of
\* uart_read_bytes), and the driver's buffers and queue keep their sizes.
THEOREM TypeCorrect ==
    ASSUME CrcBytes
    PROVE  Spec => []TypeOK
<1>1. Init => TypeInv
  BY InitTypeInv
<1>2. TypeInv /\ [Next]_vars => TypeInv'
  BY TypeStep
<1>3. TypeInv => TypeOK
  BY DEF TypeInv
<1>4. QED
  BY <1>1, <1>2, <1>3, PTL DEF Spec

-----------------------------------------------------------------------------
(***************************************************************************)
(* The requests are served as a queue                                      *)
(***************************************************************************)

\* No request is sent twice.
Distinct(q) == \A i, j \in 1 .. Len(q) : q[i] = q[j] => i = j

PacketOf(r) == send_bytes(r.cmd, r.pld)

\* Every byte is the one of the packets of q that its mark names.
Genuine(s, m, q) ==
    \A i \in 1 .. Len(m) :
        /\ m[i].of \in 1 .. Len(q)
        /\ m[i].at \in 1 .. Len(PacketOf(q[m[i].of]))
        /\ s[i] = PacketOf(q[m[i].of])[m[i].at]

\* The bytes are in the order of sending.
InOrder(m) ==
    \A i, j \in 1 .. Len(m) :
        i < j => m[i].of < m[j].of \/ (m[i].of = m[j].of /\ m[i].at < m[j].at)

\* SentAs and what RequestQueue sees of served, for any sequence of requests.
Position(r, q) == IF r \in Among(q) THEN CHOOSE n \in 1 .. Len(q) : q[n] = r ELSE 0
Positions(v, q) == [i \in 1 .. Len(v) |-> Position(v[i], q)]

\* No packet up to the n-th one begins behind p.
Passed(n, m, p) == \A i \in 1 .. Len(m) : i > p /\ m[i].at = 1 => n < m[i].of

\* What was served had been sent, and the pointer has passed it.
AllPassed(v, q, m, p) ==
    \A i \in 1 .. Len(v) : v[i] \in Among(q) /\ Passed(Position(v[i], q), m, p)

QueueInv ==
    /\ Distinct(sent)
    /\ Genuine(stream, marks, sent)
    /\ InOrder(marks)
    /\ AllPassed(served, sent, marks, pos)

LEMMA PositionIs ==
    ASSUME NEW q, Len(q) \in Nat, Distinct(q), NEW n \in 1 .. Len(q)
    PROVE  q[n] \in Among(q) /\ Position(q[n], q) = n
<1>1. q[n] \in Among(q)
  BY DEF Among
<1>2. \A k \in 1 .. Len(q) : q[k] = q[n] => k = n
  BY DEF Distinct
<1>3. (CHOOSE k \in 1 .. Len(q) : q[k] = q[n]) = n
  BY <1>2
<1>4. QED
  BY <1>1, <1>3 DEF Position

LEMMA PositionType ==
    ASSUME NEW q, Len(q) \in Nat, NEW r
    PROVE  /\ Position(r, q) \in Nat
           /\ r \in Among(q) => Position(r, q) \in 1 .. Len(q) /\ q[Position(r, q)] = r
<1>1. CASE r \in Among(q)
  <2>1. \E n \in 1 .. Len(q) : q[n] = r
    BY <1>1 DEF Among
  <2>2. /\ (CHOOSE n \in 1 .. Len(q) : q[n] = r) \in 1 .. Len(q)
        /\ q[CHOOSE n \in 1 .. Len(q) : q[n] = r] = r
    BY <2>1
  <2>3. Position(r, q) \in 1 .. Len(q) /\ q[Position(r, q)] = r
    BY <1>1, <2>2 DEF Position
  <2>4. QED
    BY <2>3
<1>2. CASE r \notin Among(q)
  BY <1>2 DEF Position
<1>3. QED
  BY <1>1, <1>2

LEMMA PositionsAppend ==
    ASSUME NEW S, NEW v \in Seq(S), NEW r \in S, NEW q, Len(q) \in Nat
    PROVE  Positions(Append(v, r), q) = Append(Positions(v, q), Position(r, q))
<1> DEFINE w == Append(v, r)
           a == Positions(w, q)
           b == Positions(v, q)
           n == Position(r, q)
           c == Append(b, n)
<1>1. Len(v) \in Nat
  OBVIOUS
<1>2. /\ w \in Seq(S) /\ Len(w) = Len(v) + 1
      /\ \A i \in 1 .. Len(v) : w[i] = v[i]
      /\ w[Len(v) + 1] = r
  BY AppendProperties
<1>3. n \in Nat /\ \A x : Position(x, q) \in Nat
  BY PositionType
<1> HIDE DEF w, n
<1>4. b \in [1 .. Len(v) -> Nat] /\ a \in [1 .. Len(v) + 1 -> Nat]
  BY <1>2, <1>3 DEF Positions
<1>5. b \in Seq(Nat) /\ Len(b) = Len(v)
  BY <1>1, <1>4
<1>6. a \in Seq(Nat) /\ Len(a) = Len(v) + 1
  <2>1. Len(v) + 1 \in Nat
    BY <1>1
  <2>2. QED
    BY <1>4, <2>1
<1>7. \A i \in 1 .. Len(v) : a[i] = b[i]
  BY <1>1, <1>2 DEF Positions
<1>8. a[Len(v) + 1] = n
  <2>1. Len(v) + 1 \in 1 .. Len(w)
    BY <1>1, <1>2
  <2>2. QED
    BY <1>2, <2>1 DEF Positions, n
<1> HIDE DEF a, b
<1>9. /\ c \in Seq(Nat) /\ Len(c) = Len(v) + 1
      /\ \A i \in 1 .. Len(v) : c[i] = b[i]
      /\ c[Len(v) + 1] = n
  BY <1>3, <1>5, AppendProperties
<1> HIDE DEF c
<1>10. \A i \in 1 .. Len(v) + 1 : a[i] = c[i]
  <2> TAKE i \in 1 .. Len(v) + 1
  <2>1. i \in 1 .. Len(v) \/ i = Len(v) + 1
    BY <1>1
  <2>2. QED
    BY <1>7, <1>8, <1>9, <2>1
<1>11. a = c
  BY <1>6, <1>9, <1>10, SeqEqual
<1>12. QED
  BY <1>11 DEF a, b, c, n, w

\* Bytes that move on or are lost leave this as it is.
LEMMA KeptQueue ==
    ASSUME NEW f, NEW s, NEW m, NEW p, NEW s2, NEW m2, NEW p2, NEW q, NEW v,
           Len(m) = Len(s), Keeps(f, s, m, p, s2, m2, p2),
           Genuine(s, m, q), InOrder(m), AllPassed(v, q, m, p)
    PROVE  Genuine(s2, m2, q) /\ InOrder(m2) /\ AllPassed(v, q, m2, p2)
<1>1. /\ Len(m2) = Len(s2)
      /\ \A i \in 1 .. Len(m2) :
           /\ f[i] \in 1 .. Len(m) /\ m2[i] = m[f[i]] /\ s2[i] = s[f[i]]
           /\ i > p2 => f[i] > p
      /\ \A i, j \in 1 .. Len(m2) : i < j => f[i] < f[j]
  BY DEF Keeps
<1>2. Genuine(s2, m2, q)
  <2> SUFFICES ASSUME NEW i \in 1 .. Len(m2)
               PROVE  /\ m2[i].of \in 1 .. Len(q)
                      /\ m2[i].at \in 1 .. Len(PacketOf(q[m2[i].of]))
                      /\ s2[i] = PacketOf(q[m2[i].of])[m2[i].at]
    BY DEF Genuine
  <2>1. f[i] \in 1 .. Len(m) /\ m2[i] = m[f[i]] /\ s2[i] = s[f[i]]
    BY <1>1
  <2>2. /\ m[f[i]].of \in 1 .. Len(q)
        /\ m[f[i]].at \in 1 .. Len(PacketOf(q[m[f[i]].of]))
        /\ s[f[i]] = PacketOf(q[m[f[i]].of])[m[f[i]].at]
    BY <2>1 DEF Genuine
  <2>3. QED
    BY <2>1, <2>2
<1>3. InOrder(m2)
  <2> SUFFICES ASSUME NEW i \in 1 .. Len(m2), NEW j \in 1 .. Len(m2), i < j
               PROVE  m2[i].of < m2[j].of \/ (m2[i].of = m2[j].of /\ m2[i].at < m2[j].at)
    BY DEF InOrder
  <2>1. f[i] \in 1 .. Len(m) /\ f[j] \in 1 .. Len(m) /\ f[i] < f[j]
    BY <1>1
  <2>2. m[f[i]].of < m[f[j]].of \/ (m[f[i]].of = m[f[j]].of /\ m[f[i]].at < m[f[j]].at)
    BY <2>1 DEF InOrder
  <2>3. m2[i] = m[f[i]] /\ m2[j] = m[f[j]]
    BY <1>1
  <2>4. QED
    BY <2>2, <2>3
<1>4. AllPassed(v, q, m2, p2)
  BY <1>1 DEF AllPassed, Passed
<1>5. QED
  BY <1>2, <1>3, <1>4

\* Request r is sent, and n bytes of its packet go on their way.
Sends(r, n, q, s, m, q2, s2, m2) ==
    /\ q \in Seq(Requests) /\ r \in Requests /\ r \notin Among(q)
    /\ s \in Seq(Byte) /\ m \in Seq(Mark) /\ Len(m) = Len(s)
    /\ n \in 0 .. Len(PacketOf(r))
    /\ q2 = Append(q, r)
    /\ s2 = s \o SubSeq(PacketOf(r), 1, n)
    /\ m2 = m \o MarksOf(Len(q) + 1, n)

\* A request that is sent goes to the end of everything.
LEMMA SentQueue ==
    ASSUME CrcBytes, NEW r, NEW n, NEW q, NEW s, NEW m, NEW q2, NEW s2, NEW m2, NEW p, NEW v,
           Sends(r, n, q, s, m, q2, s2, m2),
           Distinct(q), Genuine(s, m, q), InOrder(m), AllPassed(v, q, m, p)
    PROVE  /\ Distinct(q2) /\ Genuine(s2, m2, q2) /\ InOrder(m2) /\ AllPassed(v, q2, m2, p)
           /\ Positions(v, q2) = Positions(v, q)
<1>0. /\ q \in Seq(Requests) /\ r \in Requests /\ r \notin Among(q)
      /\ s \in Seq(Byte) /\ m \in Seq(Mark) /\ Len(m) = Len(s)
      /\ n \in 0 .. Len(PacketOf(r))
      /\ q2 = Append(q, r)
      /\ s2 = s \o SubSeq(PacketOf(r), 1, n)
      /\ m2 = m \o MarksOf(Len(q) + 1, n)
  BY DEF Sends
<1> SUFFICES ASSUME q \in Seq(Requests), r \in Requests, r \notin Among(q),
                    s \in Seq(Byte), m \in Seq(Mark), Len(m) = Len(s),
                    n \in 0 .. Len(PacketOf(r)),
                    q2 = Append(q, r),
                    s2 = s \o SubSeq(PacketOf(r), 1, n),
                    m2 = m \o MarksOf(Len(q) + 1, n)
             PROVE  /\ Distinct(q2) /\ Genuine(s2, m2, q2) /\ InOrder(m2) /\ AllPassed(v, q2, m2, p)
                    /\ Positions(v, q2) = Positions(v, q)
  BY <1>0
<1> DEFINE N == Len(q)
           L == Len(m)
           new == SubSeq(PacketOf(r), 1, n)
<1>1. N \in Nat /\ L \in Nat
  OBVIOUS
<1>2. /\ Len(q2) = N + 1 /\ q2[N + 1] = r
      /\ \A i \in 1 .. N : q2[i] = q[i]
  BY AppendProperties
<1>3. n \in Nat /\ Len(PacketOf(r)) \in Nat /\ n <= Len(PacketOf(r))
  <2>1. PacketOf(r) \in Seq(Byte)
    BY SendBytesType DEF PacketOf
  <2>2. Len(PacketOf(r)) \in Nat
    BY <2>1
  <2>3. QED
    BY <2>2
<1>4. new \in Seq(Byte) /\ Len(new) = n /\ \A j \in 1 .. n : new[j] = PacketOf(r)[j]
  <2>1. PacketOf(r) \in Seq(Byte)
    BY SendBytesType DEF PacketOf
  <2>2. QED
    BY <2>1, SplitSeq
<1>5. /\ MarksOf(N + 1, n) \in Seq(Mark) /\ Len(MarksOf(N + 1, n)) = n
      /\ \A j \in 1 .. n : MarksOf(N + 1, n)[j].of = N + 1 /\ MarksOf(N + 1, n)[j].at = j
  <2> DEFINE o == N + 1
  <2>1. o \in Nat
    BY <1>1
  <2> HIDE DEF o
  <2>2. /\ MarksOf(o, n) \in Seq(Mark) /\ Len(MarksOf(o, n)) = n
        /\ \A j \in 1 .. n : MarksOf(o, n)[j].of = o /\ MarksOf(o, n)[j].at = j
    BY <1>3, <2>1, MarksOfType
  <2>3. QED
    BY <2>2 DEF o
<1> HIDE DEF new
<1>6. /\ Len(s2) = L + n
      /\ \A i \in 1 .. L + n : s2[i] = IF i <= L THEN s[i] ELSE new[i - L]
  <2>1. /\ Len(s \o new) = Len(s) + Len(new)
        /\ \A i \in 1 .. Len(s) + Len(new) :
               (s \o new)[i] = IF i <= Len(s) THEN s[i] ELSE new[i - Len(s)]
    BY <1>4, ConcatProperties
  <2>2. s2 = s \o new /\ Len(s) = L
    BY DEF new
  <2>3. QED
    BY <1>4, <2>1, <2>2
<1>7. /\ Len(m2) = L + n
      /\ \A i \in 1 .. L + n : m2[i] = IF i <= L THEN m[i] ELSE MarksOf(N + 1, n)[i - L]
  <2> DEFINE new2 == MarksOf(N + 1, n)
  <2> HIDE DEF new2
  <2>1. new2 \in Seq(Mark) /\ Len(new2) = n
    BY <1>5 DEF new2
  <2>2. /\ Len(m \o new2) = L + Len(new2)
        /\ \A i \in 1 .. L + Len(new2) :
               (m \o new2)[i] = IF i <= L THEN m[i] ELSE new2[i - L]
    BY <2>1, ConcatProperties
  <2>3. m2 = m \o new2
    BY DEF new2
  <2>4. QED
    BY <2>1, <2>2, <2>3 DEF new2
<1> HIDE DEF N, L
<1>8. \A i \in 1 .. Len(m2) : i \in 1 .. L \/ (i > L /\ i - L \in 1 .. n)
  BY <1>1, <1>3, <1>7
<1>9. \A i \in 1 .. L : i \in 1 .. Len(m2) /\ m2[i] = m[i] /\ s2[i] = s[i]
  BY <1>1, <1>3, <1>6, <1>7
<1>10. \A i \in 1 .. Len(m2) : i > L =>
           m2[i].of = N + 1 /\ m2[i].at = i - L /\ s2[i] = PacketOf(r)[i - L]
  <2> SUFFICES ASSUME NEW i \in 1 .. Len(m2), i > L
               PROVE  m2[i].of = N + 1 /\ m2[i].at = i - L /\ s2[i] = PacketOf(r)[i - L]
    OBVIOUS
  <2>1. i \in 1 .. L + n /\ ~(i <= L) /\ i - L \in 1 .. n
    BY <1>1, <1>3, <1>7
  <2>2. m2[i] = MarksOf(N + 1, n)[i - L] /\ s2[i] = new[i - L]
    BY <1>6, <1>7, <2>1
  <2>3. /\ MarksOf(N + 1, n)[i - L].of = N + 1 /\ MarksOf(N + 1, n)[i - L].at = i - L
        /\ new[i - L] = PacketOf(r)[i - L]
    BY <1>4, <1>5, <2>1
  <2>4. QED
    BY <2>2, <2>3
<1>11. \A i \in 1 .. L :
           m[i].of \in 1 .. N /\ q2[m[i].of] = q[m[i].of] /\ m[i].at \in Nat
  <2> TAKE i \in 1 .. L
  <2>1. m[i] \in Mark
    BY ElementOfSeq DEF L
  <2>2. m[i].of \in 1 .. N
    BY SMTT(30) DEF Genuine, N, L
  <2>3. QED
    BY <1>2, <2>1, <2>2 DEF Mark
<1>12. Genuine(s2, m2, q2)
  <2> SUFFICES ASSUME NEW i \in 1 .. Len(m2)
               PROVE  /\ m2[i].of \in 1 .. Len(q2)
                      /\ m2[i].at \in 1 .. Len(PacketOf(q2[m2[i].of]))
                      /\ s2[i] = PacketOf(q2[m2[i].of])[m2[i].at]
    BY DEF Genuine
  <2>1. CASE i \in 1 .. L
    <3>1. /\ m[i].at \in 1 .. Len(PacketOf(q[m[i].of]))
          /\ s[i] = PacketOf(q[m[i].of])[m[i].at]
      BY <2>1 DEF Genuine, L
    <3>2. m[i].of \in 1 .. N + 1
      BY SMTT(30), <1>1, <1>11, <2>1
    <3>3. QED
      BY <1>2, <1>9, <1>11, <2>1, <3>1, <3>2
  <2>2. CASE i > L /\ i - L \in 1 .. n
    <3>1. m2[i].of = N + 1 /\ m2[i].at = i - L /\ s2[i] = PacketOf(r)[i - L]
      BY <1>10, <2>2
    <3>2. q2[m2[i].of] = r
      BY <1>2, <3>1
    <3>3. i - L \in 1 .. Len(PacketOf(r)) /\ N + 1 \in 1 .. Len(q2)
      BY <1>1, <1>2, <1>3, <2>2
    <3>4. QED
      BY <3>1, <3>2, <3>3
  <2>3. QED
    BY <1>8, <2>1, <2>2
<1>13. InOrder(m2)
  <2> SUFFICES ASSUME NEW i \in 1 .. Len(m2), NEW j \in 1 .. Len(m2), i < j
               PROVE  m2[i].of < m2[j].of \/ (m2[i].of = m2[j].of /\ m2[i].at < m2[j].at)
    BY DEF InOrder
  <2>1. CASE j \in 1 .. L
    <3>1. i \in 1 .. L
      BY <1>1, <1>8, <2>1
    <3>2. m[i].of < m[j].of \/ (m[i].of = m[j].of /\ m[i].at < m[j].at)
      BY <2>1, <3>1 DEF InOrder, L
    <3>3. m2[i] = m[i] /\ m2[j] = m[j]
      BY <1>9, <2>1, <3>1
    <3>4. QED
      BY <3>2, <3>3
  <2>2. CASE j > L /\ i \in 1 .. L
    <3>1. m2[j].of = N + 1 /\ m2[i].of = m[i].of
      BY <1>9, <1>10, <2>2
    <3>2. m[i].of < N + 1
      <4>1. m[i].of \in 1 .. N
        BY <1>11, <2>2
      <4>2. QED
        BY SMTT(30), <1>1, <4>1
    <3>3. QED
      BY <3>1, <3>2
  <2>3. CASE j > L /\ i > L
    <3>1. m2[i].of = N + 1 /\ m2[j].of = N + 1 /\ m2[i].at = i - L /\ m2[j].at = j - L
      BY <1>10, <2>3
    <3>2. i - L < j - L
      <4>1. i \in Int /\ j \in Int
        BY <1>1, <1>3, <1>7
      <4>2. QED
        BY <1>1, <4>1
    <3>3. QED
      BY <3>1, <3>2
  <2>4. QED
    BY <1>8, <2>1, <2>2, <2>3
<1>14. Distinct(q2)
  <2> SUFFICES ASSUME NEW i \in 1 .. Len(q2), NEW j \in 1 .. Len(q2), q2[i] = q2[j]
               PROVE  i = j
    BY DEF Distinct
  <2>1. (i \in 1 .. N \/ i = N + 1) /\ (j \in 1 .. N \/ j = N + 1)
    BY <1>1, <1>2
  <2>2. \A k \in 1 .. N : q2[k] # r
    BY <1>2 DEF Among, N
  <2>3. CASE i \in 1 .. N /\ j \in 1 .. N
    BY <1>2, <2>3 DEF Distinct, N
  <2>4. QED
    BY <1>2, <2>1, <2>2, <2>3
<1>15. \A i \in 1 .. Len(v) :
           v[i] \in Among(q2) /\ Position(v[i], q2) = Position(v[i], q) /\ Position(v[i], q) \in 1 .. N
  <2> TAKE i \in 1 .. Len(v)
  <2>1. PICK k \in 1 .. N : v[i] = q[k]
    BY DEF AllPassed, Among, N
  <2>2. Position(v[i], q) = k
    BY <1>1, <2>1, PositionIs DEF N
  <2>3. v[i] = q2[k] /\ k \in 1 .. Len(q2) /\ Len(q2) \in Nat
    BY <1>1, <1>2, <2>1
  <2>4. v[i] \in Among(q2) /\ Position(v[i], q2) = k
    BY <1>14, <2>3, PositionIs
  <2>5. QED
    BY <2>1, <2>2, <2>4
<1>16. AllPassed(v, q2, m2, p)
  <2> SUFFICES ASSUME NEW i \in 1 .. Len(v), NEW j \in 1 .. Len(m2), j > p, m2[j].at = 1
               PROVE  Position(v[i], q) < m2[j].of
    BY <1>15 DEF AllPassed, Passed
  <2>1. CASE j \in 1 .. L
    BY <1>9, <2>1 DEF AllPassed, Passed, L
  <2>2. CASE j > L
    <3>1. m2[j].of = N + 1
      BY <1>10, <2>2
    <3>2. Position(v[i], q) \in 1 .. N
      BY <1>15
    <3>3. QED
      BY SMTT(30), <1>1, <3>1, <3>2
  <2>3. QED
    BY <1>8, <2>1, <2>2
<1>17. Positions(v, q2) = Positions(v, q)
  BY <1>15 DEF Positions
<1>18. QED
  BY <1>12, <1>13, <1>14, <1>16, <1>17

\* What is served is the request whose packet the pointer is at.
LEMMA HandledWasSent ==
    ASSUME CrcBytes, TypeOK, MarksFit, Genuine(stream, marks, sent), NothingMadeUp,
           pc = "parse", Left >= MIN_PKT_LEN, AtPacket,
           NEW p, p = decode_packet(buf, pos), Handles(p, ReadCmds \cup {WRITE_CONFIG})
    PROVE  \E n \in 1 .. Len(sent) :
               /\ [cmd |-> p.cmd, pld |-> p.pld] = sent[n]
               /\ pos + 1 \in 1 .. Len(marks)
               /\ marks[pos + 1].of = n /\ marks[pos + 1].at = 1
<1> DEFINE size == decoded_len(buf, pos)
<1>1. PICK n \in 1 .. Len(sent) :
          \A j \in 1 .. size : marks[pos + j] = [of |-> n, at |-> j]
  BY DEF NothingMadeUp
<1>2. /\ buf \in Seq(Byte) /\ ring \in Seq(Byte) /\ line \in Seq(Byte) /\ sent \in Seq(Requests)
      /\ pos \in Nat /\ Len(buf) \in Nat /\ Len(sent) \in Nat /\ Len(buf) - pos >= MIN_PKT_LEN
  BY DEF TypeOK, Left
<1>3. /\ size \in Nat /\ size = MIN_PKT_LEN + buf[pos + 3] /\ size >= MIN_PKT_LEN
      /\ pos + size <= Len(buf)
  BY <1>2, DecodedLenBounds DEF AtPacket
<1>4. Len(buf) <= Len(marks) /\ Len(marks) \in Nat /\ \A i \in 1 .. Len(buf) : stream[i] = buf[i]
  <2>1. ring \o line \in Seq(Byte)
    BY <1>2, ConcatProperties
  <2>2. stream = buf \o (ring \o line)
    <3>1. buf \in Seq(Byte) /\ ring \in Seq(Byte) /\ line \in Seq(Byte)
      BY <1>2
    <3>2. Cat(Cat(buf, ring), line) = Cat(buf, Cat(ring, line))
      BY <3>1, Regroup
    <3>3. QED
      BY <3>2 DEF stream, Cat
  <2> DEFINE rest == ring \o line
  <2> HIDE DEF rest
  <2>3. rest \in Seq(Byte) /\ stream = buf \o rest /\ Len(rest) \in Nat
    BY <2>1, <2>2 DEF rest
  <2>4. /\ Len(stream) = Len(buf) + Len(rest)
        /\ \A i \in 1 .. Len(buf) + Len(rest) :
               stream[i] = IF i <= Len(buf) THEN buf[i] ELSE rest[i - Len(buf)]
    BY <1>2, <2>3, ConcatProperties
  <2>5. \A i \in 1 .. Len(buf) : i \in 1 .. Len(buf) + Len(rest) /\ i <= Len(buf)
    BY <1>2, <2>3
  <2>6. QED
    BY <1>2, <2>3, <2>4, <2>5 DEF MarksFit
<1> DEFINE r == sent[n]
<1>5. /\ r \in Requests /\ r = [cmd |-> r.cmd, pld |-> r.pld]
      /\ r.cmd \in Byte /\ r.pld \in Seq(Byte) /\ Len(r.pld) <= MAX_PLD_LEN
  <2>1. r \in Requests
    BY <1>2, ElementOfSeq
  <2>2. QED
    BY <2>1, SendBytesType
<1> HIDE DEF size
<1>6. \A j \in 1 .. size :
          /\ pos + j \in 1 .. Len(buf) /\ pos + j \in 1 .. Len(marks)
          /\ marks[pos + j].of = n /\ marks[pos + j].at = j
  <2> TAKE j \in 1 .. size
  <2>1. pos + j \in 1 .. Len(buf) /\ pos + j \in 1 .. Len(marks)
    BY SMTT(30), <1>2, <1>3, <1>4
  <2>2. marks[pos + j] = [of |-> n, at |-> j]
    BY <1>1
  <2>3. QED
    BY <2>1, <2>2
<1>7. \A j \in 1 .. size : buf[pos + j] = PacketOf(r)[j]
  <2> TAKE j \in 1 .. size
  <2>1. stream[pos + j] = PacketOf(sent[marks[pos + j].of])[marks[pos + j].at]
    BY <1>6 DEF Genuine
  <2>2. QED
    BY <1>4, <1>6, <2>1
<1> HIDE DEF r
<1>8. buf[pos + 3] = Len(r.pld)
  <2>1. 3 \in 1 .. size
    BY <1>3 DEF MIN_PKT_LEN
  <2>2. PacketOf(r)[3] = Len(r.pld)
    BY <1>5, SentBytes DEF PacketOf
  <2>3. QED
    BY <1>7, <2>1, <2>2
<1>9. size = MIN_PKT_LEN + Len(r.pld)
  BY <1>3, <1>8
<1>10. \A j \in 1 .. MIN_PKT_LEN + Len(r.pld) : buf[pos + j] = send_bytes(r.cmd, r.pld)[j]
  BY <1>7, <1>9 DEF PacketOf
<1>11. pos + MIN_PKT_LEN + Len(r.pld) <= Len(buf)
  <2> DEFINE L == Len(r.pld)
  <2>1. L \in Nat
    BY <1>5
  <2>2. size = MIN_PKT_LEN + L
    BY <1>9
  <2> HIDE DEF L
  <2>3. pos + MIN_PKT_LEN + L <= Len(buf)
    BY <1>2, <1>3, <2>1, <2>2 DEF MIN_PKT_LEN
  <2>4. QED
    BY <2>3 DEF L
<1>12. p.cmd = r.cmd /\ p.pld = r.pld
  <2> DEFINE c == r.cmd
             l == r.pld
  <2>1. /\ c \in Byte /\ l \in Seq(Byte) /\ Len(l) <= MAX_PLD_LEN
        /\ buf \in Seq(Byte) /\ pos \in Nat /\ pos + MIN_PKT_LEN + Len(l) <= Len(buf)
        /\ \A j \in 1 .. MIN_PKT_LEN + Len(l) : buf[pos + j] = send_bytes(c, l)[j]
    BY <1>2, <1>5, <1>10, <1>11
  <2> HIDE DEF c, l
  <2>2. /\ Len(buf) - pos >= MIN_PKT_LEN /\ buf[pos + 1] = PKT_HDR
        /\ decoded_len(buf, pos) = MIN_PKT_LEN + Len(l)
        /\ decode_packet(buf, pos).cmd = c /\ decode_packet(buf, pos).pld = l
        /\ Accepts(decode_packet(buf, pos))
    BY <2>1, DecodeSent
  <2>3. QED
    BY <2>2 DEF c, l
<1>13. [cmd |-> p.cmd, pld |-> p.pld] = sent[n]
  BY <1>5, <1>12 DEF r
<1>14. 1 \in 1 .. size
  BY <1>3 DEF MIN_PKT_LEN
<1>15. QED
  BY <1>6, <1>13, <1>14

\* The n-th request is served: its packet, of size bytes, begins behind p.
Serves(n, size, S, q, v, m, p, v2) ==
    /\ Len(q) \in Nat /\ v \in Seq(S) /\ Len(m) \in Nat /\ p \in Nat
    /\ size \in Nat /\ size # 0
    /\ n \in 1 .. Len(q) /\ q[n] \in S
    /\ p + 1 \in 1 .. Len(m) /\ m[p + 1].of = n /\ m[p + 1].at = 1
    /\ v2 = Append(v, q[n])

\* The pointer moves on behind a packet that is handled.
LEMMA ServedQueue ==
    ASSUME NEW n, NEW size, NEW S, NEW q, NEW v, NEW m, NEW p, NEW v2,
           Serves(n, size, S, q, v, m, p, v2),
           Distinct(q), InOrder(m), AllPassed(v, q, m, p)
    PROVE  /\ AllPassed(v2, q, m, p + size)
           /\ Positions(v2, q) = Append(Positions(v, q), n)
           /\ \A i \in 1 .. Len(Positions(v, q)) : Positions(v, q)[i] < n
<1>0. /\ Len(q) \in Nat /\ v \in Seq(S) /\ Len(m) \in Nat /\ p \in Nat
      /\ size \in Nat /\ size # 0
      /\ n \in 1 .. Len(q) /\ q[n] \in S
      /\ p + 1 \in 1 .. Len(m) /\ m[p + 1].of = n /\ m[p + 1].at = 1
      /\ v2 = Append(v, q[n])
  BY DEF Serves
<1> SUFFICES ASSUME Len(q) \in Nat, v \in Seq(S), Len(m) \in Nat, p \in Nat,
                    size \in Nat, size # 0,
                    n \in 1 .. Len(q), q[n] \in S,
                    p + 1 \in 1 .. Len(m), m[p + 1].of = n, m[p + 1].at = 1,
                    v2 = Append(v, q[n])
             PROVE  /\ AllPassed(v2, q, m, p + size)
                    /\ Positions(v2, q) = Append(Positions(v, q), n)
                    /\ \A i \in 1 .. Len(Positions(v, q)) : Positions(v, q)[i] < n
  BY <1>0
<1>1. q[n] \in Among(q) /\ Position(q[n], q) = n
  BY PositionIs
<1>2. Positions(v2, q) = Append(Positions(v, q), n)
  BY <1>1, PositionsAppend
<1>3. Len(v) \in Nat
  OBVIOUS
<1>4. \A i \in 1 .. Len(v) : Position(v[i], q) < n
  BY DEF AllPassed, Passed
<1>5. \A i \in 1 .. Len(Positions(v, q)) : Positions(v, q)[i] < n
  <2>1. Positions(v, q) = [i \in 1 .. Len(v) |-> Position(v[i], q)]
    BY DEF Positions
  <2>2. \A i \in 1 .. Len(v) : Position(v[i], q) \in Nat
    BY PositionType
  <2>3. Positions(v, q) \in [1 .. Len(v) -> Nat]
    BY <2>1, <2>2
  <2>4. Len(Positions(v, q)) = Len(v)
    BY <1>3, <2>3
  <2>5. QED
    BY <1>4, <2>1, <2>4
<1>6. /\ Len(v2) = Len(v) + 1 /\ v2[Len(v) + 1] = q[n]
      /\ \A i \in 1 .. Len(v) : v2[i] = v[i]
  BY AppendProperties
<1>7. ASSUME NEW i \in 1 .. Len(v2)
      PROVE  v2[i] \in Among(q) /\ Passed(Position(v2[i], q), m, p + size)
  <2>1. i \in 1 .. Len(v) \/ i = Len(v) + 1
    BY <1>3, <1>6
  <2>2. CASE i \in 1 .. Len(v)
    <3>1. v[i] \in Among(q) /\ Passed(Position(v[i], q), m, p)
      BY <2>2 DEF AllPassed
    <3>2. \A k \in 1 .. Len(m) : k > p + size => k > p
      OBVIOUS
    <3>3. Passed(Position(v[i], q), m, p + size)
      BY <3>1, <3>2 DEF Passed
    <3>4. QED
      BY <1>6, <2>2, <3>1, <3>3
  <2>3. CASE i = Len(v) + 1
    <3>1. Passed(n, m, p + size)
      <4> SUFFICES ASSUME NEW k \in 1 .. Len(m), k > p + size, m[k].at = 1
                   PROVE  n < m[k].of
        BY DEF Passed
      <4>1. p + 1 < k
        OBVIOUS
      <4>2. m[p + 1].of < m[k].of \/ (m[p + 1].of = m[k].of /\ m[p + 1].at < m[k].at)
        BY <4>1 DEF InOrder
      <4>3. QED
        BY <4>2
    <3>2. QED
      BY <1>1, <1>6, <2>3, <3>1
  <2>4. QED
    BY <2>1, <2>2, <2>3
<1>8. AllPassed(v2, q, m, p + size)
  BY <1>7 DEF AllPassed
<1>9. QED
  BY <1>2, <1>5, <1>8

\* What RequestQueue sees.
LEMMA SeenAs ==
    /\ [i \in 1 .. Len(served) |-> SentAs(served[i])] = Positions(served, sent)
    /\ [i \in 1 .. Len(served) |-> SentAs(served[i])]' = Positions(served', sent')
BY DEF SentAs, Positions, Position, Among

QueueStepOf(q, v, q2, v2) ==
    \/ q2 = q /\ v2 = v
    \/ /\ q2 \in Seq(Requests) /\ Len(q) < Len(q2) /\ SubSeq(q2, 1, Len(q)) = q /\ v2 = v
    \/ /\ q2 = q
       /\ \E n \in 1 .. Len(q) : (\A i \in 1 .. Len(v) : v[i] < n) /\ v2 = Append(v, n)

\* Send, as SentQueue sees it.
LEMMA SendSends ==
    ASSUME CrcBytes, TypeOK, MarksFit, NEW r \in Requests, Send(r)
    PROVE  \E n \in 0 .. Len(PacketOf(r)) :
               /\ Sends(r, n, sent, stream, marks, sent', stream', marks')
               /\ cut' = (cut \/ n < Len(PacketOf(r)))
<1>1. PICK n \in 0 .. Len(PacketOf(r)) :
          /\ line' = line \o SubSeq(PacketOf(r), 1, n)
          /\ marks' = marks \o MarksOf(Len(sent) + 1, n)
          /\ cut' = (cut \/ n < Len(PacketOf(r)))
  BY SendPuts DEF PacketOf
<1>2. /\ r \notin Among(sent) /\ sent' = Append(sent, r)
      /\ buf' = buf /\ ring' = ring
  BY DEF Send, driver, task
<1>3. /\ sent \in Seq(Requests) /\ marks \in Seq(Mark) /\ Len(marks) = Len(stream)
      /\ buf \in Seq(Byte) /\ ring \in Seq(Byte) /\ line \in Seq(Byte)
  BY DEF TypeOK, Mark, MarksFit
<1> DEFINE new == SubSeq(PacketOf(r), 1, n)
           front == buf \o ring
<1>4. new \in Seq(Byte) /\ front \in Seq(Byte)
  <2>1. PacketOf(r) \in Seq(Byte)
    BY SendBytesType DEF PacketOf
  <2>2. QED
    BY <1>3, <2>1, SplitSeq, ConcatProperties
<1>5. stream \in Seq(Byte)
  BY <1>3, <1>4, ConcatProperties DEF stream
<1>6. stream' = stream \o new
  <2>1. stream' = front \o (line \o new)
    BY <1>1, <1>2 DEF stream
  <2> HIDE DEF front, new
  <2>2. front \in Seq(Byte) /\ line \in Seq(Byte) /\ new \in Seq(Byte)
    BY <1>3, <1>4
  <2>3. Cat(Cat(front, line), new) = Cat(front, Cat(line, new))
    BY <2>2, Regroup
  <2>4. stream' = Cat(front, Cat(line, new)) /\ stream = Cat(front, line)
    BY <2>1 DEF front, stream, Cat
  <2>5. stream' = Cat(stream, new)
    BY <2>3, <2>4
  <2>6. QED
    BY <2>5 DEF Cat
<1>7. Sends(r, n, sent, stream, marks, sent', stream', marks')
  BY <1>1, <1>2, <1>3, <1>5, <1>6 DEF Sends
<1>8. QED
  BY <1>1, <1>7

LEMMA QueueStep ==
    ASSUME CrcBytes, TypeInv, QueueInv, NothingMadeUp, [Next]_vars
    PROVE  /\ QueueInv'
           /\ QueueStepOf(sent, Positions(served, sent), sent', Positions(served', sent'))
<1>1. TypeOK /\ MarksFit /\ StartsInFront
  BY DEF TypeInv
<1>2. /\ sent \in Seq(Requests) /\ Len(sent) \in Nat /\ marks \in Seq(Mark) /\ Len(marks) \in Nat
      /\ Len(marks) = Len(stream) /\ pos \in Nat /\ stream \in Seq(Byte)
      /\ served \in Seq([cmd : Byte, pld : Seq(Byte)])
  <2>1. buf \in Seq(Byte) /\ ring \in Seq(Byte) /\ line \in Seq(Byte)
    BY <1>1 DEF TypeOK
  <2>2. buf \o ring \in Seq(Byte)
    BY <2>1, ConcatProperties
  <2>3. stream \in Seq(Byte)
    BY <2>1, <2>2, ConcatProperties DEF stream
  <2>4. QED
    BY SMTT(30), <1>1, <2>3 DEF TypeOK, Mark, MarksFit
<1>3. /\ Distinct(sent) /\ Genuine(stream, marks, sent) /\ InOrder(marks)
      /\ AllPassed(served, sent, marks, pos)
  BY Zenon DEF QueueInv
<1>4. ASSUME NEW r \in Requests, Send(r)
      PROVE  /\ QueueInv'
             /\ QueueStepOf(sent, Positions(served, sent), sent', Positions(served', sent'))
  <2>1. PICK n : Sends(r, n, sent, stream, marks, sent', stream', marks')
    BY <1>1, <1>4, SendSends
  <2>2. sent' = Append(sent, r) /\ pos' = pos /\ served' = served
    BY <1>4 DEF Send, task
  <2>5. /\ Distinct(sent') /\ Genuine(stream', marks', sent') /\ InOrder(marks')
        /\ AllPassed(served, sent', marks', pos)
        /\ Positions(served, sent') = Positions(served, sent)
    BY <1>3, <2>1, SentQueue
  <2>6. QueueInv'
    BY <2>2, <2>5 DEF QueueInv
  <2>7. sent' \in Seq(Requests) /\ Len(sent) < Len(sent') /\ SubSeq(sent', 1, Len(sent)) = sent
    <3>1. sent' \in Seq(Requests) /\ Len(sent') = Len(sent) + 1
      BY <1>2, <2>2, AppendProperties
    <3>2. \A i \in 1 .. Len(sent) : sent'[i] = sent[i]
      BY <1>2, <2>2, AppendProperties
    <3>3. Len(sent) \in 0 .. Len(sent')
      BY <1>2, <3>1
    <3>4. /\ SubSeq(sent', 1, Len(sent)) \in Seq(Requests)
          /\ Len(SubSeq(sent', 1, Len(sent))) = Len(sent)
          /\ \A i \in 1 .. Len(sent) : SubSeq(sent', 1, Len(sent))[i] = sent'[i]
      BY <3>1, <3>3, SplitSeq
    <3>5. SubSeq(sent', 1, Len(sent)) = sent
      BY <1>2, <3>2, <3>4, SeqEqual
    <3>6. QED
      BY <1>2, <3>1, <3>5
  <2>8. QED
    BY <2>2, <2>5, <2>6, <2>7 DEF QueueStepOf
<1>5. ASSUME sent' = sent, served' = served,
             RxChunk \/ RxOverflow \/ RxJunk \/ Task \/ Reset \/ UNCHANGED vars
      PROVE  /\ QueueInv'
             /\ QueueStepOf(sent, Positions(served, sent), sent', Positions(served', sent'))
  <2>1. PICK f : Keeps(f, stream, marks, pos, stream', marks', pos')
    BY <1>1, <1>5, StreamStep
  <2>2. /\ Genuine(stream', marks', sent) /\ InOrder(marks')
        /\ AllPassed(served, sent, marks', pos')
    BY <1>2, <1>3, <2>1, KeptQueue
  <2>3. QED
    BY <1>3, <1>5, <2>2 DEF QueueInv, QueueStepOf
<1>6. CASE TakePacket
  <2> DEFINE p == decode_packet(buf, pos)
             size == decoded_len(buf, pos)
             e == [cmd |-> p.cmd, pld |-> p.pld]
  <2>1. /\ pc = "parse" /\ Left >= MIN_PKT_LEN /\ AtPacket
        /\ pos' = pos + size
        /\ buf' = buf /\ ring' = ring /\ line' = line /\ sent' = sent /\ marks' = marks
    BY <1>6 DEF TakePacket, driver
  <2>2. served' = IF Handles(p, ReadCmds \cup {WRITE_CONFIG}) THEN Append(served, e) ELSE served
    BY <1>6 DEF TakePacket, Handles
  <2>3. CASE ~Handles(p, ReadCmds \cup {WRITE_CONFIG})
    <3>1. served' = served
      BY <2>2, <2>3
    <3>2. Task
      BY <1>6 DEF Task
    <3>3. QED
      BY <1>5, <2>1, <3>1, <3>2
  <2>4. CASE Handles(p, ReadCmds \cup {WRITE_CONFIG})
    <3>1. PICK n \in 1 .. Len(sent) :
              /\ e = sent[n] /\ pos + 1 \in 1 .. Len(marks)
              /\ marks[pos + 1].of = n /\ marks[pos + 1].at = 1
      BY <1>1, <1>3, <2>1, <2>4, HandledWasSent
    <3>2. size \in Nat /\ size # 0
      <4>1. buf \in Seq(Byte) /\ pos \in Nat /\ Len(buf) - pos >= MIN_PKT_LEN
        BY <1>1, <1>2, <2>1 DEF TypeOK, Left
      <4>2. QED
        BY <2>1, <4>1, DecodedLenBounds DEF AtPacket
    <3>3. e \in [cmd : Byte, pld : Seq(Byte)]
      <4>1. p \in Packet
        BY <1>1, <2>1, TakenFacts
      <4> HIDE DEF p
      <4>2. p.cmd \in Byte /\ p.pld \in Seq(Byte)
        BY <4>1 DEF Packet
      <4>3. QED
        BY <4>2
    <3>4. served' = Append(served, sent[n])
      BY <2>2, <2>4, <3>1
    <3> DEFINE T == [cmd : Byte, pld : Seq(Byte)]
    <3> HIDE DEF T, size, e
    <3>5. served \in Seq(T) /\ sent[n] \in T
      BY <1>2, <3>1, <3>3 DEF T
    <3>6. /\ AllPassed(served', sent, marks, pos + size)
          /\ Positions(served', sent) = Append(Positions(served, sent), n)
          /\ \A i \in 1 .. Len(Positions(served, sent)) : Positions(served, sent)[i] < n
      <4>1. /\ Len(sent) \in Nat /\ Len(marks) \in Nat /\ pos \in Nat
            /\ size \in Nat /\ size # 0 /\ n \in 1 .. Len(sent)
            /\ pos + 1 \in 1 .. Len(marks)
            /\ marks[pos + 1].of = n /\ marks[pos + 1].at = 1
            /\ served \in Seq(T) /\ sent[n] \in T
            /\ served' = Append(served, sent[n])
        BY <1>2, <3>1, <3>2, <3>4, <3>5
      <4>2. Serves(n, size, T, sent, served, marks, pos, served')
        BY <4>1 DEF Serves
      <4>3. QED
        BY <1>3, <4>2, ServedQueue
    <3>7. QueueInv'
      <4>1. stream' = stream
        BY <2>1 DEF stream
      <4>2. QED
        BY <1>3, <2>1, <3>6, <4>1 DEF QueueInv
    <3>8. QED
      BY <2>1, <3>6, <3>7 DEF QueueStepOf
  <2>5. QED
    BY <2>3, <2>4
<1>7. CASE RxChunk \/ RxOverflow \/ RxJunk \/ Reset \/ UNCHANGED vars
  <2>1. sent' = sent /\ served' = served
    BY <1>7 DEF RxChunk, RxOverflow, RxJunk, Reset, vars, task
  <2>2. QED
    BY <1>5, <1>7, <2>1
<1>8. CASE Task /\ ~TakePacket
  <2>1. sent' = sent /\ served' = served
    BY <1>8 DEF Task, ReceiveEvent, CheckBuffered, ReadSome, ReadDone, SkipByte, EepromWait, EndParse
  <2>2. QED
    BY <1>5, <1>8, <2>1
<1>9. QED
  BY <1>4, <1>6, <1>7, <1>8 DEF Next

LEMMA QueueInit == Init => QueueInv /\ Queue!Init
<1> SUFFICES ASSUME Init PROVE QueueInv /\ Queue!Init
  OBVIOUS
<1>1. sent = <<>> /\ served = <<>> /\ marks = <<>>
  BY DEF Init
<1>2. Len(sent) = 0 /\ Len(served) = 0 /\ Len(marks) = 0
  BY <1>1
<1>3. QueueInv
  BY <1>2 DEF QueueInv, Distinct, Genuine, InOrder, AllPassed
<1>4. [i \in 1 .. Len(served) |-> SentAs(served[i])] = <<>>
  <2>1. 1 .. Len(served) = {}
    BY <1>2
  <2>2. QED
    BY <2>1
<1>5. Queue!Init
  BY <1>1, <1>4 DEF Queue!Init
<1>6. QED
  BY <1>3, <1>5

\* Whatever the line and the driver lose, however reads cut the packets and
\* whenever the ESP32 is reset, the server serves the requests as RequestQueue
\* does: each at most once, in the order of sending.  The hypothesis is what the
\* checksum is for: two bytes of it cannot rule out for all requests that pieces of
\* them look like a packet.
THEOREM RequestsServedAsQueue ==
    ASSUME CrcBytes
    PROVE  Spec /\ []NothingMadeUp => ImplementsRequestQueue
<1>1. Init => TypeInv /\ QueueInv /\ Queue!Init
  BY InitTypeInv, QueueInit
<1>2. TypeInv /\ QueueInv /\ NothingMadeUp /\ [Next]_vars
          => /\ TypeInv' /\ QueueInv'
             /\ [Queue!Next]_<<sent, [i \in 1 .. Len(served) |-> SentAs(served[i])]>>
  <2> SUFFICES ASSUME TypeInv, QueueInv, NothingMadeUp, [Next]_vars
               PROVE  /\ TypeInv' /\ QueueInv'
                      /\ [Queue!Next]_<<sent, [i \in 1 .. Len(served) |-> SentAs(served[i])]>>
    OBVIOUS
  <2>1. TypeInv' /\ QueueInv'
    BY TypeStep, QueueStep
  <2> DEFINE v == [i \in 1 .. Len(served) |-> SentAs(served[i])]
  <2>2. v = Positions(served, sent) /\ v' = Positions(served', sent')
    BY SeenAs
  <2>3. QueueStepOf(sent, v, sent', v')
    BY <2>2, QueueStep
  <2>4. [Queue!Next]_<<sent, v>>
    <3>1. CASE sent' = sent /\ v' = v
      BY <3>1
    <3>2. CASE /\ sent' \in Seq(Requests) /\ Len(sent) < Len(sent')
               /\ SubSeq(sent', 1, Len(sent)) = sent /\ v' = v
      BY <3>2 DEF Queue!Next, Queue!Send
    <3>3. CASE /\ sent' = sent
               /\ \E n \in 1 .. Len(sent) : (\A i \in 1 .. Len(v) : v[i] < n) /\ v' = Append(v, n)
      BY <3>3 DEF Queue!Next, Queue!Serve
    <3>4. QED
      BY <2>3, <3>1, <3>2, <3>3 DEF QueueStepOf
  <2>5. QED
    BY <2>1, <2>4
<1>3. QED
  BY <1>1, <1>2, PTL DEF Spec, ImplementsRequestQueue, Queue!Spec

-----------------------------------------------------------------------------
(***************************************************************************)
(* Where the packets end that were sent                                    *)
(***************************************************************************)

Size(r) == MIN_PKT_LEN + Len(r.pld)

\* Boundary, for any sequence of requests.
EndsOf(q) ==
    LET Ends[n \in Nat] == IF n = 0 THEN 0 ELSE Ends[n - 1] + MIN_PKT_LEN + Len(q[n].pld)
    IN  Ends

LEMMA BoundaryIsEnds == Boundary = EndsOf(sent)
BY DEF Boundary, EndsOf

EndOf(q, f, n) == IF n = 0 THEN 0 ELSE f[n - 1] + MIN_PKT_LEN + Len(q[n].pld)

\* The recursion has a solution up to every n, and only one.
LEMMA EndsUpTo ==
    ASSUME NEW q
    PROVE  /\ \A n \in Nat : \E g : g = [k \in 0 .. n |-> EndOf(q, g, k)]
           /\ \A g, h, m, n : m \in Nat /\ n \in Nat /\ m <= n
                /\ g = [k \in 0 .. m |-> EndOf(q, g, k)] /\ h = [k \in 0 .. n |-> EndOf(q, h, k)]
                    => g[m] = h[m]
<1> DEFINE Solves(g, n) == g = [k \in 0 .. n |-> EndOf(q, g, k)]
<1>1. \A n \in Nat : \E g : Solves(g, n)
  <2> DEFINE S == { n \in Nat : \E g : Solves(g, n) }
  <2>1. 0 \in S
    <3> DEFINE g == [k \in 0 .. 0 |-> 0]
    <3>1. \A k \in 0 .. 0 : g[k] = EndOf(q, g, k)
      BY DEF EndOf
    <3>2. [k \in 0 .. 0 |-> EndOf(q, g, k)] = g
      BY <3>1
    <3> HIDE DEF g
    <3>3. Solves(g, 0)
      BY <3>2
    <3>4. QED
      BY <3>3
  <2>2. ASSUME NEW n \in Nat, n \in S PROVE n + 1 \in S
    <3>1. PICK g : Solves(g, n)
      BY <2>2
    <3> DEFINE h == [k \in 0 .. n + 1 |-> EndOf(q, g, k)]
    <3>2. \A k \in 0 .. n : g[k] = EndOf(q, g, k)
      <4>1. g = [k \in 0 .. n |-> EndOf(q, g, k)]
        BY <3>1
      <4> DEFINE F == [k \in 0 .. n |-> EndOf(q, g, k)]
      <4>2. \A k \in 0 .. n : F[k] = EndOf(q, g, k)
        OBVIOUS
      <4> HIDE DEF F
      <4>3. g = F
        BY <4>1 DEF F
      <4>4. QED
        BY <4>2, <4>3
    <3>3. \A k \in 0 .. n : h[k] = g[k]
      BY <3>2
    <3>4. \A k \in 0 .. n + 1 : EndOf(q, g, k) = EndOf(q, h, k)
      <4> HIDE DEF h
      <4> TAKE k \in 0 .. n + 1
      <4>1. k # 0 => k - 1 \in 0 .. n
        OBVIOUS
      <4>2. QED
        BY <3>3, <4>1 DEF EndOf
    <3>5. [k \in 0 .. n + 1 |-> EndOf(q, h, k)] = h
      <4>1. [k \in 0 .. n + 1 |-> EndOf(q, g, k)] = h
        OBVIOUS
      <4> HIDE DEF h
      <4>2. [k \in 0 .. n + 1 |-> EndOf(q, h, k)] = [k \in 0 .. n + 1 |-> EndOf(q, g, k)]
        BY <3>4
      <4>3. QED
        BY <4>1, <4>2
    <3> HIDE DEF h
    <3>6. Solves(h, n + 1)
      BY <3>5
    <3>7. QED
      BY <3>6
  <2> HIDE DEF S
  <2>3. \A n \in Nat : n \in S
    BY <2>1, <2>2, SetInduction
  <2>4. QED
    BY <2>3 DEF S
<1>2. ASSUME NEW g, NEW h, NEW m \in Nat, NEW n \in Nat, m <= n, Solves(g, m), Solves(h, n)
      PROVE  g[m] = h[m]
  <2>1. /\ \A k \in 0 .. m : g[k] = EndOf(q, g, k)
        /\ \A k \in 0 .. n : h[k] = EndOf(q, h, k)
    <3> DEFINE F(f, l) == [k \in 0 .. l |-> EndOf(q, f, k)]
    <3>1. \A f, l : \A k \in 0 .. l : F(f, l)[k] = EndOf(q, f, k)
      OBVIOUS
    <3>2. g = F(g, m) /\ h = F(h, n)
      BY <1>2
    <3> HIDE DEF F
    <3>3. QED
      BY <3>1, <3>2
  <2> DEFINE S == { k \in Nat : k <= m => g[k] = h[k] }
  <2>2. 0 \in S
    BY <2>1 DEF EndOf
  <2>3. ASSUME NEW k \in Nat, k \in S PROVE k + 1 \in S
    <3> SUFFICES ASSUME k + 1 <= m PROVE g[k + 1] = h[k + 1]
      OBVIOUS
    <3>1. g[k] = h[k] /\ k + 1 \in 0 .. m /\ k + 1 \in 0 .. n /\ k + 1 # 0 /\ (k + 1) - 1 = k
      BY <1>2, <2>3
    <3>2. g[k + 1] = EndOf(q, g, k + 1) /\ h[k + 1] = EndOf(q, h, k + 1)
      BY <2>1, <3>1
    <3>3. QED
      BY <3>1, <3>2 DEF EndOf
  <2> HIDE DEF S
  <2>4. \A k \in Nat : k \in S
    BY <2>2, <2>3, SetInduction
  <2>5. m \in S
    BY <2>4
  <2>6. QED
    BY <2>5 DEF S
<1>3. \A g, h, m, n : m \in Nat /\ n \in Nat /\ m <= n /\ Solves(g, m) /\ Solves(h, n) => g[m] = h[m]
  BY <1>2
<1>4. QED
  BY <1>1, <1>3

\* EndsOf is the function that its equation defines.
LEMMA EndsEquation ==
    ASSUME NEW q
    PROVE  /\ EndsOf(q)[0] = 0
           /\ \A n \in Nat : EndsOf(q)[n + 1] = EndsOf(q)[n] + MIN_PKT_LEN + Len(q[n + 1].pld)
<1> DEFINE Solves(g, n) == g = [k \in 0 .. n |-> EndOf(q, g, k)]
           G(n) == CHOOSE g : Solves(g, n)
           E == [n \in Nat |-> G(n)[n]]
           Solution(f) == f = [n \in Nat |-> EndOf(q, f, n)]
<1>1. \A n \in Nat : Solves(G(n), n)
  <2>1. \A n \in Nat : \E g : Solves(g, n)
    BY EndsUpTo
  <2> HIDE DEF Solves
  <2>2. QED
    BY <2>1
<1>2. \A g, h, m, n : m \in Nat /\ n \in Nat /\ m <= n /\ Solves(g, m) /\ Solves(h, n) => g[m] = h[m]
  BY EndsUpTo
<1>3. \A n \in Nat : \A k \in 0 .. n : G(n)[k] = EndOf(q, G(n), k)
  <2> DEFINE F(f, l) == [k \in 0 .. l |-> EndOf(q, f, k)]
  <2>1. \A f, l : \A k \in 0 .. l : F(f, l)[k] = EndOf(q, f, k)
    OBVIOUS
  <2>2. \A n \in Nat : G(n) = F(G(n), n)
    BY <1>1
  <2> HIDE DEF F, G
  <2>3. QED
    BY <2>1, <2>2
<1> HIDE DEF G, Solves
<1>4. \A n \in Nat : E[n] = EndOf(q, E, n)
  <2> TAKE n \in Nat
  <2>1. E[n] = EndOf(q, G(n), n)
    BY <1>3
  <2>2. CASE n = 0
    BY <2>1, <2>2 DEF EndOf
  <2>3. CASE n # 0
    <3>1. n - 1 \in Nat /\ n - 1 <= n
      BY <2>3
    <3>2. G(n - 1)[n - 1] = G(n)[n - 1]
      <4>1. Solves(G(n - 1), n - 1) /\ Solves(G(n), n)
        BY <1>1, <3>1
      <4>2. QED
        BY <1>2, <3>1, <4>1
    <3>3. E[n - 1] = G(n)[n - 1]
      BY <3>1, <3>2
    <3> HIDE DEF E
    <3>4. QED
      BY <2>1, <2>3, <3>3 DEF EndOf
  <2>4. QED
    BY <2>2, <2>3
<1>5. Solution(E)
  <2>1. E = [n \in Nat |-> E[n]]
    OBVIOUS
  <2> HIDE DEF E
  <2>2. [n \in Nat |-> E[n]] = [n \in Nat |-> EndOf(q, E, n)]
    BY <1>4
  <2>3. QED
    BY <2>1, <2>2
<1>6. EndsOf(q) = CHOOSE f : Solution(f)
  BY DEF EndsOf, EndOf
<1>7. Solution(EndsOf(q))
  <2> HIDE DEF Solution, E
  <2>1. QED
    BY <1>5, <1>6
<1> DEFINE Q == EndsOf(q)
<1> HIDE DEF Q
<1>8. Q = [n \in Nat |-> EndOf(q, Q, n)]
  BY <1>7 DEF Q
<1>9. \A n \in Nat : Q[n] = EndOf(q, Q, n)
  <2> DEFINE F == [n \in Nat |-> EndOf(q, Q, n)]
  <2>1. \A n \in Nat : F[n] = EndOf(q, Q, n)
    OBVIOUS
  <2> HIDE DEF F
  <2>2. Q = F
    BY <1>8 DEF F
  <2>3. QED
    BY <2>1, <2>2
<1>10. Q[0] = 0
  BY <1>9 DEF EndOf
<1>11. ASSUME NEW n \in Nat PROVE Q[n + 1] = Q[n] + MIN_PKT_LEN + Len(q[n + 1].pld)
  <2>1. n + 1 \in Nat /\ n + 1 # 0 /\ (n + 1) - 1 = n
    OBVIOUS
  <2>2. QED
    BY <1>9, <2>1 DEF EndOf
<1>12. QED
  BY <1>10, <1>11 DEF Q

\* Packets end in the order of sending, each its size behind the one before.
LEMMA EndsGrow ==
    ASSUME NEW q \in Seq(Requests)
    PROVE  /\ \A n \in 0 .. Len(q) : EndsOf(q)[n] \in Nat
           /\ \A n \in 1 .. Len(q) : EndsOf(q)[n] = EndsOf(q)[n - 1] + Size(q[n])
           /\ \A m, n \in 0 .. Len(q) : m <= n => EndsOf(q)[m] <= EndsOf(q)[n]
<1> DEFINE E == EndsOf(q)
           L == Len(q)
<1>1. L \in Nat /\ \A n \in 1 .. L : Size(q[n]) \in Nat
  <2>1. \A n \in 1 .. L : q[n] \in Requests
    BY ElementOfSeq
  <2>2. \A r \in Requests : Len(r.pld) \in Nat
    BY RequestsAssumption
  <2>3. QED
    BY <2>1, <2>2 DEF Size, MIN_PKT_LEN
<1>2. E[0] = 0 /\ \A n \in Nat : E[n + 1] = E[n] + MIN_PKT_LEN + Len(q[n + 1].pld)
  BY EndsEquation
<1> HIDE DEF E, L
<1> DEFINE S == { n \in Nat : n <= L => E[n] \in Nat }
<1>3. \A n \in Nat : n \in S
  <2>1. 0 \in S
    BY <1>2
  <2>2. ASSUME NEW n \in Nat, n \in S PROVE n + 1 \in S
    <3> SUFFICES ASSUME n + 1 <= L PROVE E[n + 1] \in Nat
      OBVIOUS
    <3>1. E[n] \in Nat /\ n + 1 \in 1 .. L
      BY <1>1, <2>2
    <3> DEFINE l == Len(q[n + 1].pld)
    <3>2. MIN_PKT_LEN + l \in Nat /\ E[n + 1] = E[n] + MIN_PKT_LEN + l
      BY <1>1, <1>2, <3>1 DEF Size
    <3>3. l \in Nat
      <4>1. q[n + 1] \in Requests
        BY <3>1, ElementOfSeq DEF L
      <4>2. QED
        BY <4>1, RequestsAssumption
    <3> HIDE DEF l
    <3>4. QED
      BY <3>1, <3>2, <3>3 DEF MIN_PKT_LEN
  <2> HIDE DEF S
  <2>3. QED
    BY <2>1, <2>2, SetInduction
<1>4. \A n \in 0 .. L : E[n] \in Nat
  BY <1>1, <1>3
<1>5. \A n \in 1 .. L : E[n] = E[n - 1] + Size(q[n])
  <2> TAKE n \in 1 .. L
  <2>1. n - 1 \in Nat /\ (n - 1) + 1 = n /\ n - 1 \in 0 .. L /\ n \in Nat
    BY <1>1
  <2> DEFINE l == Len(q[n].pld)
  <2>2. E[n] = E[n - 1] + MIN_PKT_LEN + l
    BY <1>2, <2>1
  <2>3. l \in Nat
    <3>1. q[n] \in Requests
      BY ElementOfSeq DEF L
    <3>2. QED
      BY <3>1, RequestsAssumption
  <2>4. Size(q[n]) = MIN_PKT_LEN + l
    BY DEF Size
  <2>5. E[n - 1] \in Nat
    BY <1>4, <2>1
  <2> DEFINE s == Size(q[n])
  <2>6. s = MIN_PKT_LEN + l
    BY <2>4
  <2> HIDE DEF l, s
  <2>7. E[n] = E[n - 1] + s
    BY <2>2, <2>3, <2>5, <2>6 DEF MIN_PKT_LEN
  <2>8. QED
    BY <2>7 DEF s
<1> DEFINE T == { n \in Nat : n <= L => \A m \in 0 .. n : E[m] <= E[n] }
<1>6. \A n \in Nat : n \in T
  <2>1. 0 \in T
    BY <1>2
  <2>2. ASSUME NEW n \in Nat, n \in T PROVE n + 1 \in T
    <3> SUFFICES ASSUME n + 1 <= L, NEW m \in 0 .. n + 1 PROVE E[m] <= E[n + 1]
      OBVIOUS
    <3>1. n \in 0 .. L /\ n + 1 \in 1 .. L /\ (n + 1) - 1 = n /\ n + 1 \in 0 .. L /\ m \in 0 .. L
      BY <1>1
    <3>2. E[n + 1] = E[n] + Size(q[n + 1]) /\ Size(q[n + 1]) \in Nat /\ E[n] \in Nat
      BY <1>1, <1>4, <1>5, <3>1
    <3>3. E[n] <= E[n + 1]
      BY <3>2
    <3>4. CASE m = n + 1
      BY <1>4, <3>1, <3>4
    <3>5. CASE m \in 0 .. n
      <4>1. E[m] <= E[n]
        BY <2>2, <3>1, <3>5
      <4>2. QED
        BY <1>4, <3>1, <3>3, <4>1
    <3>6. QED
      BY <3>4, <3>5
  <2> HIDE DEF T
  <2>3. QED
    BY <2>1, <2>2, SetInduction
<1>7. \A m, n \in 0 .. L : m <= n => E[m] <= E[n]
  BY <1>1, <1>6
<1>8. QED
  BY <1>4, <1>5, <1>7 DEF E, L

\* A request more does not move those before it.
LEMMA EndsAppend ==
    ASSUME NEW q \in Seq(Requests), NEW r \in Requests
    PROVE  \A n \in 0 .. Len(q) : EndsOf(Append(q, r))[n] = EndsOf(q)[n]
<1> DEFINE E == EndsOf(q)
           q2 == Append(q, r)
           E2 == EndsOf(q2)
           L == Len(q)
           S == { n \in Nat : n <= L => E2[n] = E[n] }
<1>1. \A n \in 1 .. L : q2[n] = q[n]
  BY AppendProperties
<1>2. L \in Nat
  OBVIOUS
<1>3. /\ E[0] = 0 /\ \A n \in Nat : E[n + 1] = E[n] + MIN_PKT_LEN + Len(q[n + 1].pld)
      /\ E2[0] = 0 /\ \A n \in Nat : E2[n + 1] = E2[n] + MIN_PKT_LEN + Len(q2[n + 1].pld)
  BY EndsEquation
<1> HIDE DEF E, E2, q2, L
<1>4. 0 \in S
  BY <1>3
<1>5. ASSUME NEW n \in Nat, n \in S PROVE n + 1 \in S
  <2> SUFFICES ASSUME n + 1 <= L PROVE E2[n + 1] = E[n + 1]
    OBVIOUS
  <2>1. E2[n] = E[n] /\ n + 1 \in 1 .. L
    BY <1>2, <1>5
  <2>2. q2[n + 1] = q[n + 1]
    BY <1>1, <2>1
  <2>3. QED
    BY <1>3, <2>1, <2>2
<1> HIDE DEF S
<1>6. \A n \in Nat : n \in S
  BY <1>4, <1>5, SetInduction
<1>7. QED
  BY <1>2, <1>6 DEF S, E, E2, q2, L

\* A byte lies in one packet only.
LEMMA PlaceIsUnique ==
    ASSUME NEW q \in Seq(Requests), NEW m \in 1 .. Len(q), NEW n \in 1 .. Len(q),
           NEW i \in 1 .. Size(q[m]), NEW j \in 1 .. Size(q[n]),
           EndsOf(q)[m - 1] + i = EndsOf(q)[n - 1] + j
    PROVE  m = n /\ i = j
<1> DEFINE E == EndsOf(q)
<1>1. Len(q) \in Nat
  OBVIOUS
<1>2. \A k \in 0 .. Len(q) : E[k] \in Nat
  BY EndsGrow
<1>3. \A k \in 1 .. Len(q) : E[k] = E[k - 1] + Size(q[k])
  BY EndsGrow
<1>4. \A k, l \in 0 .. Len(q) : k <= l => E[k] <= E[l]
  BY EndsGrow
<1>5. E[m - 1] + i = E[n - 1] + j
  OBVIOUS
<1> DEFINE a == Size(q[m])
           b == Size(q[n])
<1>a. a \in Nat /\ b \in Nat
  <2>1. q[m] \in Requests /\ q[n] \in Requests
    BY ElementOfSeq
  <2>2. \A r \in Requests : Len(r.pld) \in Nat
    BY RequestsAssumption
  <2>3. QED
    BY SMTT(30), <2>1, <2>2 DEF Size, MIN_PKT_LEN
<1>b. i \in 1 .. a /\ j \in 1 .. b /\ E[m] = E[m - 1] + a /\ E[n] = E[n - 1] + b
  BY <1>3
<1> HIDE DEF E, a, b
<1>6. /\ m - 1 \in 0 .. Len(q) /\ m \in 0 .. Len(q) /\ n - 1 \in 0 .. Len(q) /\ n \in 0 .. Len(q)
  BY <1>1
<1>c. E[m - 1] \in Nat /\ E[n - 1] \in Nat /\ E[m] \in Nat /\ E[n] \in Nat
  BY <1>2, <1>6
<1>7. m < n => FALSE
  <2> SUFFICES ASSUME m < n PROVE FALSE
    OBVIOUS
  <2>1. m <= n - 1
    BY <1>1
  <2>2. E[m] <= E[n - 1]
    BY <1>4, <1>6, <2>1
  <2> DEFINE x == E[m - 1]
             y == E[n - 1]
  <2>3. x \in Nat /\ y \in Nat /\ x + a <= y /\ x + i = y + j
    BY <1>5, <1>b, <1>c, <2>2
  <2> HIDE DEF x, y
  <2>4. QED
    BY <1>a, <1>b, <2>3
<1>8. n < m => FALSE
  <2> SUFFICES ASSUME n < m PROVE FALSE
    OBVIOUS
  <2>1. n <= m - 1
    BY <1>1
  <2>2. E[n] <= E[m - 1]
    BY <1>4, <1>6, <2>1
  <2> DEFINE x == E[m - 1]
             y == E[n - 1]
  <2>3. x \in Nat /\ y \in Nat /\ y + b <= x /\ x + i = y + j
    BY <1>5, <1>b, <1>c, <2>2
  <2> HIDE DEF x, y
  <2>4. QED
    BY <1>a, <1>b, <2>3
<1>9. m = n
  BY <1>1, <1>7, <1>8
<1>10. QED
  BY SMTT(30), <1>5, <1>9, <1>a, <1>b, <1>c

-----------------------------------------------------------------------------
(***************************************************************************)
(* As long as nothing is cut                                               *)
(***************************************************************************)

\* Whatever is handled: the bytes on their way are those of the requests, in order.
Carried == Distinct(sent) /\ Genuine(stream, marks, sent) /\ InOrder(marks)

LEMMA CarriedStep ==
    ASSUME CrcBytes, TypeInv, Carried, [Next]_vars
    PROVE  Carried'
<1>1. TypeOK /\ MarksFit /\ StartsInFront /\ Len(marks) = Len(stream)
  BY DEF TypeInv, MarksFit
<1>2. Distinct(sent) /\ Genuine(stream, marks, sent) /\ InOrder(marks)
  BY DEF Carried
<1>3. \A q, m, p : AllPassed(<<>>, q, m, p)
  BY DEF AllPassed
<1>4. ASSUME NEW r \in Requests, Send(r) PROVE Carried'
  <2>1. PICK n : Sends(r, n, sent, stream, marks, sent', stream', marks')
    BY <1>1, <1>4, SendSends
  <2>2. Distinct(sent') /\ Genuine(stream', marks', sent') /\ InOrder(marks')
    BY <1>2, <1>3, <2>1, SentQueue
  <2>3. QED
    BY <2>2 DEF Carried
<1>5. CASE RxChunk \/ RxOverflow \/ RxJunk \/ Task \/ Reset \/ UNCHANGED vars
  <2>1. PICK f : Keeps(f, stream, marks, pos, stream', marks', pos')
    BY <1>1, <1>5, StreamStep
  <2>2. Genuine(stream', marks', sent) /\ InOrder(marks')
    <3>1. AllPassed(<<>>, sent, marks, pos)
      BY <1>3
    <3>2. QED
      BY <1>1, <1>2, <2>1, <3>1, KeptQueue
  <2>3. sent' = sent
    BY <1>5 DEF RxChunk, RxOverflow, RxJunk, Reset, vars, Task, ReceiveEvent, CheckBuffered,
       ReadSome, ReadDone, SkipByte, TakePacket, EepromWait, EndParse
  <2>4. QED
    BY <1>2, <2>2, <2>3 DEF Carried
<1>6. QED
  BY <1>4, <1>5 DEF Next

\* Every byte has its place in all that was sent, o bytes being worked off before
\* the first one, and the last is the end.
Placed(q, m, o) ==
    /\ \A i \in 1 .. Len(m) : o + i = EndsOf(q)[m[i].of - 1] + m[i].at
    /\ o + Len(m) = EndsOf(q)[Len(q)]

\* The first n requests, and no others, have been worked off and served.
ServedUpTo(n, q, v, x) == x = EndsOf(q)[n] /\ v = SubSeq(q, 1, n)

UncutInv ==
    ~cut =>
        /\ Placed(sent, marks, taken - Len(buf))
        /\ \E n \in 0 .. Len(sent) : ServedUpTo(n, sent, served, taken - Left)
        /\ pc \in {"parse", "eeprom"} => \E n \in 0 .. Len(sent) : taken = EndsOf(sent)[n]

\* Between the pointer, at the end of the n-th packet, and the end of a later one lies
\* at least the next packet.
LEMMA NextFits ==
    ASSUME NEW q \in Seq(Requests), NEW n \in 0 .. Len(q), NEW k \in 0 .. Len(q),
           EndsOf(q)[n] < EndsOf(q)[k]
    PROVE  /\ n + 1 \in 1 .. Len(q) /\ EndsOf(q)[n + 1] <= EndsOf(q)[k]
           /\ EndsOf(q)[n + 1] = EndsOf(q)[n] + Size(q[n + 1])
           /\ q[n + 1] \in Requests
           /\ Size(q[n + 1]) \in Nat /\ Size(q[n + 1]) >= MIN_PKT_LEN
<1> DEFINE E == EndsOf(q)
<1>1. Len(q) \in Nat
  OBVIOUS
<1>2. /\ \A i \in 0 .. Len(q) : E[i] \in Nat
      /\ \A i \in 1 .. Len(q) : E[i] = E[i - 1] + Size(q[i])
      /\ \A i, j \in 0 .. Len(q) : i <= j => E[i] <= E[j]
  BY EndsGrow
<1> HIDE DEF E
<1>3. E[n] < E[k] /\ E[n] \in Nat /\ E[k] \in Nat
  BY <1>2 DEF E
<1>4. n < k
  <2>1. k <= n => E[k] <= E[n]
    BY <1>2
  <2>2. QED
    BY <1>1, <1>3, <2>1
<1>5. n + 1 \in 1 .. Len(q) /\ n + 1 \in 0 .. Len(q) /\ n + 1 <= k /\ (n + 1) - 1 = n
  BY <1>1, <1>4
<1>6. E[n + 1] <= E[k] /\ E[n + 1] = E[n] + Size(q[n + 1])
  BY <1>2, <1>5
<1>7. q[n + 1] \in Requests
  BY <1>5, ElementOfSeq
<1>8. Size(q[n + 1]) \in Nat /\ Size(q[n + 1]) >= MIN_PKT_LEN
  <2>1. Len(q[n + 1].pld) \in Nat
    BY <1>7, RequestsAssumption
  <2>2. QED
    BY <2>1 DEF Size, MIN_PKT_LEN
<1>9. QED
  BY <1>5, <1>6, <1>7, <1>8 DEF E

\* The bytes of d after the first k are the packet of this command and payload.
PacketAt(cmd, pld, d, k) ==
    /\ cmd \in Byte /\ pld \in Seq(Byte) /\ Len(pld) <= MAX_PLD_LEN
    /\ d \in Seq(Byte) /\ k \in Nat /\ k + MIN_PKT_LEN + Len(pld) <= Len(d)
    /\ \A j \in 1 .. MIN_PKT_LEN + Len(pld) : d[k + j] = send_bytes(cmd, pld)[j]

LEMMA DecodePacketAt ==
    ASSUME CrcBytes, NEW cmd, NEW pld, NEW d, NEW k, PacketAt(cmd, pld, d, k)
    PROVE  /\ d[k + 1] = PKT_HDR
           /\ decoded_len(d, k) = MIN_PKT_LEN + Len(pld)
           /\ decode_packet(d, k).cmd = cmd /\ decode_packet(d, k).pld = pld
           /\ Accepts(decode_packet(d, k))
<1>1. /\ cmd \in Byte /\ pld \in Seq(Byte) /\ Len(pld) <= MAX_PLD_LEN
      /\ d \in Seq(Byte) /\ k \in Nat /\ k + MIN_PKT_LEN + Len(pld) <= Len(d)
      /\ \A j \in 1 .. MIN_PKT_LEN + Len(pld) : d[k + j] = send_bytes(cmd, pld)[j]
  BY DEF PacketAt
<1>2. QED
  BY <1>1, DecodeSent

\* What the pointer is at is the next packet, whole.
LEMMA WholeAhead ==
    ASSUME CrcBytes, TypeInv, Carried, UncutInv, ~cut, pc = "parse", Left >= MIN_PKT_LEN,
           NEW n \in 0 .. Len(sent), ServedUpTo(n, sent, served, taken - Left)
    PROVE  /\ n + 1 \in 1 .. Len(sent) /\ AtPacket
           /\ decoded_len(buf, pos) = Size(sent[n + 1])
           /\ Handles(decode_packet(buf, pos), ReadCmds \cup {WRITE_CONFIG})
           /\ LET p == decode_packet(buf, pos) IN [cmd |-> p.cmd, pld |-> p.pld] = sent[n + 1]
           /\ \A j \in 1 .. decoded_len(buf, pos) : marks[pos + j] = [of |-> n + 1, at |-> j]
<1> DEFINE E == EndsOf(sent)
           r == sent[n + 1]
           size == Size(r)
           o == taken - Len(buf)
<1>1. /\ buf \in Seq(Byte) /\ ring \in Seq(Byte) /\ line \in Seq(Byte) /\ sent \in Seq(Requests)
      /\ marks \in Seq(Mark) /\ Len(marks) = Len(stream)
      /\ pos \in Nat /\ Len(buf) \in Nat /\ Len(sent) \in Nat /\ taken \in Nat
      /\ Len(buf) - pos >= MIN_PKT_LEN
  BY DEF TypeInv, TypeOK, Left, MarksFit, Mark
<1>2. PICK k \in 0 .. Len(sent) : taken = E[k]
  BY DEF UncutInv
<1>3. taken - (Len(buf) - pos) = E[n]
  BY DEF ServedUpTo, Left
<1>4. /\ n + 1 \in 1 .. Len(sent) /\ E[n + 1] <= taken /\ E[n + 1] = E[n] + size
      /\ r \in Requests /\ size \in Nat /\ size >= MIN_PKT_LEN
  <2>1. E[n] < E[k]
    <3> HIDE DEF E
    <3>1. QED
      BY <1>1, <1>2, <1>3 DEF MIN_PKT_LEN
  <2>2. QED
    BY <1>1, <1>2, <2>1, NextFits
<1>5. /\ \A i \in 1 .. Len(marks) : o + i = E[marks[i].of - 1] + marks[i].at
      /\ \A i \in 1 .. Len(marks) :
             /\ marks[i].of \in 1 .. Len(sent)
             /\ marks[i].at \in 1 .. Len(PacketOf(sent[marks[i].of]))
             /\ stream[i] = PacketOf(sent[marks[i].of])[marks[i].at]
  BY DEF UncutInv, Placed, Carried, Genuine
<1>6. pos + size <= Len(buf) /\ E[n] = o + pos
  <2>1. E[n] \in Nat
    BY <1>1, EndsGrow
  <2> HIDE DEF E, size
  <2>2. QED
    BY <1>1, <1>3, <1>4, <2>1
<1>7. Len(buf) <= Len(marks) /\ Len(marks) \in Nat /\ \A i \in 1 .. Len(buf) : stream[i] = buf[i]
  <2> DEFINE rest == ring \o line
  <2>1. rest \in Seq(Byte)
    BY <1>1, ConcatProperties
  <2>2. stream = buf \o rest
    <3>1. buf \in Seq(Byte) /\ ring \in Seq(Byte) /\ line \in Seq(Byte)
      BY <1>1
    <3>2. Cat(Cat(buf, ring), line) = Cat(buf, Cat(ring, line))
      BY <3>1, Regroup
    <3>3. QED
      BY <3>2 DEF stream, Cat
  <2> HIDE DEF rest
  <2>3. /\ Len(stream) = Len(buf) + Len(rest) /\ Len(rest) \in Nat
        /\ \A i \in 1 .. Len(buf) + Len(rest) :
               stream[i] = IF i <= Len(buf) THEN buf[i] ELSE rest[i - Len(buf)]
    <3>1. buf \in Seq(Byte)
      BY <1>1
    <3>2. QED
      BY <2>1, <2>2, <3>1, ConcatProperties
  <2>4. \A i \in 1 .. Len(buf) : i \in 1 .. Len(buf) + Len(rest) /\ i <= Len(buf)
    BY <1>1, <2>3
  <2>5. QED
    BY <1>1, <2>3, <2>4
<1>8. ASSUME NEW j \in 1 .. size
      PROVE  marks[pos + j].of = n + 1 /\ marks[pos + j].at = j /\ buf[pos + j] = PacketOf(r)[j]
  <2> DEFINE i == pos + j
             a == marks[i].of
             b == marks[i].at
  <2>1. i \in 1 .. Len(buf) /\ i \in 1 .. Len(marks)
    <3>1. size \in Nat /\ pos + size <= Len(buf)
      BY <1>4, <1>6
    <3>2. pos \in Nat /\ Len(buf) \in Nat /\ Len(buf) <= Len(marks) /\ Len(marks) \in Nat
      BY <1>1, <1>7
    <3> HIDE DEF size
    <3>3. QED
      BY <3>1, <3>2
  <2>2. a \in 1 .. Len(sent) /\ b \in 1 .. Len(PacketOf(sent[a])) /\ o + i = E[a - 1] + b
    BY <1>5, <2>1
  <2>3. b \in 1 .. Size(sent[a])
    <3>1. sent[a] \in Requests
      BY <1>1, <2>2, ElementOfSeq
    <3>2. Len(PacketOf(sent[a])) = Size(sent[a])
      BY <3>1, SendBytesType DEF PacketOf, Size
    <3>3. QED
      BY <2>2, <3>2
  <2>4. E[a - 1] + b = E[n] + j
    <3>1. o \in Int
      BY <1>1
    <3> HIDE DEF E, o, a, b
    <3>2. o + (pos + j) = (o + pos) + j
      BY <1>1, <3>1
    <3>3. QED
      BY <1>6, <2>2, <3>2
  <2>5. a = n + 1 /\ b = j
    <3>1. (n + 1) - 1 = n
      BY <1>1
    <3>2. E[a - 1] + b = E[(n + 1) - 1] + j
      BY <2>4, <3>1
    <3> HIDE DEF a, b
    <3>3. QED
      BY <1>1, <1>4, <2>2, <2>3, <3>2, PlaceIsUnique
  <2>6. buf[i] = PacketOf(r)[j]
    BY <1>5, <1>7, <2>1, <2>5
  <2>7. QED
    BY <2>5, <2>6
<1>9. /\ r = [cmd |-> r.cmd, pld |-> r.pld]
      /\ r.cmd \in Byte /\ r.pld \in Seq(Byte) /\ Len(r.pld) <= MAX_PLD_LEN
  BY <1>4, SendBytesType
<1> DEFINE c == r.cmd
           l == r.pld
<1>10. /\ buf[pos + 1] = PKT_HDR
       /\ decoded_len(buf, pos) = MIN_PKT_LEN + Len(l)
       /\ decode_packet(buf, pos).cmd = c /\ decode_packet(buf, pos).pld = l
       /\ Accepts(decode_packet(buf, pos))
  <2>1. size = MIN_PKT_LEN + Len(l)
    BY DEF Size
  <2>2. \A j \in 1 .. MIN_PKT_LEN + Len(l) : buf[pos + j] = send_bytes(c, l)[j]
    BY <1>8, <2>1 DEF PacketOf
  <2>3. c \in Byte /\ l \in Seq(Byte) /\ Len(l) <= MAX_PLD_LEN /\ Len(l) \in Nat
    BY <1>9
  <2>4. pos + MIN_PKT_LEN + Len(l) <= Len(buf)
    <3>1. PICK s \in Nat : s = Len(l)
      BY <2>3
    <3>2. size = MIN_PKT_LEN + s
      BY <2>1, <3>1
    <3> HIDE DEF size, c, l
    <3>3. pos + MIN_PKT_LEN + s <= Len(buf)
      BY <1>1, <1>6, <3>2 DEF MIN_PKT_LEN
    <3>4. QED
      BY <3>1, <3>3
  <2>5. buf \in Seq(Byte) /\ pos \in Nat
    BY <1>1
  <2> HIDE DEF c, l
  <2>6. PacketAt(c, l, buf, pos)
    BY <2>2, <2>3, <2>4, <2>5 DEF PacketAt
  <2>7. QED
    BY <2>6, DecodePacketAt
<1>11. decoded_len(buf, pos) = size
  BY <1>10 DEF Size
<1>12. AtPacket
  BY <1>4, <1>10, <1>11 DEF AtPacket, MIN_PKT_LEN
<1>13. c \in ReadCmds \cup {WRITE_CONFIG}
  <2>1. c \in 0 .. READ_POWER
    BY <1>4, RequestsAssumption
  <2> HIDE DEF c
  <2>2. QED
    BY <2>1 DEF ReadCmds, READ_SENSOR, READ_CONFIG, WRITE_CONFIG, READ_VBUS, READ_POWER
<1>14. Handles(decode_packet(buf, pos), ReadCmds \cup {WRITE_CONFIG})
  BY <1>10, <1>13 DEF Handles
<1>15. \A j \in 1 .. size : marks[pos + j] = [of |-> n + 1, at |-> j]
  <2> TAKE j \in 1 .. size
  <2>1. pos + j \in 1 .. Len(marks)
    <3>1. size \in Nat /\ pos + size <= Len(buf)
      BY <1>4, <1>6
    <3>2. pos \in Nat /\ Len(buf) \in Nat /\ Len(buf) <= Len(marks) /\ Len(marks) \in Nat
      BY <1>1, <1>7
    <3> HIDE DEF size
    <3>3. QED
      BY <3>1, <3>2
  <2>2. marks[pos + j] \in Mark
    BY <1>1, <2>1, ElementOfSeq
  <2>3. marks[pos + j].of = n + 1 /\ marks[pos + j].at = j
    BY <1>8
  <2>4. QED
    BY <2>2, <2>3 DEF Mark
<1>16. QED
  BY <1>4, <1>9, <1>10, <1>11, <1>12, <1>14, <1>15

\* One request more is served.
LEMMA PrefixAppend ==
    ASSUME NEW q \in Seq(Requests), NEW n \in 0 .. Len(q), n + 1 \in 1 .. Len(q)
    PROVE  Append(SubSeq(q, 1, n), q[n + 1]) = SubSeq(q, 1, n + 1)
<1> DEFINE a == SubSeq(q, 1, n)
           b == SubSeq(q, 1, n + 1)
           r == q[n + 1]
           c == Append(a, r)
<1>1. n \in Nat /\ n + 1 \in 0 .. Len(q) /\ Len(q) \in Nat
  OBVIOUS
<1>2. a \in Seq(Requests) /\ Len(a) = n /\ \A i \in 1 .. n : a[i] = q[i]
  BY SplitSeq
<1>3. b \in Seq(Requests) /\ Len(b) = n + 1 /\ \A i \in 1 .. n + 1 : b[i] = q[i]
  BY <1>1, SplitSeq
<1>4. r \in Requests
  BY ElementOfSeq
<1> HIDE DEF a, b, r
<1>5. c \in Seq(Requests) /\ Len(c) = n + 1 /\ (\A i \in 1 .. n : c[i] = a[i]) /\ c[n + 1] = r
  BY <1>2, <1>4, AppendProperties
<1> HIDE DEF c
<1>6. \A i \in 1 .. n + 1 : c[i] = b[i]
  <2> TAKE i \in 1 .. n + 1
  <2>1. i \in 1 .. n \/ i = n + 1
    BY <1>1
  <2>2. QED
    BY <1>2, <1>3, <1>5, <2>1 DEF r
<1>7. c = b
  BY <1>3, <1>5, <1>6, SeqEqual
<1>8. QED
  BY <1>7 DEF a, b, c, r

\* A request that is sent whole takes its place behind all others.
LEMMA SentPlaced ==
    ASSUME CrcBytes, NEW r, NEW n, NEW q, NEW s, NEW m, NEW q2, NEW s2, NEW m2, NEW o \in Int,
           Sends(r, n, q, s, m, q2, s2, m2), n = Len(PacketOf(r)),
           Genuine(s, m, q), Placed(q, m, o)
    PROVE  /\ Placed(q2, m2, o)
           /\ Len(q2) = Len(q) + 1
           /\ \A k \in 0 .. Len(q) : EndsOf(q2)[k] = EndsOf(q)[k] /\ SubSeq(q2, 1, k) = SubSeq(q, 1, k)
<1> DEFINE N == Len(q)
           E == EndsOf(q)
           F == EndsOf(q2)
           new == MarksOf(N + 1, n)
<1>1. /\ q \in Seq(Requests) /\ r \in Requests /\ m \in Seq(Mark) /\ N \in Nat /\ Len(m) \in Nat
      /\ q2 = Append(q, r) /\ m2 = m \o new
  BY DEF Sends
<1>2. n = Size(r) /\ n \in Nat
  <2>1. Len(send_bytes(r.cmd, r.pld)) = MIN_PKT_LEN + Len(r.pld) /\ Len(r.pld) \in Nat
    BY <1>1, SendBytesType, RequestsAssumption
  <2>2. QED
    BY <2>1 DEF PacketOf, Size, MIN_PKT_LEN
<1>3. /\ q2 \in Seq(Requests) /\ Len(q2) = N + 1 /\ (\A i \in 1 .. N : q2[i] = q[i])
      /\ q2[N + 1] = r
  BY <1>1, AppendProperties
<1>4. \A k \in 0 .. N : F[k] = E[k]
  BY <1>1, EndsAppend
<1>5. F[N + 1] = E[N] + n
  <2>1. N + 1 \in 1 .. Len(q2) /\ (N + 1) - 1 = N /\ N \in 0 .. N
    BY <1>1, <1>3
  <2>2. F[N + 1] = F[(N + 1) - 1] + Size(q2[N + 1])
    BY <1>3, <2>1, EndsGrow
  <2>3. QED
    BY <1>2, <1>3, <1>4, <2>1, <2>2
<1>6. E[N] \in Nat
  BY <1>1, EndsGrow
<1>7. /\ \A i \in 1 .. Len(m) : o + i = E[m[i].of - 1] + m[i].at
      /\ \A i \in 1 .. Len(m) : m[i].of \in 1 .. N
      /\ o + Len(m) = E[N]
  BY DEF Placed, Genuine
<1>8. /\ new \in Seq(Mark) /\ Len(new) = n
      /\ \A j \in 1 .. n : new[j].of = N + 1 /\ new[j].at = j
  <2>1. N + 1 \in Nat
    BY <1>1
  <2> HIDE DEF N
  <2>2. QED
    BY <1>2, <2>1, MarksOfType
<1> HIDE DEF new, E, F, N
<1>9. /\ Len(m2) = Len(m) + n
      /\ \A i \in 1 .. Len(m) + n : m2[i] = IF i <= Len(m) THEN m[i] ELSE new[i - Len(m)]
  <2>1. m \in Seq(Mark) /\ m2 = m \o new
    BY <1>1
  <2>2. new \in Seq(Mark) /\ Len(new) = n
    BY <1>8
  <2>3. /\ Len(m \o new) = Len(m) + Len(new)
        /\ \A i \in 1 .. Len(m) + Len(new) :
               (m \o new)[i] = IF i <= Len(m) THEN m[i] ELSE new[i - Len(m)]
    BY <2>1, <2>2, ConcatProperties
  <2>4. QED
    BY <2>1, <2>2, <2>3
<1>10. ASSUME NEW i \in 1 .. Len(m2) PROVE o + i = F[m2[i].of - 1] + m2[i].at
  <2>1. CASE i <= Len(m)
    <3>1. i \in 1 .. Len(m) /\ m2[i] = m[i]
      BY <1>1, <1>2, <1>9, <2>1
    <3>2. m[i].of - 1 \in 0 .. N
      <4>1. m[i].of \in 1 .. N /\ N \in Nat
        BY <1>1, <1>7, <3>1
      <4>2. QED
        BY <4>1
    <3>3. QED
      BY <1>4, <1>7, <3>1, <3>2
  <2>2. CASE ~(i <= Len(m))
    <3> DEFINE j == i - Len(m)
    <3>1. j \in 1 .. n /\ i = Len(m) + j
      BY <1>1, <1>2, <1>9, <2>2
    <3>2. m2[i] = new[j]
      BY <1>1, <1>2, <1>9, <2>2
    <3> HIDE DEF j
    <3>3. m2[i].of = N + 1 /\ m2[i].at = j
      BY <1>8, <3>1, <3>2
    <3>4. F[(N + 1) - 1] = E[N]
      <4>1. (N + 1) - 1 = N /\ N \in 0 .. N
        BY <1>1
      <4>2. QED
        BY <1>4, <4>1
    <3>5. o + i = E[N] + j
      BY <1>1, <1>6, <1>7, <3>1
    <3>6. QED
      BY <3>3, <3>4, <3>5
  <2>3. QED
    BY <2>1, <2>2
<1>11. o + Len(m2) = F[Len(q2)]
  BY <1>1, <1>2, <1>3, <1>5, <1>6, <1>7, <1>9
<1>12. ASSUME NEW k \in 0 .. N PROVE SubSeq(q2, 1, k) = SubSeq(q, 1, k)
  <2>1. k \in 0 .. Len(q) /\ k \in 0 .. Len(q2) /\ k \in Nat /\ k <= N
    BY <1>1, <1>3 DEF N
  <2>2. /\ SubSeq(q, 1, k) \in Seq(Requests) /\ Len(SubSeq(q, 1, k)) = k
        /\ \A i \in 1 .. k : SubSeq(q, 1, k)[i] = q[i]
    BY <1>1, <2>1, SplitSeq
  <2>3. /\ SubSeq(q2, 1, k) \in Seq(Requests) /\ Len(SubSeq(q2, 1, k)) = k
        /\ \A i \in 1 .. k : SubSeq(q2, 1, k)[i] = q2[i]
    BY <1>3, <2>1, SplitSeq
  <2>4. \A i \in 1 .. k : SubSeq(q2, 1, k)[i] = SubSeq(q, 1, k)[i]
    <3>1. \A i \in 1 .. k : i \in 1 .. N
      BY <1>1, <2>1
    <3>2. QED
      BY <1>3, <2>2, <2>3, <3>1
  <2>5. QED
    BY <2>2, <2>3, <2>4, SeqEqual
<1>13. Placed(q2, m2, o)
  BY <1>10, <1>11 DEF Placed, F
<1>14. QED
  BY <1>3, <1>4, <1>12, <1>13 DEF N, E, F

\* A buffer that was worked off goes.
LEMMA BehindPlaced ==
    ASSUME NEW q, NEW m \in Seq(Mark), NEW k \in 0 .. Len(m), NEW o \in Int, Placed(q, m, o)
    PROVE  Placed(q, Behind(m, k), o + k)
<1> DEFINE E == EndsOf(q)
           m2 == Behind(m, k)
<1>1. Len(m) \in Nat /\ k \in Nat /\ k <= Len(m)
  OBVIOUS
<1>2. Len(m2) = Len(m) - k /\ \A i \in 1 .. Len(m) - k : m2[i] = m[k + i]
  BY SplitSeq DEF Behind
<1>3. /\ \A i \in 1 .. Len(m) : o + i = E[m[i].of - 1] + m[i].at
      /\ o + Len(m) = E[Len(q)]
  BY DEF Placed
<1> HIDE DEF m2, E
<1>4. ASSUME NEW i \in 1 .. Len(m2) PROVE (o + k) + i = E[m2[i].of - 1] + m2[i].at
  <2>1. i \in 1 .. Len(m) - k /\ k + i \in 1 .. Len(m) /\ (o + k) + i = o + (k + i)
    BY <1>1, <1>2
  <2>2. QED
    BY <1>2, <1>3, <2>1
<1>5. (o + k) + Len(m2) = E[Len(q)]
  BY <1>1, <1>2, <1>3
<1>6. QED
  BY <1>4, <1>5 DEF Placed, m2, E

LEMMA UncutStep ==
    ASSUME CrcBytes, TypeInv, Carried, UncutInv, [Next]_vars
    PROVE  UncutInv'
<1> SUFFICES ASSUME ~cut'
             PROVE  /\ Placed(sent', marks', taken' - Len(buf'))
                    /\ \E n \in 0 .. Len(sent') : ServedUpTo(n, sent', served', taken' - Left')
                    /\ pc' \in {"parse", "eeprom"} => \E n \in 0 .. Len(sent') : taken' = EndsOf(sent')[n]
  BY DEF UncutInv
<1>1. /\ buf \in Seq(Byte) /\ ring \in Seq(Byte) /\ line \in Seq(Byte) /\ sent \in Seq(Requests)
      /\ marks \in Seq(Mark) /\ Len(marks) = Len(stream) /\ Len(marks) \in Nat
      /\ pos \in Nat /\ pos <= Len(buf) /\ Len(buf) \in Nat /\ Len(sent) \in Nat /\ taken \in Nat
      /\ TypeOK /\ MarksFit /\ cut \in BOOLEAN
  BY DEF TypeInv, TypeOK, MarksFit, Mark
<1>2. \A k \in 0 .. Len(sent) : EndsOf(sent)[k] \in Nat
  BY <1>1, EndsGrow
<1>3. ~cut
  <2>1. ASSUME NEW r \in Requests, Send(r) PROVE ~cut
    <3>1. \E n : cut' = (cut \/ n < Len(send_bytes(r.cmd, r.pld)))
      BY <2>1 DEF Send
    <3>2. QED
      BY <1>1, <3>1
  <2>2. CASE ReadDone
    BY <2>2 DEF ReadDone
  <2>3. CASE RxOverflow \/ Reset
    BY <2>3 DEF RxOverflow, Reset
  <2>4. CASE \/ RxChunk \/ RxJunk \/ UNCHANGED vars
             \/ ReceiveEvent \/ CheckBuffered \/ ReadSome
             \/ SkipByte \/ TakePacket \/ EepromWait \/ EndParse
    BY <2>4 DEF RxChunk, RxJunk, vars, ReceiveEvent, CheckBuffered, ReadSome, SkipByte, TakePacket,
       EepromWait, EndParse
  <2>5. QED
    BY <2>1, <2>2, <2>3, <2>4 DEF Next, Task
<1>4. Placed(sent, marks, taken - Len(buf))
  BY <1>3 DEF UncutInv
<1>5. PICK n \in 0 .. Len(sent) : ServedUpTo(n, sent, served, taken - Left)
  BY <1>3 DEF UncutInv
<1>6. pc \in {"parse", "eeprom"} => \E k \in 0 .. Len(sent) : taken = EndsOf(sent)[k]
  BY <1>3 DEF UncutInv
<1>7. Genuine(stream, marks, sent)
  BY DEF Carried
<1> DEFINE Goal ==
        /\ Placed(sent', marks', taken' - Len(buf'))
        /\ \E k \in 0 .. Len(sent') : ServedUpTo(k, sent', served', taken' - Left')
        /\ pc' \in {"parse", "eeprom"} => \E k \in 0 .. Len(sent') : taken' = EndsOf(sent')[k]
<1>8. ASSUME NEW r \in Requests, Send(r) PROVE Goal
  <2>1. PICK size \in 0 .. Len(PacketOf(r)) :
            /\ Sends(r, size, sent, stream, marks, sent', stream', marks')
            /\ cut' = (cut \/ size < Len(PacketOf(r)))
    BY <1>1, <1>8, SendSends
  <2>2. size = Len(PacketOf(r))
    <3>1. Len(PacketOf(r)) \in Nat
      BY SendBytesType DEF PacketOf
    <3>2. ~cut'
      BY <1>3
    <3>3. ~(size < Len(PacketOf(r)))
      BY <2>1, <3>2, Zenon
    <3> HIDE DEF Goal
    <3>4. QED
      BY <2>1, <3>1, <3>3
  <2> DEFINE o == taken - Len(buf)
  <2>3. o \in Int
    BY <1>1
  <2>4. /\ Placed(sent', marks', o) /\ Len(sent') = Len(sent) + 1
        /\ \A k \in 0 .. Len(sent) :
               EndsOf(sent')[k] = EndsOf(sent)[k] /\ SubSeq(sent', 1, k) = SubSeq(sent, 1, k)
    <3> HIDE DEF o
    <3>1. Placed(sent, marks, o)
      BY <1>4 DEF o
    <3>2. QED
      BY <1>7, <2>1, <2>2, <2>3, <3>1, SentPlaced
  <2>5. buf' = buf /\ pos' = pos /\ taken' = taken /\ served' = served /\ pc' = pc
    BY <1>8 DEF Send, task
  <2>6. \A k \in 0 .. Len(sent) : k \in 0 .. Len(sent')
    BY <1>1, <2>4
  <2>7. Left' = Left
    BY <2>5 DEF Left
  <2>8. ServedUpTo(n, sent', served', taken' - Left')
    BY <1>5, <2>4, <2>5, <2>7 DEF ServedUpTo
  <2>9. pc' \in {"parse", "eeprom"} => \E k \in 0 .. Len(sent') : taken' = EndsOf(sent')[k]
    BY <1>6, <2>4, <2>5, <2>6
  <2>10. QED
    BY <2>4, <2>5, <2>6, <2>8, <2>9
<1>9. CASE \/ RxChunk \/ RxJunk \/ UNCHANGED vars \/ ReceiveEvent \/ CheckBuffered \/ EepromWait
  <2>1. /\ UNCHANGED <<sent, marks, buf, pos, taken, served>>
        /\ pc' \in {"parse", "eeprom"} => pc \in {"parse", "eeprom"}
    BY <1>9 DEF RxChunk, RxJunk, vars, task, ReceiveEvent, CheckBuffered, EepromWait
  <2>2. Left' = Left
    BY <2>1 DEF Left
  <2>3. QED
    BY <1>4, <1>5, <1>6, <2>1, <2>2
<1>10. CASE ReadSome
  <2> DEFINE d == least(Len(ring), BufLen - Len(buf))
             x == SubSeq(ring, 1, d)
  <2>1. d \in 0 .. Len(ring) /\ d \in Nat
    <3>1. BufLen \in Nat
      BY SizesAssumption
    <3>2. QED
      BY <1>1, <1>10, <3>1 DEF ReadSome, least
  <2>2. /\ buf' = buf \o x /\ taken' = taken + d
        /\ UNCHANGED <<sent, marks, pos, served, pc>> /\ pc = "read"
    BY <1>10 DEF ReadSome
  <2> HIDE DEF d
  <2>3. x \in Seq(Byte) /\ Len(x) = d
    BY <1>1, <2>1, SplitSeq
  <2> HIDE DEF x
  <2>4. Len(buf') = Len(buf) + d
    BY <1>1, <2>2, <2>3, ConcatProperties
  <2>5. taken' - Len(buf') = taken - Len(buf) /\ taken' - Left' = taken - Left
    BY <1>1, <2>1, <2>2, <2>4 DEF Left
  <2>6. QED
    BY <1>4, <1>5, <2>2, <2>5
<1>11. CASE ReadDone
  <2>1. /\ UNCHANGED <<sent, marks, buf, taken, served>>
        /\ pos' = 0 /\ pc = "read"
        /\ cut' = (cut \/ \A k \in 0 .. Len(sent) : taken # Boundary[k])
    BY <1>11 DEF ReadDone
  <2>2. pos = 0
    BY <2>1 DEF TypeInv, StartsInFront
  <2>3. Left' = Left
    BY <2>1, <2>2 DEF Left
  <2>4. \E k \in 0 .. Len(sent) : taken = EndsOf(sent)[k]
    BY <2>1, BoundaryIsEnds
  <2>5. QED
    BY <1>4, <1>5, <2>1, <2>3, <2>4
<1>12. CASE SkipByte
  <2>1. pc = "parse" /\ Left >= MIN_PKT_LEN /\ ~AtPacket
    BY <1>12 DEF SkipByte
  <2>2. AtPacket
    BY <1>3, <1>5, <2>1, WholeAhead
  <2>3. QED
    BY <2>1, <2>2
<1>13. CASE TakePacket
  <2> DEFINE p == decode_packet(buf, pos)
             size == Size(sent[n + 1])
  <2>1. pc = "parse" /\ Left >= MIN_PKT_LEN
    BY <1>13 DEF TakePacket
  <2>2. /\ n + 1 \in 1 .. Len(sent) /\ decoded_len(buf, pos) = size
        /\ Handles(p, ReadCmds \cup {WRITE_CONFIG})
        /\ [cmd |-> p.cmd, pld |-> p.pld] = sent[n + 1]
    BY <1>3, <1>5, <2>1, WholeAhead
  <2>3. /\ served' = Append(served, sent[n + 1]) /\ pos' = pos + size
        /\ UNCHANGED <<sent, marks, buf, taken>>
    BY <1>13, <2>2 DEF TakePacket, Handles
  <2>4. served' = SubSeq(sent, 1, n + 1)
    <3>1. served = SubSeq(sent, 1, n)
      BY <1>5 DEF ServedUpTo
    <3>2. QED
      BY <1>1, <2>2, <2>3, <3>1, PrefixAppend
  <2>5. taken' - Left' = EndsOf(sent)[n + 1]
    <3>1. size \in Nat /\ EndsOf(sent)[n + 1] = EndsOf(sent)[n] + size
      <4>1. EndsOf(sent)[n + 1] = EndsOf(sent)[(n + 1) - 1] + size
        BY <1>1, <2>2, EndsGrow
      <4>2. (n + 1) - 1 = n
        OBVIOUS
      <4>3. sent[n + 1] \in Requests
        BY <1>1, <2>2, ElementOfSeq
      <4>4. Len(sent[n + 1].pld) \in Nat
        BY <4>3, RequestsAssumption
      <4>5. size \in Nat
        BY <4>4 DEF Size, MIN_PKT_LEN
      <4>6. QED
        BY <4>1, <4>2, <4>5
    <3>2. taken - Left = EndsOf(sent)[n] /\ EndsOf(sent)[n] \in Nat
      BY <1>2, <1>5 DEF ServedUpTo
    <3> HIDE DEF size
    <3>3. Left \in Int /\ Left' = Left - size
      BY <1>1, <2>3, <3>1 DEF Left
    <3>4. QED
      BY <1>1, <2>3, <3>1, <3>2, <3>3
  <2>6. n + 1 \in 0 .. Len(sent) /\ ServedUpTo(n + 1, sent', served', taken' - Left')
    BY <2>2, <2>3, <2>4, <2>5 DEF ServedUpTo
  <2>7. QED
    BY <1>4, <1>6, <2>1, <2>3, <2>6
<1>14. CASE EndParse
  <2>1. /\ UNCHANGED <<sent, taken, served>> /\ buf' = <<>> /\ pos' = 0 /\ pc' = "wait"
        /\ marks' = Behind(marks, Len(buf)) /\ pc = "parse" /\ Left < MIN_PKT_LEN
    BY <1>14 DEF EndParse, Behind
  <2>2. PICK k \in 0 .. Len(sent) : taken = EndsOf(sent)[k]
    BY <1>6, <2>1
  <2>3. taken - Left = EndsOf(sent)[n]
    BY <1>5 DEF ServedUpTo
  <2>4. Left = 0
    <3> DEFINE a == EndsOf(sent)[n]
               b == EndsOf(sent)[k]
               c == EndsOf(sent)[n + 1]
    <3>1. a \in Nat /\ b \in Nat /\ taken = b /\ b - Left = a /\ Left \in Nat
      BY <1>1, <1>2, <2>2, <2>3 DEF Left
    <3>2. a < b => c <= b /\ c \in Nat /\ c >= a + MIN_PKT_LEN
      <4> SUFFICES ASSUME a < b PROVE c <= b /\ c \in Nat /\ c >= a + MIN_PKT_LEN
        OBVIOUS
      <4> DEFINE z == Size(sent[n + 1])
      <4>1. c <= b /\ c = a + z /\ z \in Nat /\ z >= MIN_PKT_LEN
        BY <1>1, NextFits
      <4> HIDE DEF a, b, c, z
      <4>2. QED
        BY <3>1, <4>1 DEF MIN_PKT_LEN
    <3> HIDE DEF a, b, c
    <3>3. QED
      BY <2>1, <3>1, <3>2 DEF MIN_PKT_LEN
  <2>5. Left' = 0 /\ Len(buf') = 0
    BY <2>1 DEF Left
  <2>6. ServedUpTo(n, sent', served', taken' - Left')
    BY <1>1, <1>5, <2>1, <2>4, <2>5 DEF ServedUpTo
  <2>7. Placed(sent', marks', taken' - Len(buf'))
    <3> DEFINE o == taken - Len(buf)
    <3>1. Len(buf) \in 0 .. Len(marks)
      <4>1. buf \o ring \in Seq(Byte) /\ Len(buf \o ring) = Len(buf) + Len(ring)
        BY <1>1, ConcatProperties
      <4>2. Len(stream) = Len(buf \o ring) + Len(line)
        BY <1>1, <4>1, ConcatProperties DEF stream
      <4>3. Len(ring) \in Nat /\ Len(line) \in Nat
        BY <1>1
      <4>4. QED
        BY <1>1, <4>1, <4>2, <4>3
    <3>2. o \in Int /\ o + Len(buf) = taken /\ taken' - Len(buf') = taken
      BY <1>1, <2>1, <2>5
    <3> HIDE DEF o
    <3>3. Placed(sent, marks, o)
      BY <1>4 DEF o
    <3>4. Placed(sent, Behind(marks, Len(buf)), o + Len(buf))
      BY <1>1, <3>1, <3>2, <3>3, BehindPlaced
    <3>5. QED
      BY <2>1, <3>2, <3>4
  <2>8. QED
    BY <2>1, <2>6, <2>7
<1>15. CASE RxOverflow \/ Reset
  BY <1>15 DEF RxOverflow, Reset
<1>16. QED
  BY <1>8, <1>9, <1>10, <1>11, <1>12, <1>13, <1>14, <1>15 DEF Next, Task

LEMMA UncutInit == Init => Carried /\ UncutInv
<1> SUFFICES ASSUME Init PROVE Carried /\ UncutInv
  OBVIOUS
<1>1. /\ sent = <<>> /\ served = <<>> /\ marks = <<>> /\ buf = <<>> /\ pos = 0 /\ taken = 0
      /\ pc = "wait"
  BY DEF Init
<1>2. Len(sent) = 0 /\ Len(marks) = 0 /\ Len(buf) = 0
  BY <1>1
<1>3. EndsOf(sent)[0] = 0
  BY EndsEquation
<1>4. Carried
  BY QueueInit DEF QueueInv, Carried
<1>5. Placed(sent, marks, taken - Len(buf))
  BY <1>1, <1>2, <1>3 DEF Placed
<1>6. ServedUpTo(0, sent, served, taken - Left)
  <2>1. taken - Left = 0
    <3>1. Left = 0
      BY <1>1, <1>2 DEF Left
    <3>2. QED
      BY <1>1, <3>1
  <2>2. SubSeq(sent, 1, 0) = <<>>
    <3>1. sent \in Seq(Requests) /\ 0 \in 0 .. Len(sent)
      BY <1>1, <1>2
    <3>2. Len(SubSeq(sent, 1, 0)) = 0 /\ SubSeq(sent, 1, 0) \in Seq(Requests)
      BY <3>1, SplitSeq
    <3>3. QED
      BY <3>2, EmptySeq
  <2>3. QED
    BY <1>1, <1>3, <2>1, <2>2 DEF ServedUpTo
<1>7. 0 \in 0 .. Len(sent)
  BY <1>2
<1>8. QED
  BY <1>1, <1>4, <1>5, <1>6, <1>7 DEF UncutInv

LEMMA UncutInductive == ASSUME CrcBytes PROVE Spec => [](TypeInv /\ Carried /\ UncutInv)
<1>1. Init => TypeInv /\ Carried /\ UncutInv
  BY InitTypeInv, UncutInit
<1>2. (TypeInv /\ Carried /\ UncutInv) /\ [Next]_vars => (TypeInv /\ Carried /\ UncutInv)'
  BY TypeStep, CarriedStep, UncutStep
<1>3. QED
  BY <1>1, <1>2, PTL DEF Spec

\* As long as nothing is cut, the server leaves out no request: those it has worked
\* off are the first ones sent, and all of them were served.  Whatever the checksum
\* lets pass, and however the driver's chunks, dropped events and EEPROM waits fall.
THEOREM UncutRequestsAreServed ==
    ASSUME CrcBytes
    PROVE  Spec => []UncutServesAll
<1>1. UncutInv => UncutServesAll
  BY BoundaryIsEnds DEF UncutInv, ServedUpTo, UncutServesAll
<1>2. QED
  BY <1>1, UncutInductive, PTL

\* And nothing is made up, so that RequestQueue is implemented: what RequestsServedAsQueue
\* asks of the checksum, it asks only once something was cut.
THEOREM UncutNothingMadeUp ==
    ASSUME CrcBytes
    PROVE  Spec => [](cut \/ NothingMadeUp)
<1>1. TypeInv /\ Carried /\ UncutInv => cut \/ NothingMadeUp
  <2> SUFFICES ASSUME TypeInv, Carried, UncutInv, ~cut, pc = "parse", Left >= MIN_PKT_LEN
               PROVE  \E n \in 1 .. Len(sent) :
                          \A j \in 1 .. decoded_len(buf, pos) : marks[pos + j] = [of |-> n, at |-> j]
    BY DEF NothingMadeUp
  <2>1. PICK n \in 0 .. Len(sent) : ServedUpTo(n, sent, served, taken - Left)
    BY DEF UncutInv
  <2>2. QED
    BY <2>1, WholeAhead
<1>2. QED
  BY <1>1, UncutInductive, PTL

-----------------------------------------------------------------------------
(***************************************************************************)
(* Counting the events that stand for bytes                                *)
(***************************************************************************)

LEMMA DataAppended ==
    ASSUME NEW e \in Seq(EventType), NEW x \in EventType
    PROVE  DataEvents(Append(e, x)) = IF x = "data" THEN DataEvents(e) + 1 ELSE DataEvents(e)
<1> DEFINE f == Append(e, x)
<1>1. /\ Len(e) \in Nat /\ Len(f) = Len(e) + 1 /\ f[Len(e) + 1] = x
      /\ \A i \in 1 .. Len(e) : f[i] = e[i]
  BY AppendProperties
<1> HIDE DEF f
<1>2. DataAt(f) = IF x = "data" THEN DataAt(e) \cup {Len(e) + 1} ELSE DataAt(e)
  <2>1. \A i \in 1 .. Len(f) : i \in 1 .. Len(e) \/ i = Len(e) + 1
    BY <1>1
  <2>2. 1 .. Len(e) \subseteq 1 .. Len(f) /\ Len(e) + 1 \in 1 .. Len(f)
    BY <1>1
  <2>3. QED
    BY <1>1, <2>1, <2>2 DEF DataAt
<1>3. Len(e) + 1 \notin DataAt(e)
  BY <1>1 DEF DataAt
<1>4. QED
  BY <1>2, <1>3, DataCount, FS_AddElement DEF DataEvents, f

LEMMA DataTaken ==
    ASSUME NEW e \in Seq(EventType), e # <<>>
    PROVE  /\ DataEvents(Tail(e)) = IF Head(e) = "data" THEN DataEvents(e) - 1 ELSE DataEvents(e)
           /\ Head(e) = "data" => DataEvents(e) >= 1
<1> DEFINE t == Tail(e)
           S == DataAt(e) \ {1}
           shift == [i \in S |-> i - 1]
<1>1. /\ Len(e) \in Nat \ {0} /\ t \in Seq(EventType) /\ Len(t) = Len(e) - 1
      /\ \A i \in 1 .. Len(t) : t[i] = e[i + 1]
  BY HeadTailProperties, EmptySeq
<1>2. Head(e) = e[1]
  OBVIOUS
<1> HIDE DEF t
<1>3. shift \in Bijection(S, DataAt(t))
  <2>1. \A i \in S : i \in 2 .. Len(e) /\ e[i] = "data"
    BY <1>1 DEF DataAt
  <2>2. \A i \in 2 .. Len(e) : i - 1 \in 1 .. Len(t) /\ t[i - 1] = e[i]
    <3> TAKE i \in 2 .. Len(e)
    <3>1. i - 1 \in 1 .. Len(t) /\ (i - 1) + 1 = i
      BY <1>1
    <3>2. QED
      BY <1>1, <3>1
  <2>3. shift \in [S -> DataAt(t)]
    BY <2>1, <2>2 DEF DataAt
  <2>4. \A a, b \in S : shift[a] = shift[b] => a = b
    BY <2>1
  <2>5. \A k \in DataAt(t) : k + 1 \in S /\ shift[k + 1] = k
    <3> TAKE k \in DataAt(t)
    <3>1. k \in 1 .. Len(t) /\ t[k] = "data"
      BY DEF DataAt
    <3>2. k + 1 \in 1 .. Len(e) /\ e[k + 1] = "data" /\ k + 1 # 1
      BY <1>1, <3>1
    <3>3. k + 1 \in S
      BY <3>2 DEF DataAt
    <3>4. QED
      BY <3>1, <3>3
  <2> HIDE DEF S, shift
  <2>6. shift \in Injection(S, DataAt(t))
    BY <2>3, <2>4 DEF Injection, IsInjective
  <2>7. shift \in Surjection(S, DataAt(t))
    BY <2>3, <2>5 DEF Surjection
  <2>8. QED
    BY <2>6, <2>7 DEF Bijection
<1>4. IsFiniteSet(S) /\ Cardinality(S) = IF 1 \in DataAt(e) THEN DataEvents(e) - 1 ELSE DataEvents(e)
  BY DataCount, FS_RemoveElement DEF DataEvents
<1>5. Cardinality(DataAt(t)) = Cardinality(S)
  BY <1>3, <1>4, FS_Bijection DEF ExistsBijection
<1>6. 1 \in DataAt(e) <=> Head(e) = "data"
  BY <1>1, <1>2 DEF DataAt
<1>7. 1 \in DataAt(e) => DataEvents(e) >= 1
  BY <1>4, DataCount, FS_CardinalityType
<1>8. QED
  BY <1>4, <1>5, <1>6, <1>7 DEF DataEvents, t

-----------------------------------------------------------------------------
(***************************************************************************)
(* No packet is slept on                                                   *)
(***************************************************************************)

\* The events of other types in the queue are counted, and the buffer is empty
\* when the task is about to read.
EventsCounted ==
    /\ Len(events) <= DataEvents(events) + foreign
    /\ pc \in {"wait", "check"} => buf = <<>>

\* The data events in the queue, and the one that the task is working off, cover
\* what the driver holds with a read each, up to a rest that is no packet.
EventsCover ==
    IF pc \in {"check", "read"}
    THEN Len(ring) + Len(buf) <= (DataEvents(events) + 1) * BufLen + MIN_PKT_LEN - 1
    ELSE Len(ring) <= DataEvents(events) * BufLen + MIN_PKT_LEN - 1

IInv == TypeInv /\ EventsCounted /\ (PlacesSuffice => EventsCover)

LEMMA Products ==
    ASSUME NEW d \in Nat, NEW b \in Nat
    PROVE  /\ d * b \in Nat /\ (d + 1) * b = d * b + b
           /\ \A c \in Int : c <= d => c * b <= d * b
OBVIOUS

\* The numbers that the steps below compute with.
LEMMA Numbers ==
    ASSUME TypeOK
    PROVE  /\ Len(line) \in Nat /\ Len(ring) \in Nat /\ Len(buf) \in Nat /\ Len(events) \in Nat
           /\ events \in Seq(EventType) /\ DataEvents(events) \in Nat
           /\ foreign \in Nat /\ foreign <= QueueLen
           /\ BufLen \in Nat /\ RingCap \in Nat /\ QueueLen \in Nat
<1>1. events \in Seq(EventType)
  BY DEF TypeOK, EventType
<1>2. QED
  BY <1>1, DataCount, SizesAssumption DEF TypeOK

\* A chunk is covered by its event; if that is dropped, the queue is full and
\* covers all that the driver can hold.
LEMMA RxChunkCovered ==
    ASSUME TypeOK, EventsCounted, PlacesSuffice, EventsCover, RxChunk
    PROVE  EventsCover'
<1> DEFINE D == DataEvents(events)
           D1 == DataEvents(events')
<1>1. /\ Len(line) \in Nat /\ Len(ring) \in Nat /\ Len(buf) \in Nat /\ Len(events) \in Nat
      /\ events \in Seq(EventType) /\ D \in Nat
      /\ foreign \in Nat /\ foreign <= QueueLen
      /\ BufLen \in Nat /\ RingCap \in Nat /\ QueueLen \in Nat
  BY Numbers
<1>2. /\ pc' = pc /\ buf' = buf
      /\ events' = IF Len(events) < QueueLen THEN Append(events, "data") ELSE events
  BY DEF RxChunk, task, Post
<1>3. PICK c \in Chunks :
          LET n == least(c, least(Len(line), RingCap - Len(ring)))
          IN  /\ ring' = ring \o SubSeq(line, 1, n)
              /\ line' = SubSeq(line, n + 1, Len(line))
  BY DEF RxChunk
<1> DEFINE n == least(c, least(Len(line), RingCap - Len(ring)))
<1>4. n \in 1 .. Len(line) /\ n <= c /\ n + Len(ring) <= RingCap
  BY ChunkFacts DEF RxChunk
<1>5. c \in Nat /\ c <= BufLen
  BY SizesAssumption
<1>6. Len(ring') = Len(ring) + n
  <2>1. ring' = ring \o SubSeq(line, 1, n)
    BY <1>3
  <2> HIDE DEF n
  <2>2. n \in 0 .. Len(line)
    BY <1>1, <1>4
  <2>3. SubSeq(line, 1, n) \in Seq(Byte) /\ Len(SubSeq(line, 1, n)) = n
    BY <2>2, SplitSeq DEF TypeOK
  <2>4. QED
    BY <2>1, <2>3, ConcatProperties DEF TypeOK
<1> HIDE DEF n, D, D1
<1>7. CASE Len(events) < QueueLen
  <2>1. events' = Append(events, "data") /\ "data" \in EventType
    BY <1>2, <1>7 DEF EventType
  <2>2. D1 = D + 1 /\ Len(events') = Len(events) + 1
    BY <1>1, <2>1, DataAppended, AppendProperties DEF D, D1
  <2>4. D1 * BufLen = D * BufLen + BufLen /\ (D1 + 1) * BufLen = (D + 1) * BufLen + BufLen
    <3>1. D + 1 \in Nat
      BY <1>1
    <3>2. QED
      BY <1>1, <2>2, <3>1, Products
  <2>5. D * BufLen \in Nat /\ (D + 1) * BufLen \in Nat
    BY <1>1, Products
  <2> DEFINE p == D * BufLen
             q == (D + 1) * BufLen
             p1 == D1 * BufLen
             q1 == (D1 + 1) * BufLen
  <2>6. IF pc \in {"check", "read"}
        THEN Len(ring) + Len(buf) <= q + MIN_PKT_LEN - 1
        ELSE Len(ring) <= p + MIN_PKT_LEN - 1
    BY DEF EventsCover, D
  <2> HIDE DEF p, q, p1, q1
  <2>7. p \in Nat /\ q \in Nat /\ p1 = p + BufLen /\ q1 = q + BufLen
    BY <2>4, <2>5 DEF p, q, p1, q1
  <2>8. n \in Nat /\ n <= BufLen
    BY <1>1, <1>4, <1>5
  <2>9. IF pc \in {"check", "read"}
        THEN Len(ring') + Len(buf) <= q1 + MIN_PKT_LEN - 1
        ELSE Len(ring') <= p1 + MIN_PKT_LEN - 1
    BY <1>1, <1>6, <2>6, <2>7, <2>8 DEF MIN_PKT_LEN
  <2>10. QED
    BY <1>2, <2>9 DEF EventsCover, D1, p1, q1
<1>8. CASE ~(Len(events) < QueueLen)
  <2>1. events' = events /\ Len(events) = QueueLen
    BY <1>1, <1>2, <1>8 DEF TypeOK
  <2>2. QueueLen - foreign <= D /\ QueueLen - foreign \in Int
    BY <1>1, <2>1 DEF EventsCounted, D
  <2>3. (QueueLen - foreign) * BufLen <= D * BufLen /\ D * BufLen \in Nat
        /\ (D + 1) * BufLen = D * BufLen + BufLen
    BY <1>1, <2>2, Products
  <2> DEFINE p == D * BufLen
             q == (D + 1) * BufLen
             r == (QueueLen - foreign) * BufLen
  <2>4. RingCap <= r + MIN_PKT_LEN - 1 /\ r \in Int
    BY <1>1, <2>2 DEF PlacesSuffice
  <2>5. Len(buf) <= BufLen
    BY DEF TypeOK
  <2>6. p \in Nat /\ q = p + BufLen /\ r <= p
    BY <2>3
  <2> HIDE DEF p, q, r
  <2>7. Len(ring') <= p + MIN_PKT_LEN - 1
    <3>1. n \in Nat /\ Len(ring') <= RingCap
      BY <1>1, <1>4, <1>6
    <3>2. QED
      BY <1>1, <1>6, <2>4, <2>6, <3>1 DEF MIN_PKT_LEN
  <2>8. Len(ring') + Len(buf) <= q + MIN_PKT_LEN - 1
    <3>1. n \in Nat
      BY <1>1, <1>4
    <3>2. QED
      BY <1>1, <1>6, <2>5, <2>6, <2>7, <3>1 DEF MIN_PKT_LEN
  <2>9. QED
    BY <1>2, <2>1, <2>7, <2>8 DEF EventsCover, D, p, q
<1>9. QED
  BY <1>7, <1>8

\* An event of another type covers nothing, and changes nothing that is covered.
LEMMA OthersCovered ==
    ASSUME TypeOK, EventsCover, RxOverflow \/ RxJunk
    PROVE  EventsCover'
<1>1. events \in Seq(EventType) /\ DataEvents(events) \in Nat
  BY Numbers
<1>2. /\ ring' = ring /\ pc' = pc /\ buf' = buf
      /\ \/ events' = Append(events, "junk")
         \/ events' = Append(events, "overflow")
         \/ events' = events
  BY DEF RxOverflow, RxJunk, task, Post
<1>3. DataEvents(events') = DataEvents(events)
  <2>1. {"junk", "overflow"} \subseteq EventType /\ "junk" # "data" /\ "overflow" # "data"
    BY DEF EventType
  <2>2. /\ DataEvents(Append(events, "junk")) = DataEvents(events)
        /\ DataEvents(Append(events, "overflow")) = DataEvents(events)
    BY <1>1, <2>1, DataAppended
  <2>3. QED
    BY <1>2, <2>2
<1>4. QED
  BY <1>2, <1>3 DEF EventsCover

\* The task takes an event, and with a data event the duty to read.
LEMMA ReceiveEventCovered ==
    ASSUME TypeOK, EventsCounted, EventsCover, ReceiveEvent
    PROVE  EventsCover'
<1> DEFINE D == DataEvents(events)
           D1 == DataEvents(events')
<1>1. /\ Len(ring) \in Nat /\ Len(events) \in Nat /\ events \in Seq(EventType) /\ D \in Nat /\ BufLen \in Nat
  BY Numbers
<1>2. /\ pc = "wait" /\ events # <<>> /\ events' = Tail(events)
      /\ pc' = IF Head(events) = "data" THEN "check" ELSE "wait"
      /\ ring' = ring /\ buf' = buf
  BY DEF ReceiveEvent
<1>3. /\ D1 = IF Head(events) = "data" THEN D - 1 ELSE D
      /\ Head(events) = "data" => D >= 1
      /\ Len(events') = Len(events) - 1
  BY <1>1, <1>2, DataTaken, HeadTailProperties
<1>4. /\ buf = <<>>
      /\ Len(ring) <= D * BufLen + MIN_PKT_LEN - 1
  BY <1>2 DEF EventsCounted, EventsCover
<1>5. Len(buf) = 0
  BY <1>4
<1> HIDE DEF D, D1
<1>6. CASE Head(events) = "data"
  <2>1. D1 + 1 = D
    BY <1>1, <1>3, <1>6
  <2>2. Len(ring) + Len(buf) <= (D1 + 1) * BufLen + MIN_PKT_LEN - 1
    BY <1>1, <1>4, <1>5, <2>1
  <2>3. QED
    BY <1>2, <1>4, <1>6, <2>1, <2>2 DEF EventsCover, D1
<1>7. CASE Head(events) # "data"
  <2>1. D1 = D
    BY <1>1, <1>3, <1>7
  <2>2. QED
    BY <1>2, <1>4, <1>7, <2>1 DEF EventsCover, D1
<1>8. QED
  BY <1>6, <1>7

\* What is not worth a read is less than a packet.
LEMMA CheckBufferedCovered ==
    ASSUME TypeOK, EventsCover, CheckBuffered
    PROVE  EventsCover'
<1> DEFINE D == DataEvents(events)
           p == D * BufLen
<1>1. Len(ring) \in Nat /\ D \in Nat /\ BufLen \in Nat
  BY Numbers
<1>2. p \in Nat
  BY <1>1, Products
<1>3. /\ pc = "check" /\ pc' = IF Len(ring) < MIN_PKT_LEN THEN "wait" ELSE "read"
      /\ events' = events /\ ring' = ring /\ buf' = buf
  BY DEF CheckBuffered, driver
<1> HIDE DEF p
<1>4. Len(ring) < MIN_PKT_LEN => Len(ring) <= p + MIN_PKT_LEN - 1
  BY <1>1, <1>2 DEF MIN_PKT_LEN
<1>5. QED
  BY <1>3, <1>4 DEF EventsCover, p

\* A read moves bytes from the driver to the buffer.
LEMMA ReadSomeCovered ==
    ASSUME TypeOK, EventsCover, ReadSome
    PROVE  EventsCover'
<1> DEFINE n == least(Len(ring), BufLen - Len(buf))
<1>1. Len(ring) \in Nat /\ Len(buf) \in Nat /\ BufLen \in Nat
  BY Numbers
<1>2. n \in 0 .. Len(ring)
  BY <1>1 DEF ReadSome, least
<1>3. /\ pc = "read" /\ pc' = pc /\ events' = events
      /\ buf' = buf \o SubSeq(ring, 1, n)
      /\ ring' = SubSeq(ring, n + 1, Len(ring))
  BY DEF ReadSome
<1> HIDE DEF n
<1>4. /\ SubSeq(ring, 1, n) \in Seq(Byte) /\ Len(SubSeq(ring, 1, n)) = n
      /\ Len(ring') = Len(ring) - n
  BY SMTT(30), <1>2, <1>3, SplitSeq DEF TypeOK
<1>5. Len(buf') = Len(buf) + n
  BY <1>3, <1>4, ConcatProperties DEF TypeOK
<1>6. Len(ring') + Len(buf') = Len(ring) + Len(buf)
  BY <1>1, <1>2, <1>4, <1>5
<1>7. QED
  BY <1>3, <1>6 DEF EventsCover

\* A read that is over has used up its event: the buffer is full, or nothing is
\* left.
LEMMA ReadDoneCovered ==
    ASSUME TypeOK, EventsCover, ReadDone
    PROVE  EventsCover'
<1> DEFINE D == DataEvents(events)
           p == D * BufLen
           q == (D + 1) * BufLen
<1>1. Len(ring) \in Nat /\ Len(buf) \in Nat /\ D \in Nat /\ BufLen \in Nat
  BY Numbers
<1>2. p \in Nat /\ q = p + BufLen
  BY <1>1, Products
<1>3. /\ pc = "read" /\ pc' = "parse"
      /\ Len(buf) = BufLen \/ ring = <<>>
      /\ events' = events /\ ring' = ring /\ buf' = buf
  BY DEF ReadDone, driver
<1>4. Len(ring) + Len(buf) <= q + MIN_PKT_LEN - 1
  BY <1>3 DEF EventsCover
<1> HIDE DEF p, q
<1>5. Len(ring) <= p + MIN_PKT_LEN - 1
  <2>1. CASE Len(buf) = BufLen
    BY <1>1, <1>2, <1>4, <2>1 DEF MIN_PKT_LEN
  <2>2. CASE ring = <<>>
    <3>1. Len(ring) = 0
      BY <2>2
    <3>2. QED
      BY <1>2, <3>1 DEF MIN_PKT_LEN
  <2>3. QED
    BY <1>3, <2>1, <2>2
<1>6. QED
  BY <1>3, <1>5 DEF EventsCover, p

\* Events of other types are counted when they come, and none gets in otherwise.
LEMMA CountedStep ==
    ASSUME TypeOK, EventsCounted, [Next]_vars
    PROVE  EventsCounted'
<1>0. /\ events \in Seq(EventType) /\ Len(events) \in Nat /\ DataEvents(events) \in Nat
      /\ foreign \in Nat
  BY Numbers
<1>1. CASE RxChunk \/ RxOverflow \/ RxJunk
  <2>1. PICK type \in EventType : Post(type)
    BY <1>1 DEF RxChunk, RxOverflow, RxJunk, EventType
  <2>2. /\ events' \in Seq(EventType) /\ foreign' \in 0 .. QueueLen
        /\ Len(events') - DataEvents(events') <= foreign'
    BY <2>1, PostType DEF TypeOK, EventType
  <2>3. Len(events') \in Nat /\ DataEvents(events') \in Nat /\ foreign' \in Nat
    BY <2>2, DataCount, SizesAssumption
  <2>4. Len(events') <= DataEvents(events') + foreign'
    BY <2>2, <2>3
  <2>5. pc' = pc /\ buf' = buf
    BY <1>1 DEF RxChunk, RxOverflow, RxJunk, task
  <2>6. QED
    BY <2>4, <2>5 DEF EventsCounted
<1>2. CASE ReceiveEvent
  <2>1. /\ events # <<>> /\ events' = Tail(events) /\ foreign' = foreign
        /\ buf' = buf /\ pc = "wait"
    BY <1>2 DEF ReceiveEvent
  <2>2. /\ DataEvents(events') = IF Head(events) = "data" THEN DataEvents(events) - 1 ELSE DataEvents(events)
        /\ Len(events') = Len(events) - 1
    BY <1>0, <2>1, DataTaken, HeadTailProperties
  <2>3. Len(events) <= DataEvents(events) + foreign
    BY DEF EventsCounted
  <2>4. Len(events') <= DataEvents(events') + foreign'
    BY <1>0, <2>1, <2>2, <2>3
  <2>5. QED
    BY <2>1, <2>4 DEF EventsCounted
<1>3. CASE Reset
  <2>1. events' = <<>> /\ foreign' = 0 /\ buf' = <<>>
    BY <1>3 DEF Reset
  <2>2. events' \in Seq(EventType) /\ Len(events') = 0
    BY <2>1
  <2>3. DataEvents(events') \in Nat
    BY <2>2, DataCount
  <2>4. Len(events') <= DataEvents(events') + foreign'
    BY <2>1, <2>2, <2>3
  <2>5. QED
    BY <2>1, <2>4 DEF EventsCounted
<1>4. ASSUME UNCHANGED <<events, foreign>>, pc' \in {"wait", "check"} => buf' = <<>>
      PROVE  EventsCounted'
  BY <1>4 DEF EventsCounted, DataEvents, DataAt
<1>5. CASE UNCHANGED vars \/ \E r \in Requests : Send(r)
  BY <1>4, <1>5 DEF vars, driver, task, Send, EventsCounted
<1>6. CASE CheckBuffered \/ ReadSome \/ ReadDone \/ SkipByte \/ TakePacket \/ EepromWait \/ EndParse
  BY <1>4, <1>6 DEF CheckBuffered, ReadSome, ReadDone, SkipByte, TakePacket, EepromWait, EndParse,
     driver, EventsCounted
<1>7. QED
  BY <1>1, <1>2, <1>3, <1>5, <1>6 DEF Next, Task

\* What suffices still has sufficed before: the count only grows.
LEMMA SufficedBefore ==
    ASSUME TypeOK, [Next]_vars, ~Reset, PlacesSuffice'
    PROVE  PlacesSuffice
<1>0. foreign \in Nat /\ QueueLen \in Nat /\ BufLen \in Nat /\ RingCap \in Nat /\ foreign <= QueueLen
  BY Numbers
<1>1. foreign' \in 0 .. QueueLen /\ foreign <= foreign'
  <2>1. CASE RxChunk \/ RxOverflow \/ RxJunk
    <3>1. PICK type \in EventType : Post(type)
      BY <2>1 DEF RxChunk, RxOverflow, RxJunk, EventType
    <3>2. QED
      BY <3>1, PostType DEF TypeOK, EventType
  <2>2. CASE ~(RxChunk \/ RxOverflow \/ RxJunk)
    <3>1. foreign' = foreign
      BY <2>2 DEF Next, Task, vars, Send, ReceiveEvent, CheckBuffered, ReadSome, ReadDone, SkipByte,
         TakePacket, EepromWait, EndParse, driver
    <3>2. QED
      BY <1>0, <3>1
  <2>3. QED
    BY <2>1, <2>2
<1> DEFINE f == foreign
           g == foreign'
<1>2. QueueLen - f \in Nat /\ QueueLen - g \in Int /\ QueueLen - g <= QueueLen - f
  <2>1. f \in Nat /\ g \in Nat /\ f <= g /\ f <= QueueLen /\ QueueLen \in Nat
    BY <1>0, <1>1
  <2> HIDE DEF f, g
  <2>2. QED
    BY <2>1
<1>3. (QueueLen - foreign') * BufLen <= (QueueLen - foreign) * BufLen
  BY <1>0, <1>2, Products
<1> DEFINE p == (QueueLen - foreign) * BufLen
           q == (QueueLen - foreign') * BufLen
<1>4. p \in Int /\ q \in Int /\ q <= p
  BY <1>0, <1>2, <1>3
<1>5. RingCap <= q + MIN_PKT_LEN - 1
  BY DEF PlacesSuffice
<1> HIDE DEF p, q
<1>6. RingCap <= p + MIN_PKT_LEN - 1
  BY <1>0, <1>4, <1>5 DEF MIN_PKT_LEN
<1>7. QED
  BY <1>6 DEF PlacesSuffice, p

LEMMA StepIInv ==
    ASSUME CrcBytes, IInv, [Next]_vars
    PROVE  IInv'
<1>1. TypeInv' /\ EventsCounted'
  BY TypeStep, CountedStep DEF IInv, TypeInv
<1> SUFFICES ASSUME PlacesSuffice' PROVE EventsCover'
  BY <1>1 DEF IInv
\* nothing is left to be covered
<1>2. CASE Reset
  <2>1. Len(ring') = 0 /\ pc' = "wait" /\ events' = <<>>
    BY <1>2 DEF Reset
  <2>2. events' \in Seq(EventType)
    BY <2>1
  <2> DEFINE p == DataEvents(events') * BufLen
  <2>3. p \in Nat
    BY <2>2, DataCount, SizesAssumption, Products
  <2> HIDE DEF p
  <2>4. Len(ring') <= p + MIN_PKT_LEN - 1
    BY <2>1, <2>3 DEF MIN_PKT_LEN
  <2>5. QED
    BY <2>1, <2>4 DEF EventsCover, p
<1> SUFFICES ASSUME ~Reset PROVE EventsCover'
  BY <1>2
<1>3. TypeOK /\ EventsCounted /\ PlacesSuffice /\ EventsCover
  BY SufficedBefore DEF IInv, TypeInv
<1>4. CASE UNCHANGED vars
  BY <1>3, <1>4 DEF vars, driver, task, EventsCover, DataEvents, DataAt
<1>5. ASSUME NEW r \in Requests, Send(r) PROVE EventsCover'
  <2>1. UNCHANGED <<events, ring, pc, buf>>
    BY <1>5 DEF Send, driver, task
  <2>2. QED
    BY <1>3, <2>1 DEF EventsCover, DataEvents, DataAt
<1>6. CASE RxChunk
  BY <1>3, <1>6, RxChunkCovered
<1>7. CASE RxOverflow \/ RxJunk
  BY <1>3, <1>7, OthersCovered
<1>8. CASE ReceiveEvent
  BY <1>3, <1>8, ReceiveEventCovered
<1>9. CASE CheckBuffered
  BY <1>3, <1>9, CheckBufferedCovered
<1>10. CASE ReadSome
  BY <1>3, <1>10, ReadSomeCovered
<1>11. CASE ReadDone
  BY <1>3, <1>11, ReadDoneCovered
\* while the task parses, or waits for the EEPROM, it takes nothing
<1>12. CASE SkipByte \/ TakePacket \/ EepromWait \/ EndParse
  <2>1. UNCHANGED <<events, ring>> /\ pc \in {"parse", "eeprom"}
    BY <1>12 DEF SkipByte, TakePacket, EepromWait, EndParse, driver
  <2>2. pc' \in {"parse", "eeprom", "wait"}
    BY <1>12 DEF SkipByte, TakePacket, EepromWait, EndParse
  <2>3. QED
    BY <1>3, <2>1, <2>2 DEF EventsCover, DataEvents, DataAt
<1>13. QED
  BY <1>4, <1>5, <1>6, <1>7, <1>8, <1>9, <1>10, <1>11, <1>12 DEF Next, Task

LEMMA InitIInv == Init => IInv
<1> SUFFICES ASSUME Init PROVE IInv
  OBVIOUS
<1>1. TypeInv /\ TypeOK
  BY InitTypeInv DEF TypeInv
<1>2. DataEvents(events) \in Nat /\ BufLen \in Nat /\ foreign \in Nat
  BY <1>1, Numbers
<1>3. DataEvents(events) * BufLen \in Nat
  BY <1>2, Products
<1>4. Len(events) = 0 /\ Len(ring) = 0 /\ pc = "wait" /\ buf = <<>>
  BY DEF Init
<1> DEFINE p == DataEvents(events) * BufLen
           D == DataEvents(events)
<1>5. p \in Nat /\ D \in Nat
  BY <1>2, <1>3
<1> HIDE DEF p, D
<1>6. Len(ring) <= p + MIN_PKT_LEN - 1 /\ Len(events) <= D + foreign
  BY <1>2, <1>4, <1>5 DEF MIN_PKT_LEN
<1>7. QED
  BY <1>1, <1>4, <1>6 DEF IInv, EventsCounted, EventsCover, p, D

\* The task does not sleep on a packet, however the driver cuts up the bytes,
\* whatever is lost and whatever events it drops, as long as the places of the
\* queue suffice: the invariant counts, for every data event in it, one read that
\* is still to come.
THEOREM NoSleepOnPacket ==
    ASSUME CrcBytes
    PROVE  Spec => []NoLostWakeup
<1>1. IInv => NoLostWakeup
  <2> SUFFICES ASSUME IInv, PlacesSuffice, pc = "wait", events = <<>>
               PROVE  Len(ring) < MIN_PKT_LEN
    BY DEF NoLostWakeup
  <2>1. Len(ring) \in Nat /\ BufLen \in Nat /\ DataEvents(events) \in Nat /\ events \in Seq(EventType)
    BY Numbers DEF IInv, TypeInv
  <2>2. DataEvents(events) = 0
    <3>1. DataEvents(events) <= Len(events) /\ Len(events) = 0
      BY <2>1, DataCount
    <3>2. QED
      BY <2>1, <3>1
  <2>3. Len(ring) <= 0 * BufLen + MIN_PKT_LEN - 1
    BY <2>2 DEF IInv, EventsCover
  <2>4. QED
    BY <2>1, <2>3 DEF MIN_PKT_LEN
<1>2. Init => IInv
  BY InitIInv
<1>3. IInv /\ [Next]_vars => IInv'
  BY StepIInv
<1>4. QED
  BY <1>1, <1>2, <1>3, PTL DEF Spec
=============================================================================
