--------------------------- MODULE ListenerProofs ----------------------------
(***************************************************************************)
(* Proofs about Listener, for any number of clients with any ports, any    *)
(* MAX_QUEUE and window, and any damage to single bytes.                   *)
(*                                                                         *)
(* First the bytes: what create_packet_buf writes is read back and passes  *)
(* tcp_check, and a byte that is changed later changes the 16-bit sum,     *)
(* by a multiple of 1 or 256 that stays below 65536.  Then the queues:     *)
(* ListenerInv says whose ACK may still come while saved_syn is 0, so that *)
(* the list that sockqueue_remove drops as a whole held that client alone, *)
(* and how far size is from the length of accept_queue in each step of     *)
(* push and pop.                                                           *)
(***************************************************************************)
EXTENDS Listener, SequenceTheorems, TLAPS

\* What FoldLeft computes for data, for each set of its positions.
Sums(data) ==
    CHOOSE f : f = [s \in SUBSET (DOMAIN data) |->
                       IF s = {} THEN 0
                       ELSE LET x == Max(s) IN f[s \ {x}] + Char(data[x])]

LEMMA SumIsLast == ASSUME NEW data PROVE CharSum(data) = Sums(data)[DOMAIN data]
  BY DEF CharSum, FoldLeft, MapThenFoldSet, Sums

\* FoldLeft over nothing and over two bytes.
LEMMA SumOfNone == CharSum(<<>>) = 0
  <1> DEFINE T(f) == [s \in SUBSET (DOMAIN <<>>) |->
                       IF s = {} THEN 0
                       ELSE LET x == Max(s) IN f[s \ {x}] + Char(<<>>[x])]
             w == [s \in {{}} |-> 0]
  <1>1. DOMAIN <<>> = {}
    OBVIOUS
  <1>2. w = T(w)
    BY <1>1
  <1>3. Sums(<<>>) = CHOOSE f : f = T(f)
    BY DEF Sums
  <1> HIDE DEF T
  <1>4. Sums(<<>>) = T(Sums(<<>>))
    BY <1>2, <1>3
  <1> USE DEF T
  <1>5. Sums(<<>>)[{}] = 0
    BY <1>4, <1>1
  <1> QED
    BY <1>5, <1>1, SumIsLast

LEMMA Maxima == Max({1}) = 1 /\ Max({2}) = 2 /\ Max({1, 2}) = 2
  BY SMT DEF Max

LEMMA SumOfTwo ==
    ASSUME NEW data, DOMAIN data = {1, 2}, data[1] \in 0..255, data[2] \in 0..255
    PROVE  CharSum(data) = Char(data[1]) + Char(data[2])
  <1> DEFINE T(f) == [s \in SUBSET (DOMAIN data) |->
                       IF s = {} THEN 0
                       ELSE LET x == Max(s) IN f[s \ {x}] + Char(data[x])]
             a == Char(data[1])
             b == Char(data[2])
             w == [s \in SUBSET (DOMAIN data) |->
                      IF s = {} THEN 0 ELSE IF s = {1} THEN a ELSE
                      IF s = {2} THEN b ELSE a + b]
  <1>1. a \in Int /\ b \in Int
    BY DEF Char
  <1> HIDE DEF T
  <1>2. \A s \in SUBSET (DOMAIN data) : s = {} \/ s = {1} \/ s = {2} \/ s = {1, 2}
    OBVIOUS
  <1>3. \A f, s : s \in SUBSET (DOMAIN data) =>
           T(f)[s] = IF s = {} THEN 0 ELSE f[s \ {Max(s)}] + Char(data[Max(s)])
    BY DEF T
  <1>31. \A s \in SUBSET (DOMAIN data) :
           w[s] = IF s = {} THEN 0 ELSE IF s = {1} THEN a ELSE IF s = {2} THEN b ELSE a + b
    OBVIOUS
  <1>32. w[{}] = 0 /\ w[{1}] = a /\ w[{2}] = b /\ w[{1, 2}] = a + b
    BY <1>31
  <1> HIDE DEF w, a, b
  <1>33. \A f : /\ T(f)[{}] = 0 /\ T(f)[{1}] = f[{}] + a /\ T(f)[{2}] = f[{}] + b
               /\ T(f)[{1, 2}] = f[{1}] + b
    <2> SUFFICES ASSUME NEW f
                 PROVE  /\ T(f)[{}] = 0 /\ T(f)[{1}] = f[{}] + a
                        /\ T(f)[{2}] = f[{}] + b /\ T(f)[{1, 2}] = f[{1}] + b
      OBVIOUS
    <2>0. T(f)[{}] = 0
      BY <1>3
    <2>1. T(f)[{1}] = f[{1} \ {Max({1})}] + Char(data[Max({1})])
      BY <1>3
    <2>2. T(f)[{2}] = f[{2} \ {Max({2})}] + Char(data[Max({2})])
      BY <1>3
    <2>3. T(f)[{1, 2}] = f[{1, 2} \ {Max({1, 2})}] + Char(data[Max({1, 2})])
      BY <1>3
    <2>4. {1, 2} \ {2} = {1} /\ {1} \ {1} = {} /\ {2} \ {2} = {}
      OBVIOUS
    <2>5. T(f)[{1}] = f[{}] + a
      BY <2>1, <2>4, Maxima, Zenon DEF a
    <2>6. T(f)[{2}] = f[{}] + b
      BY <2>2, <2>4, Maxima, Zenon DEF b
    <2>7. T(f)[{1, 2}] = f[{1}] + b
      BY <2>3, <2>4, Maxima, Zenon DEF b
    <2> QED
      BY <2>0, <2>5, <2>6, <2>7
  <1>4. \A s \in SUBSET (DOMAIN data) : T(w)[s] = w[s]
    <2>1. /\ T(w)[{}] = 0 /\ T(w)[{1}] = 0 + a /\ T(w)[{2}] = 0 + b
          /\ T(w)[{1, 2}] = a + b
      BY <1>32, <1>33, Zenon
    <2>2. 0 + a = a /\ 0 + b = b
      BY <1>1
    <2>3. /\ T(w)[{}] = w[{}] /\ T(w)[{1}] = w[{1}] /\ T(w)[{2}] = w[{2}]
          /\ T(w)[{1, 2}] = w[{1, 2}]
      BY <2>1, <2>2, <1>32, Zenon
    <2> QED
      BY <2>3, <1>2, Zenon
  <1>5. w = T(w)
    BY <1>4 DEF T, w
  <1>6. Sums(data) = CHOOSE f : f = T(f)
    BY DEF Sums, T
  <1>7. Sums(data) = T(Sums(data))
    BY <1>5, <1>6
  <1> DEFINE S == Sums(data)
  <1> HIDE DEF S
  <1>8. S = T(S)
    BY <1>7 DEF S
  <1>9. S[{}] = 0 /\ S[{1}] = S[{}] + a /\ S[{1, 2}] = S[{1}] + b
    BY <1>8, <1>33, Zenon
  <1> QED
    BY <1>1, <1>9, SumIsLast DEF S, a, b
-----------------------------------------------------------------------------
Byte == {n \in Int : 0 <= n /\ n < 256}
Short == {n \in Int : 0 <= n /\ n < 65536}
Words == [hi : Short, lo : Short]

\* The prover lists the members of an interval of numerals: intervals are used as
\* inequalities instead.
LEMMA Bytes == 0..255 = Byte
  BY DEF Byte

LEMMA PortsAreShort == ServerPort \in Short /\ Ports \subseteq Short /\ Window \in Short
  <1>1. USHRT_MAX \in Int
    BY DEF USHRT_MAX
  <1>2. /\ ServerPort \in Int /\ 1 <= ServerPort /\ ServerPort <= USHRT_MAX
        /\ \A p \in Ports : p \in Int /\ 1 <= p /\ p <= USHRT_MAX
        /\ Window \in Int /\ 0 <= Window /\ Window <= USHRT_MAX
    BY <1>1, ListenerAssumption
  <1> QED
    BY <1>2 DEF Short, USHRT_MAX

\* The two bytes of a short.
Hi(n) == n \div 256
Lo(n) == n % 256

LEMMA SplitShort ==
    ASSUME NEW n \in Short
    PROVE  /\ Hi(n) \in Byte /\ Lo(n) \in Byte
           /\ 256 * Hi(n) + Lo(n) = n
  BY DEF Short, Byte, Hi, Lo

LEMMA JoinBytes ==
    ASSUME NEW a \in Byte, NEW b \in Byte
    PROVE  /\ 256 * a + b \in Short
           /\ Hi(256 * a + b) = a /\ Lo(256 * a + b) = b
  BY DEF Short, Byte, Hi, Lo

LEMMA SameRest ==
    ASSUME NEW m \in Int, NEW n \in Int, m - n < 65536, n - m < 65536, UShort(m) = UShort(n)
    PROVE  m = n
  BY DEF UShort

LEMMA ShortRange == ASSUME NEW n \in Int PROVE UShort(n) \in Short
  BY DEF UShort, Short

\* Sequences of bytes put one after the other.
LEMMA Extend2 ==
    ASSUME NEW s \in Seq(Byte), NEW n \in Short
    PROVE  /\ s \o Bytes16(n) \in Seq(Byte) /\ Len(s \o Bytes16(n)) = Len(s) + 2
           /\ (s \o Bytes16(n))[Len(s) + 1] = Hi(n)
           /\ (s \o Bytes16(n))[Len(s) + 2] = Lo(n)
           /\ \A i \in 1..Len(s) : (s \o Bytes16(n))[i] = s[i]
  <1> DEFINE k == Len(s)
  <1>k. k \in Nat
    OBVIOUS
  <1>1. Hi(n) \in Byte /\ Lo(n) \in Byte
    BY SplitShort
  <1> DEFINE b == Bytes16(n)
  <1>2. b \in Seq(Byte) /\ Len(b) = 2 /\ b[1] = Hi(n) /\ b[2] = Lo(n)
    BY <1>1 DEF Bytes16, Hi, Lo
  <1> HIDE DEF b
  <1>3. /\ s \o b \in Seq(Byte) /\ Len(s \o b) = k + 2
        /\ \A i \in 1..(k + 2) : (s \o b)[i] = IF i <= k THEN s[i] ELSE b[i - k]
    <2> DEFINE B == Byte
    <2> HIDE DEF B
    <2>1. s \in Seq(B) /\ b \in Seq(B)
      BY <1>2 DEF B
    <2>2. /\ s \o b \in Seq(B)
          /\ Len(s \o b) = Len(s) + Len(b)
          /\ \A i \in 1 .. Len(s) + Len(b) :
                (s \o b)[i] = IF i <= Len(s) THEN s[i] ELSE b[i - Len(s)]
      BY <2>1, ConcatProperties
    <2> QED
      BY <2>2, <1>2 DEF B
  <1>4. (s \o b)[k + 1] = b[1] /\ (s \o b)[k + 2] = b[2]
    BY <1>3
  <1>5. \A i \in 1..k : (s \o b)[i] = s[i]
    BY <1>3
  <1> QED
    BY <1>2, <1>3, <1>4, <1>5 DEF b

LEMMA Extend1 ==
    ASSUME NEW s \in Seq(Byte), NEW n \in Byte
    PROVE  /\ s \o <<n>> \in Seq(Byte) /\ Len(s \o <<n>>) = Len(s) + 1
           /\ (s \o <<n>>)[Len(s) + 1] = n
           /\ \A i \in 1..Len(s) : (s \o <<n>>)[i] = s[i]
  <1> DEFINE k == Len(s)
  <1>k. k \in Nat
    OBVIOUS
  <1> DEFINE b == <<n>>
  <1>2. b \in Seq(Byte) /\ Len(b) = 1 /\ b[1] = n
    OBVIOUS
  <1> HIDE DEF b
  <1>3. /\ s \o b \in Seq(Byte) /\ Len(s \o b) = k + 1
        /\ \A i \in 1..(k + 1) : (s \o b)[i] = IF i <= k THEN s[i] ELSE b[i - k]
    <2> DEFINE B == Byte
    <2> HIDE DEF B
    <2>1. s \in Seq(B) /\ b \in Seq(B)
      BY <1>2 DEF B
    <2>2. /\ s \o b \in Seq(B)
          /\ Len(s \o b) = Len(s) + Len(b)
          /\ \A i \in 1 .. Len(s) + Len(b) :
                (s \o b)[i] = IF i <= Len(s) THEN s[i] ELSE b[i - Len(s)]
      BY <2>1, ConcatProperties
    <2> QED
      BY <2>2, <1>2 DEF B
  <1>4. (s \o b)[k + 1] = b[1]
    BY <1>3
  <1>5. \A i \in 1..k : (s \o b)[i] = s[i]
    BY <1>3
  <1> QED
    BY <1>2, <1>3, <1>4, <1>5 DEF b

LEMMA Extend4 ==
    ASSUME NEW s \in Seq(Byte), NEW w \in Words
    PROVE  /\ s \o Bytes32(w) \in Seq(Byte) /\ Len(s \o Bytes32(w)) = Len(s) + 4
           /\ (s \o Bytes32(w))[Len(s) + 1] = Hi(w.hi)
           /\ (s \o Bytes32(w))[Len(s) + 2] = Lo(w.hi)
           /\ (s \o Bytes32(w))[Len(s) + 3] = Hi(w.lo)
           /\ (s \o Bytes32(w))[Len(s) + 4] = Lo(w.lo)
           /\ \A i \in 1..Len(s) : (s \o Bytes32(w))[i] = s[i]
  <1> DEFINE k == Len(s)
  <1>k. k \in Nat
    OBVIOUS
  <1>0. w.hi \in Short /\ w.lo \in Short
    BY DEF Words
  <1> DEFINE b == Bytes32(w)
             h == Bytes16(w.hi)
             B == Byte
  <1> HIDE DEF B
  <1>1. h \in Seq(Byte) /\ Len(h) = 2 /\ h[1] = Hi(w.hi) /\ h[2] = Lo(w.hi)
    <2>1. Hi(w.hi) \in Byte /\ Lo(w.hi) \in Byte
      BY <1>0, SplitShort
    <2> QED
      BY <2>1 DEF Bytes16, Hi, Lo
  <1>2. b = h \o Bytes16(w.lo)
    BY DEF Bytes32
  <1> HIDE DEF b, h
  <1>3. /\ b \in Seq(Byte) /\ Len(b) = 4
        /\ b[3] = Hi(w.lo) /\ b[4] = Lo(w.lo) /\ b[1] = h[1] /\ b[2] = h[2]
    <2>1. /\ b \in Seq(Byte) /\ Len(b) = Len(h) + 2
          /\ b[Len(h) + 1] = Hi(w.lo) /\ b[Len(h) + 2] = Lo(w.lo)
          /\ \A i \in 1..Len(h) : b[i] = h[i]
      BY <1>0, <1>1, <1>2, Extend2, Zenon
    <2> QED
      BY <2>1, <1>1
  <1>4. /\ s \o b \in Seq(B)
        /\ Len(s \o b) = Len(s) + Len(b)
        /\ \A i \in 1 .. Len(s) + Len(b) :
              (s \o b)[i] = IF i <= Len(s) THEN s[i] ELSE b[i - Len(s)]
    <2>1. s \in Seq(B) /\ b \in Seq(B)
      BY <1>3 DEF B
    <2> QED
      BY <2>1, ConcatProperties
  <1>5. /\ s \o b \in Seq(B) /\ Len(s \o b) = k + 4
        /\ \A i \in 1 .. k + 4 : (s \o b)[i] = IF i <= k THEN s[i] ELSE b[i - k]
    BY <1>3, <1>4
  <1>6. /\ (s \o b)[k + 1] = b[1] /\ (s \o b)[k + 2] = b[2]
        /\ (s \o b)[k + 3] = b[3] /\ (s \o b)[k + 4] = b[4]
    BY <1>5
  <1>7. \A i \in 1..k : (s \o b)[i] = s[i]
    BY <1>5
  <1> QED
    BY <1>1, <1>3, <1>5, <1>6, <1>7 DEF b, B

\* What header_in_char and packet_to_buf write.
Fields(p) ==
    /\ p.src \in Short /\ p.dst \in Short /\ p.seq \in Words /\ p.ack \in Words
    /\ p.hlen \in Short /\ p.plen \in Short /\ p.flags \in Byte
    /\ p.advertised_window \in Short /\ p.ext \in Byte /\ p.checksum \in Short

Header(p, t) ==
    /\ t[1] = Hi(p.src) /\ t[2] = Lo(p.src)
    /\ t[3] = Hi(p.dst) /\ t[4] = Lo(p.dst)
    /\ t[5] = Hi(p.seq.hi) /\ t[6] = Lo(p.seq.hi)
    /\ t[7] = Hi(p.seq.lo) /\ t[8] = Lo(p.seq.lo)
    /\ t[9] = Hi(p.ack.hi) /\ t[10] = Lo(p.ack.hi)
    /\ t[11] = Hi(p.ack.lo) /\ t[12] = Lo(p.ack.lo)
    /\ t[13] = Hi(p.hlen) /\ t[14] = Lo(p.hlen)
    /\ t[15] = Hi(p.plen) /\ t[16] = Lo(p.plen)
    /\ t[17] = p.flags
    /\ t[18] = Hi(p.advertised_window) /\ t[19] = Lo(p.advertised_window)
    /\ t[20] = p.ext
    /\ t[21] = Hi(p.checksum) /\ t[22] = Lo(p.checksum)

LEMMA HeaderBytes ==
    ASSUME NEW p, Fields(p)
    PROVE  /\ header_in_char(p) \in Seq(Byte) /\ Len(header_in_char(p)) = 22
           /\ Header(p, header_in_char(p))
  <1> DEFINE s1 == Bytes16(p.src)
             s2 == s1 \o Bytes16(p.dst)
             s3 == s2 \o Bytes32(p.seq)
             s4 == s3 \o Bytes32(p.ack)
             s5 == s4 \o Bytes16(p.hlen)
             s6 == s5 \o Bytes16(p.plen)
             s7 == s6 \o <<p.flags>>
             s8 == s7 \o Bytes16(p.advertised_window)
             s9 == s8 \o <<p.ext>>
             s10 == s9 \o Bytes16(p.checksum)
  <1>0. header_in_char(p) = s10
    BY DEF header_in_char
  <1>1. s1 \in Seq(Byte) /\ Len(s1) = 2 /\ s1[1] = Hi(p.src) /\ s1[2] = Lo(p.src)
    <2>1. Hi(p.src) \in Byte /\ Lo(p.src) \in Byte
      BY SplitShort DEF Fields
    <2> QED
      BY <2>1 DEF Bytes16, Hi, Lo
  <1> HIDE DEF s1
  <1>2. /\ s2 \in Seq(Byte) /\ Len(s2) = 4 /\ \A i \in 1..2 : s2[i] = s1[i]
        /\ s2[3] = Hi(p.dst) /\ s2[4] = Lo(p.dst)
    <2>0. p.dst \in Short
      BY DEF Fields
    <2>1. /\ s2 \in Seq(Byte) /\ Len(s2) = Len(s1) + 2
          /\ \A i \in 1..Len(s1) : s2[i] = s1[i]
          /\ s2[Len(s1) + 1] = Hi(p.dst) /\ s2[Len(s1) + 2] = Lo(p.dst)
      BY <1>1, <2>0, Extend2, Zenon
    <2> HIDE DEF s2
    <2> QED
      BY <2>1, <1>1
  <1> HIDE DEF s2
  <1>3. /\ s3 \in Seq(Byte) /\ Len(s3) = 8 /\ \A i \in 1..4 : s3[i] = s2[i]
        /\ s3[5] = Hi(p.seq.hi) /\ s3[6] = Lo(p.seq.hi)
        /\ s3[7] = Hi(p.seq.lo) /\ s3[8] = Lo(p.seq.lo)
    <2>0. p.seq \in Words
      BY DEF Fields
    <2>1. /\ s3 \in Seq(Byte) /\ Len(s3) = Len(s2) + 4
          /\ \A i \in 1..Len(s2) : s3[i] = s2[i]
          /\ s3[Len(s2) + 1] = Hi(p.seq.hi) /\ s3[Len(s2) + 2] = Lo(p.seq.hi)
          /\ s3[Len(s2) + 3] = Hi(p.seq.lo) /\ s3[Len(s2) + 4] = Lo(p.seq.lo)
      BY <1>2, <2>0, Extend4, Zenon
    <2> HIDE DEF s3
    <2> QED
      BY <2>1, <1>2
  <1> HIDE DEF s3
  <1>4. /\ s4 \in Seq(Byte) /\ Len(s4) = 12 /\ \A i \in 1..8 : s4[i] = s3[i]
        /\ s4[9] = Hi(p.ack.hi) /\ s4[10] = Lo(p.ack.hi)
        /\ s4[11] = Hi(p.ack.lo) /\ s4[12] = Lo(p.ack.lo)
    <2>0. p.ack \in Words
      BY DEF Fields
    <2>1. /\ s4 \in Seq(Byte) /\ Len(s4) = Len(s3) + 4
          /\ \A i \in 1..Len(s3) : s4[i] = s3[i]
          /\ s4[Len(s3) + 1] = Hi(p.ack.hi) /\ s4[Len(s3) + 2] = Lo(p.ack.hi)
          /\ s4[Len(s3) + 3] = Hi(p.ack.lo) /\ s4[Len(s3) + 4] = Lo(p.ack.lo)
      BY <1>3, <2>0, Extend4, Zenon
    <2> HIDE DEF s4
    <2> QED
      BY <2>1, <1>3
  <1> HIDE DEF s4
  <1>5. /\ s5 \in Seq(Byte) /\ Len(s5) = 14 /\ \A i \in 1..12 : s5[i] = s4[i]
        /\ s5[13] = Hi(p.hlen) /\ s5[14] = Lo(p.hlen)
    <2>0. p.hlen \in Short
      BY DEF Fields
    <2>1. /\ s5 \in Seq(Byte) /\ Len(s5) = Len(s4) + 2
          /\ \A i \in 1..Len(s4) : s5[i] = s4[i]
          /\ s5[Len(s4) + 1] = Hi(p.hlen) /\ s5[Len(s4) + 2] = Lo(p.hlen)
      BY <1>4, <2>0, Extend2, Zenon
    <2> HIDE DEF s5
    <2> QED
      BY <2>1, <1>4
  <1> HIDE DEF s5
  <1>6. /\ s6 \in Seq(Byte) /\ Len(s6) = 16 /\ \A i \in 1..14 : s6[i] = s5[i]
        /\ s6[15] = Hi(p.plen) /\ s6[16] = Lo(p.plen)
    <2>0. p.plen \in Short
      BY DEF Fields
    <2>1. /\ s6 \in Seq(Byte) /\ Len(s6) = Len(s5) + 2
          /\ \A i \in 1..Len(s5) : s6[i] = s5[i]
          /\ s6[Len(s5) + 1] = Hi(p.plen) /\ s6[Len(s5) + 2] = Lo(p.plen)
      BY <1>5, <2>0, Extend2, Zenon
    <2> HIDE DEF s6
    <2> QED
      BY <2>1, <1>5
  <1> HIDE DEF s6
  <1>7. /\ s7 \in Seq(Byte) /\ Len(s7) = 17 /\ \A i \in 1..16 : s7[i] = s6[i]
        /\ s7[17] = p.flags
    <2>0. p.flags \in Byte
      BY DEF Fields
    <2>1. /\ s7 \in Seq(Byte) /\ Len(s7) = Len(s6) + 1
          /\ \A i \in 1..Len(s6) : s7[i] = s6[i]
          /\ s7[Len(s6) + 1] = p.flags
      BY <1>6, <2>0, Extend1, Zenon
    <2> HIDE DEF s7
    <2> QED
      BY <2>1, <1>6
  <1> HIDE DEF s7
  <1>8. /\ s8 \in Seq(Byte) /\ Len(s8) = 19 /\ \A i \in 1..17 : s8[i] = s7[i]
        /\ s8[18] = Hi(p.advertised_window) /\ s8[19] = Lo(p.advertised_window)
    <2>0. p.advertised_window \in Short
      BY DEF Fields
    <2>1. /\ s8 \in Seq(Byte) /\ Len(s8) = Len(s7) + 2
          /\ \A i \in 1..Len(s7) : s8[i] = s7[i]
          /\ s8[Len(s7) + 1] = Hi(p.advertised_window)
          /\ s8[Len(s7) + 2] = Lo(p.advertised_window)
      BY <1>7, <2>0, Extend2, Zenon
    <2> HIDE DEF s8
    <2> QED
      BY <2>1, <1>7
  <1> HIDE DEF s8
  <1>9. /\ s9 \in Seq(Byte) /\ Len(s9) = 20 /\ \A i \in 1..19 : s9[i] = s8[i]
        /\ s9[20] = p.ext
    <2>0. p.ext \in Byte
      BY DEF Fields
    <2>1. /\ s9 \in Seq(Byte) /\ Len(s9) = Len(s8) + 1
          /\ \A i \in 1..Len(s8) : s9[i] = s8[i]
          /\ s9[Len(s8) + 1] = p.ext
      BY <1>8, <2>0, Extend1, Zenon
    <2> HIDE DEF s9
    <2> QED
      BY <2>1, <1>8
  <1> HIDE DEF s9
  <1>10. /\ s10 \in Seq(Byte) /\ Len(s10) = 22 /\ \A i \in 1..20 : s10[i] = s9[i]
        /\ s10[21] = Hi(p.checksum) /\ s10[22] = Lo(p.checksum)
    <2>0. p.checksum \in Short
      BY DEF Fields
    <2>1. /\ s10 \in Seq(Byte) /\ Len(s10) = Len(s9) + 2
          /\ \A i \in 1..Len(s9) : s10[i] = s9[i]
          /\ s10[Len(s9) + 1] = Hi(p.checksum) /\ s10[Len(s9) + 2] = Lo(p.checksum)
      BY <1>9, <2>0, Extend2, Zenon
    <2> HIDE DEF s10
    <2> QED
      BY <2>1, <1>9
  <1> HIDE DEF s10
  <1>11. /\ \A i \in 1..4 : s10[i] = s2[i]
         /\ \A i \in 5..12 : s10[i] = s4[i]
         /\ \A i \in 13..16 : s10[i] = s6[i]
         /\ \A i \in 17..20 : s10[i] = s9[i]
    BY <1>3, <1>4, <1>5, <1>6, <1>7, <1>8, <1>9, <1>10
  <1>12. Header(p, s10)
    BY <1>1, <1>2, <1>3, <1>4, <1>5, <1>6, <1>7, <1>8, <1>9, <1>10, <1>11 DEF Header
  <1> QED
    BY <1>0, <1>10, <1>12

LEMMA SameHeader ==
    ASSUME NEW p, NEW h, NEW t, Header(p, h), \A i \in 1..22 : t[i] = h[i]
    PROVE  Header(p, t)
  <1>1. /\ t[1] = h[1] /\ t[2] = h[2] /\ t[3] = h[3] /\ t[4] = h[4] /\ t[5] = h[5]
        /\ t[6] = h[6] /\ t[7] = h[7] /\ t[8] = h[8] /\ t[9] = h[9] /\ t[10] = h[10]
        /\ t[11] = h[11] /\ t[12] = h[12] /\ t[13] = h[13] /\ t[14] = h[14] /\ t[15] = h[15]
        /\ t[16] = h[16] /\ t[17] = h[17] /\ t[18] = h[18] /\ t[19] = h[19] /\ t[20] = h[20]
        /\ t[21] = h[21] /\ t[22] = h[22]
    OBVIOUS
  <1> QED
    BY <1>1 DEF Header

LEMMA OneHeader ==
    ASSUME NEW p, NEW h, NEW t, Header(p, h), Header(p, t)
    PROVE  \A i \in 1..22 : t[i] = h[i]
  <1>1. /\ t[1] = h[1] /\ t[2] = h[2] /\ t[3] = h[3] /\ t[4] = h[4] /\ t[5] = h[5]
        /\ t[6] = h[6] /\ t[7] = h[7] /\ t[8] = h[8] /\ t[9] = h[9] /\ t[10] = h[10]
        /\ t[11] = h[11] /\ t[12] = h[12] /\ t[13] = h[13] /\ t[14] = h[14] /\ t[15] = h[15]
        /\ t[16] = h[16] /\ t[17] = h[17] /\ t[18] = h[18] /\ t[19] = h[19] /\ t[20] = h[20]
        /\ t[21] = h[21] /\ t[22] = h[22]
    BY DEF Header
  <1>2. ASSUME NEW i \in 1..22 PROVE t[i] = h[i]
    BY <1>1
  <1> QED
    BY <1>2

LEMMA PacketBytes ==
    ASSUME NEW p, Fields(p), p.data \in Seq(Byte)
    PROVE  LET t == packet_to_buf(p)
           IN  /\ t \in Seq(Byte) /\ Len(t) = 22 + Len(p.data) /\ Header(p, t)
               /\ \A i \in 1..Len(p.data) : t[22 + i] = p.data[i]
  <1> DEFINE h == header_in_char(p)
             d == p.data
             t == packet_to_buf(p)
             B == Byte
  <1>0. h \in Seq(B) /\ Len(h) = 22 /\ Header(p, h) /\ d \in Seq(B)
    BY HeaderBytes
  <1>1. t = h \o d
    BY DEF packet_to_buf
  <1> HIDE DEF h, d, t, B
  <1>2. /\ h \o d \in Seq(B)
        /\ Len(h \o d) = Len(h) + Len(d)
        /\ \A i \in 1 .. Len(h) + Len(d) :
              (h \o d)[i] = IF i <= Len(h) THEN h[i] ELSE d[i - Len(h)]
    BY <1>0, ConcatProperties
  <1>3. Len(d) \in Nat
    BY <1>0
  <1>4. \A i \in 1..22 : t[i] = h[i]
    BY <1>0, <1>1, <1>2, <1>3
  <1>5. \A i \in 1..Len(d) : t[22 + i] = d[i]
    BY <1>0, <1>1, <1>2, <1>3
  <1>6. Header(p, t)
    BY <1>0, <1>4, SameHeader
  <1> QED
    BY <1>0, <1>1, <1>2, <1>5, <1>6 DEF t, d, B

\* What the get_* functions read: the fields that were written.
LEMMA ReadBack ==
    ASSUME NEW p, NEW t, Fields(p), Header(p, t)
    PROVE  /\ get_src(t) = p.src /\ get_dst(t) = p.dst /\ get_seq(t) = p.seq
           /\ get_ack(t) = p.ack /\ get_hlen(t) = p.hlen /\ get_plen(t) = p.plen
           /\ get_flags(t) = p.flags /\ get_advertised_window(t) = p.advertised_window
           /\ get_ext(t) = p.ext /\ get_checksum(t) = p.checksum
  <1>1. \A n \in Short : 256 * Hi(n) + Lo(n) = n
    BY SplitShort
  <1>2. /\ p.seq.hi \in Short /\ p.seq.lo \in Short /\ p.ack.hi \in Short
        /\ p.ack.lo \in Short /\ p.seq = [hi |-> p.seq.hi, lo |-> p.seq.lo]
        /\ p.ack = [hi |-> p.ack.hi, lo |-> p.ack.lo]
    BY DEF Fields, Words
  <1>3. /\ get_src(t) = p.src /\ get_dst(t) = p.dst /\ get_hlen(t) = p.hlen
        /\ get_plen(t) = p.plen
    BY <1>1 DEF Fields, Header, get_src, get_dst, get_hlen, get_plen, Get16
  <1>4. /\ get_flags(t) = p.flags /\ get_ext(t) = p.ext
        /\ get_advertised_window(t) = p.advertised_window /\ get_checksum(t) = p.checksum
    BY <1>1
    DEF Fields, Header, get_flags, get_advertised_window, get_ext, get_checksum, Get8, Get16
  <1>5. get_seq(t) = p.seq
    BY <1>1, <1>2 DEF Header, get_seq, Get32, Get16
  <1>6. get_ack(t) = p.ack
    BY <1>1, <1>2 DEF Header, get_ack, Get32, Get16
  <1> QED
    BY <1>3, <1>4, <1>5, <1>6

LEMMA ReadFields ==
    ASSUME NEW buf \in Seq(Byte), Len(buf) >= 22
    PROVE  Fields(buf_to_packet(buf)) /\ Header(buf_to_packet(buf), buf)
  <1> DEFINE q == buf_to_packet(buf)
  <1>0. \A i \in 1..22 : buf[i] \in Byte
    OBVIOUS
  <1>1. \A a, b \in Byte : /\ 256 * a + b \in Short
                           /\ Hi(256 * a + b) = a /\ Lo(256 * a + b) = b
    BY JoinBytes
  <1>2. /\ q.src = 256 * buf[1] + buf[2] /\ q.dst = 256 * buf[3] + buf[4]
        /\ q.hlen = 256 * buf[13] + buf[14] /\ q.plen = 256 * buf[15] + buf[16]
        /\ q.flags = buf[17] /\ q.advertised_window = 256 * buf[18] + buf[19]
        /\ q.ext = buf[20] /\ q.checksum = 256 * buf[21] + buf[22]
    BY DEF buf_to_packet, get_src, get_dst, get_hlen, get_plen, get_flags, get_ext,
           get_advertised_window, get_checksum, Get8, Get16
  <1>3. /\ q.seq = [hi |-> 256 * buf[5] + buf[6], lo |-> 256 * buf[7] + buf[8]]
        /\ q.ack = [hi |-> 256 * buf[9] + buf[10], lo |-> 256 * buf[11] + buf[12]]
    BY DEF buf_to_packet, get_seq, get_ack, Get32, Get16
  <1> HIDE DEF q
  <1>4. /\ q.flags \in Byte /\ q.ext \in Byte
    BY <1>0, <1>2
  <1>5. q.src \in Short /\ Hi(q.src) = buf[1] /\ Lo(q.src) = buf[2]
    <2>1. buf[1] \in Byte /\ buf[2] \in Byte /\ q.src = 256 * buf[1] + buf[2]
      BY <1>0, <1>2, <1>3
    <2> QED
      BY <1>1, <2>1
  <1>6. q.dst \in Short /\ Hi(q.dst) = buf[3] /\ Lo(q.dst) = buf[4]
    <2>1. buf[3] \in Byte /\ buf[4] \in Byte /\ q.dst = 256 * buf[3] + buf[4]
      BY <1>0, <1>2, <1>3
    <2> QED
      BY <1>1, <2>1
  <1>7. q.hlen \in Short /\ Hi(q.hlen) = buf[13] /\ Lo(q.hlen) = buf[14]
    <2>1. buf[13] \in Byte /\ buf[14] \in Byte /\ q.hlen = 256 * buf[13] + buf[14]
      BY <1>0, <1>2, <1>3
    <2> QED
      BY <1>1, <2>1
  <1>8. q.plen \in Short /\ Hi(q.plen) = buf[15] /\ Lo(q.plen) = buf[16]
    <2>1. buf[15] \in Byte /\ buf[16] \in Byte /\ q.plen = 256 * buf[15] + buf[16]
      BY <1>0, <1>2, <1>3
    <2> QED
      BY <1>1, <2>1
  <1>9. q.advertised_window \in Short /\ Hi(q.advertised_window) = buf[18]
        /\ Lo(q.advertised_window) = buf[19]
    <2>1. buf[18] \in Byte /\ buf[19] \in Byte
          /\ q.advertised_window = 256 * buf[18] + buf[19]
      BY <1>0, <1>2, <1>3
    <2> QED
      BY <1>1, <2>1
  <1>10. q.checksum \in Short /\ Hi(q.checksum) = buf[21] /\ Lo(q.checksum) = buf[22]
    <2>1. buf[21] \in Byte /\ buf[22] \in Byte /\ q.checksum = 256 * buf[21] + buf[22]
      BY <1>0, <1>2, <1>3
    <2> QED
      BY <1>1, <2>1
  <1>11. q.seq.hi \in Short /\ Hi(q.seq.hi) = buf[5] /\ Lo(q.seq.hi) = buf[6]
    <2>1. buf[5] \in Byte /\ buf[6] \in Byte /\ q.seq.hi = 256 * buf[5] + buf[6]
      BY <1>0, <1>2, <1>3
    <2> QED
      BY <1>1, <2>1
  <1>12. q.seq.lo \in Short /\ Hi(q.seq.lo) = buf[7] /\ Lo(q.seq.lo) = buf[8]
    <2>1. buf[7] \in Byte /\ buf[8] \in Byte /\ q.seq.lo = 256 * buf[7] + buf[8]
      BY <1>0, <1>2, <1>3
    <2> QED
      BY <1>1, <2>1
  <1>13. q.ack.hi \in Short /\ Hi(q.ack.hi) = buf[9] /\ Lo(q.ack.hi) = buf[10]
    <2>1. buf[9] \in Byte /\ buf[10] \in Byte /\ q.ack.hi = 256 * buf[9] + buf[10]
      BY <1>0, <1>2, <1>3
    <2> QED
      BY <1>1, <2>1
  <1>14. q.ack.lo \in Short /\ Hi(q.ack.lo) = buf[11] /\ Lo(q.ack.lo) = buf[12]
    <2>1. buf[11] \in Byte /\ buf[12] \in Byte /\ q.ack.lo = 256 * buf[11] + buf[12]
      BY <1>0, <1>2, <1>3
    <2> QED
      BY <1>1, <2>1
  <1>15. q.seq \in Words /\ q.ack \in Words
    BY <1>3, <1>11, <1>12, <1>13, <1>14 DEF Words
  <1>16. Fields(q)
    BY <1>4, <1>5, <1>6, <1>7, <1>8, <1>9, <1>10, <1>15 DEF Fields
  <1>17. Header(q, buf)
    BY <1>2, <1>5, <1>6, <1>7, <1>8, <1>9, <1>10, <1>11, <1>12, <1>13, <1>14 DEF Header
  <1> QED
    BY <1>16, <1>17 DEF q

\* A buffer with a header of the usual length and no data or two bytes.
Whole(buf) ==
    /\ buf \in Seq(Byte) /\ Len(buf) \in {22, 24}
    /\ get_hlen(buf) = 22 /\ get_plen(buf) = Len(buf)

LEMMA ReadData ==
    ASSUME NEW buf, Whole(buf)
    PROVE  LET d == buf_to_packet(buf).data
           IN  /\ d = SubSeq(buf, 23, Len(buf)) /\ d \in Seq(Byte) /\ Len(d) = Len(buf) - 22
               /\ \A i \in 1..Len(d) : d[i] = buf[22 + i]
  <1> DEFINE d == SubSeq(buf, 23, Len(buf))
             n == Len(buf)
  <1>1. buf_to_packet(buf).data = d
    BY DEF buf_to_packet, Whole
  <1>20. n \in {22, 24} /\ buf \in Seq(Byte)
    BY DEF Whole
  <1>2. n \in {22, 24} /\ \A i \in 23..n : buf[i] \in Byte
    <2> SUFFICES ASSUME NEW i \in 23..n PROVE i \in 1..Len(buf)
      BY <1>20
    <2> QED
      BY <1>20
  <1>3. /\ SubSeq(buf, 23, n) \in Seq(Byte)
        /\ Len(SubSeq(buf, 23, n)) = IF 23 <= n THEN n - 23 + 1 ELSE 0
        /\ \A i \in 1 .. n - 23 + 1 : SubSeq(buf, 23, n)[i] = buf[23 + i - 1]
    <2> HIDE DEF n
    <2>1. n \in Int /\ 23 \in Int
      BY <1>2
    <2> QED
      BY <1>2, <2>1, SubSeqProperties
  <1> HIDE DEF d, n
  <1>4. Len(d) = n - 22
    <2>1. Len(d) = IF 23 <= n THEN n - 23 + 1 ELSE 0
      BY <1>3 DEF d, n
    <2>2. CASE n = 22
      BY <2>1, <2>2
    <2>3. CASE n = 24
      BY <2>1, <2>3
    <2> QED
      BY <1>2, <2>2, <2>3
  <1>5. \A i \in 1..Len(d) : d[i] = buf[22 + i]
    <2> SUFFICES ASSUME NEW i \in 1..Len(d) PROVE d[i] = buf[22 + i]
      OBVIOUS
    <2>1. i \in 1 .. n - 23 + 1 /\ 23 + i - 1 = 22 + i
      BY <1>2, <1>4
    <2> QED
      BY <1>3, <2>1 DEF d
  <1> QED
    BY <1>1, <1>3, <1>4, <1>5 DEF d, n

\* packet_to_buf undoes buf_to_packet.
LEMMA RoundTrip ==
    ASSUME NEW buf, Whole(buf)
    PROVE  packet_to_buf(buf_to_packet(buf)) = buf
  <1> DEFINE q == buf_to_packet(buf)
             t == packet_to_buf(q)
             d == q.data
  <1>0. buf \in Seq(Byte) /\ Len(buf) \in {22, 24} /\ Len(buf) >= 22
    <2>1. buf \in Seq(Byte) /\ Len(buf) \in {22, 24}
      BY DEF Whole
    <2>2. CASE Len(buf) = 22
      BY <2>1, <2>2
    <2>3. CASE Len(buf) = 24
      BY <2>1, <2>3
    <2> QED
      BY <2>1, <2>2, <2>3
  <1>1. Fields(q) /\ Header(q, buf)
    BY <1>0, ReadFields
  <1>2. /\ d \in Seq(Byte) /\ Len(d) = Len(buf) - 22
        /\ \A i \in 1..Len(d) : d[i] = buf[22 + i]
    BY ReadData
  <1>3. /\ t \in Seq(Byte) /\ Len(t) = 22 + Len(d) /\ Header(q, t)
        /\ \A i \in 1..Len(d) : t[22 + i] = d[i]
    <2> HIDE DEF q
    <2> QED
      BY <1>1, <1>2, PacketBytes
  <1> HIDE DEF q, t, d
  <1>4. Len(t) = Len(buf)
    BY <1>0, <1>2, <1>3
  <1>5. ASSUME NEW i \in 1..22 PROVE t[i] = buf[i]
    BY <1>1, <1>3, <1>5, OneHeader
  <1>6. \A i \in 23..Len(buf) : t[i] = buf[i]
    <2> SUFFICES ASSUME NEW i \in 23..Len(buf) PROVE t[i] = buf[i]
      OBVIOUS
    <2>1. i - 22 \in 1..Len(d) /\ 22 + (i - 22) = i
      BY <1>0, <1>2
    <2> QED
      BY <2>1, <1>2, <1>3
  <1>7. ASSUME NEW i \in 1..Len(buf) PROVE t[i] = buf[i]
    <2>1. CASE i <= 22
      <3>1. i \in 1..22
        BY <2>1
      <3> QED
        BY <3>1, <1>5
    <2>2. CASE i > 22
      <3>1. i \in 23..Len(buf)
        BY <2>2, <1>0
      <3> QED
        BY <3>1, <1>6
    <2> QED
      BY <2>1, <2>2, <1>0
  <1>8. t = buf
    <2> DEFINE B == Byte
    <2> HIDE DEF B
    <2>1. t \in Seq(B) /\ buf \in Seq(B)
      BY <1>0, <1>3 DEF B
    <2> QED
      BY <2>1, <1>4, <1>7, SeqEqual
  <1> QED
    BY <1>8 DEF t, q
-----------------------------------------------------------------------------
(* The checksum.                                                           *)

LEMMA CharRange == ASSUME NEW b \in Byte PROVE Char(b) \in Int
  BY DEF Char, Byte

DataSum(buf) == IF Len(buf) = 24 THEN Char(buf[23]) + Char(buf[24]) ELSE 0

LEMMA DataSumRange == ASSUME NEW buf, Whole(buf) PROVE DataSum(buf) \in Int
  <1>1. CASE Len(buf) = 24
    <2>0. buf \in Seq(Byte) /\ 23 \in 1..Len(buf) /\ 24 \in 1..Len(buf)
      BY <1>1 DEF Whole
    <2>1. buf[23] \in Byte /\ buf[24] \in Byte
      BY <2>0
    <2> QED
      BY <1>1, <2>1, CharRange DEF DataSum
  <1>2. CASE Len(buf) # 24
    BY <1>2 DEF DataSum
  <1> QED
    BY <1>1, <1>2

LEMMA SumOfData ==
    ASSUME NEW buf, Whole(buf) PROVE CharSum(buf_to_packet(buf).data) = DataSum(buf)
  <1> DEFINE d == buf_to_packet(buf).data
  <1>1. /\ d = SubSeq(buf, 23, Len(buf)) /\ d \in Seq(Byte) /\ Len(d) = Len(buf) - 22
        /\ \A i \in 1..Len(d) : d[i] = buf[22 + i]
    BY ReadData
  <1> HIDE DEF d
  <1>2. CASE Len(buf) = 22
    <2>1. d = <<>>
      BY <1>1, <1>2
    <2> QED
      BY <1>2, <2>1, SumOfNone DEF DataSum, d
  <1>3. CASE Len(buf) = 24
    <2>1. Len(d) = 2
      BY <1>1, <1>3
    <2>20. 1 \in 1..Len(d) /\ 2 \in 1..Len(d) /\ 22 + 1 = 23 /\ 22 + 2 = 24
      BY <2>1
    <2>21. DOMAIN d = 1..Len(d)
      BY <1>1
    <2>22. 1..2 = {1, 2}
      OBVIOUS
    <2>23. d[1] \in Byte /\ d[2] \in Byte
      BY <1>1, <2>20
    <2>2. DOMAIN d = {1, 2} /\ d[1] \in Byte /\ d[2] \in Byte
      BY <2>1, <2>21, <2>22, <2>23, Zenon
    <2>3. d[1] = buf[23] /\ d[2] = buf[24]
      BY <1>1, <2>20
    <2>4. CharSum(d) = Char(d[1]) + Char(d[2])
      BY <2>2, Bytes, SumOfTwo, Zenon
    <2> QED
      BY <1>3, <2>3, <2>4 DEF DataSum, d
  <1> QED
    BY <1>2, <1>3 DEF Whole

\* What tcp_check compares, as a function of the bytes.
Total(buf) ==
    get_src(buf) + get_dst(buf) + get_seq(buf).lo + get_ack(buf).lo + htons(22)
    + htons(Len(buf)) + get_flags(buf) + get_advertised_window(buf) + get_ext(buf)
    + DataSum(buf)

LEMMA PassesMeans ==
    ASSUME NEW buf, Whole(buf)
    PROVE  Passes(buf) <=> get_checksum(buf) = USHRT_MAX - UShort(Total(buf))
  <1> DEFINE q == buf_to_packet(buf)
  <1>1. /\ q.src = get_src(buf) /\ q.dst = get_dst(buf) /\ q.seq = get_seq(buf)
        /\ q.ack = get_ack(buf) /\ q.hlen = 22 /\ q.plen = Len(buf)
        /\ q.flags = get_flags(buf) /\ q.advertised_window = get_advertised_window(buf)
        /\ q.ext = get_ext(buf) /\ q.checksum = get_checksum(buf)
    BY DEF buf_to_packet, Whole
  <1>2. CharSum(q.data) = DataSum(buf)
    BY SumOfData
  <1> HIDE DEF q
  <1>3. tcp_compute_checksum(q) = USHRT_MAX - UShort(Total(buf))
    BY <1>1, <1>2 DEF tcp_compute_checksum, Total
  <1> QED
    BY <1>1, <1>3 DEF Passes, tcp_check, q

LEMMA SumRange ==
    ASSUME NEW data \in Seq(Byte), Len(data) \in {0, 2}
    PROVE  CharSum(data) \in Int
  <1>1. CASE Len(data) = 0
    <2>1. data = <<>>
      BY <1>1
    <2> QED
      BY <2>1, SumOfNone
  <1>2. CASE Len(data) = 2
    <2>1. DOMAIN data = {1, 2}
      <3>1. DOMAIN data = 1..Len(data) /\ 1..2 = {1, 2}
        OBVIOUS
      <3> QED
        BY <1>2, <3>1, Zenon
    <2>2. 1 \in 1..Len(data) /\ 2 \in 1..Len(data)
      BY <1>2
    <2>3. data[1] \in Byte /\ data[2] \in Byte
      BY <2>2
    <2>4. CharSum(data) = Char(data[1]) + Char(data[2])
      BY <2>1, <2>3, Bytes, SumOfTwo, Zenon
    <2> QED
      BY <2>3, <2>4, CharRange
  <1> QED
    BY <1>1, <1>2

\* What create_packet_buf makes passes tcp_check, and reads as it was written.
Fits(src, dst, seq, ack, flags, window, data) ==
    /\ src \in Short /\ dst \in Short /\ seq \in Words /\ ack \in Words
    /\ flags \in Byte /\ window \in Short
    /\ data \in Seq(Byte) /\ Len(data) \in {0, 2}

Reads(buf, src, dst, flags) ==
    /\ Whole(buf) /\ Passes(buf)
    /\ get_src(buf) = src /\ get_dst(buf) = dst /\ get_flags(buf) = flags

LEMMA Makes ==
    ASSUME NEW src, NEW dst, NEW seq, NEW ack, NEW flags, NEW window, NEW data,
           Fits(src, dst, seq, ack, flags, window, data)
    PROVE  Reads(create_packet_buf(src, dst, seq, ack, flags, window, data),
                 src, dst, flags)
  <1>0. /\ src \in Short /\ dst \in Short /\ seq \in Words /\ ack \in Words
        /\ flags \in Byte /\ window \in Short
        /\ data \in Seq(Byte) /\ Len(data) \in {0, 2}
    BY DEF Fits
  <1> USE <1>0
  <1> DEFINE buf == create_packet_buf(src, dst, seq, ack, flags, window, data)
             plen == 22 + Len(data)
             p == create_packet(src, dst, seq, ack, 22, plen, flags, window, 0, data)
             sum == src + dst + seq.lo + ack.lo + htons(22)
                       + htons(plen) + flags + window + 0 + CharSum(data)
  <1>1. buf = packet_to_buf(p)
    BY DEF create_packet_buf, HEADER_LEN
  <1> HIDE DEF buf
  <1>2. plen \in Short /\ plen \in {22, 24}
    <2>1. CASE Len(data) = 0
      BY <2>1 DEF Short
    <2>2. CASE Len(data) = 2
      BY <2>2 DEF Short
    <2> QED
      BY <2>1, <2>2
  <1> HIDE DEF plen
  <1>3. /\ p.src = src /\ p.dst = dst /\ p.seq = seq /\ p.ack = ack /\ p.hlen = 22
        /\ p.plen = plen /\ p.flags = flags /\ p.advertised_window = window
        /\ p.ext = 0 /\ p.data = data /\ p.checksum = USHRT_MAX - UShort(sum)
    <2> DEFINE h == [src |-> src, dst |-> dst, seq |-> seq, ack |-> ack, hlen |-> 22,
                     plen |-> plen, flags |-> flags, advertised_window |-> window,
                     ext |-> 0, checksum |-> 0, data |-> data]
               c == tcp_compute_checksum(h)
    <2>1. p = [h EXCEPT !.checksum = c]
      BY DEF create_packet
    <2>2. c = USHRT_MAX - UShort(sum)
      BY DEF tcp_compute_checksum
    <2> HIDE DEF c, sum
    <2> QED
      BY <2>1, <2>2
  <1> HIDE DEF p
  <1>4. sum \in Int
    <2>1. CharSum(data) \in Int
      BY SumRange
    <2>2. seq.lo \in Int /\ ack.lo \in Int /\ src \in Int /\ dst \in Int /\ flags \in Int
          /\ window \in Int
      BY DEF Words, Short, Byte
    <2>3. htons(22) \in Int /\ htons(plen) \in Int
      BY <1>2 DEF htons, Short
    <2> DEFINE x == htons(22)
               y == htons(plen)
               z == CharSum(data)
               k == seq.lo
               l == ack.lo
    <2>4. x \in Int /\ y \in Int /\ z \in Int /\ k \in Int /\ l \in Int
      BY <2>1, <2>2, <2>3
    <2>5. sum = src + dst + k + l + x + y + flags + window + 0 + z
      OBVIOUS
    <2> HIDE DEF sum, x, y, z, k, l
    <2>6. src + dst + k + l + x + y + flags + window + 0 + z \in Int
      BY <2>2, <2>4
    <2> QED
      BY <2>5, <2>6
  <1> HIDE DEF sum
  <1>5. p.checksum \in Short
    <2>1. UShort(sum) \in Short
      BY <1>4, ShortRange
    <2>2. \A u \in Short : USHRT_MAX - u \in Short
      BY DEF Short, USHRT_MAX
    <2> QED
      BY <1>3, <2>1, <2>2, Zenon
  <1>6. 22 \in Short /\ 0 \in Byte
    BY DEF Short, Byte
  <1>7. Fields(p) /\ p.data \in Seq(Byte)
    BY <1>2, <1>3, <1>5, <1>6, Zenon DEF Fields
  <1>8. /\ buf \in Seq(Byte) /\ Len(buf) = 22 + Len(p.data) /\ Header(p, buf)
        /\ \A i \in 1..Len(p.data) : buf[22 + i] = p.data[i]
    BY <1>1, <1>7, PacketBytes, Zenon
  <1>9. /\ get_src(buf) = src /\ get_dst(buf) = dst /\ get_seq(buf) = seq
        /\ get_ack(buf) = ack /\ get_hlen(buf) = 22 /\ get_plen(buf) = plen
        /\ get_flags(buf) = flags /\ get_advertised_window(buf) = window
        /\ get_ext(buf) = 0 /\ get_checksum(buf) = p.checksum
    <2>1. /\ get_src(buf) = p.src /\ get_dst(buf) = p.dst /\ get_seq(buf) = p.seq
          /\ get_ack(buf) = p.ack /\ get_hlen(buf) = p.hlen /\ get_plen(buf) = p.plen
          /\ get_flags(buf) = p.flags /\ get_advertised_window(buf) = p.advertised_window
          /\ get_ext(buf) = p.ext /\ get_checksum(buf) = p.checksum
      BY <1>7, <1>8, ReadBack, Zenon
    <2> QED
      BY <1>3, <2>1, Zenon
  <1>10. Len(buf) = plen
    BY <1>3, <1>8, Zenon DEF plen
  <1>11. Whole(buf)
    BY <1>2, <1>8, <1>9, <1>10, Zenon DEF Whole
  <1>12. DataSum(buf) = CharSum(data)
    <2>1. buf_to_packet(buf).data = SubSeq(buf, 23, Len(buf))
      BY <1>11, ReadData
    <2> DEFINE e == buf_to_packet(buf).data
    <2>2. /\ e \in Seq(Byte) /\ Len(e) = Len(buf) - 22
          /\ \A i \in 1..Len(e) : e[i] = buf[22 + i]
      BY <1>11, ReadData
    <2> HIDE DEF e
    <2>3. Len(e) = Len(data)
      BY <2>2, <1>3, <1>8
    <2>4. \A i \in 1..Len(e) : e[i] = data[i]
      BY <2>2, <2>3, <1>3, <1>8
    <2>5. e = data
      <3> DEFINE B == Byte
      <3> HIDE DEF B
      <3>1. e \in Seq(B) /\ data \in Seq(B)
        BY <2>2 DEF B
      <3> QED
        BY <3>1, <2>3, <2>4, SeqEqual
    <2> QED
      BY <2>5, <1>11, SumOfData DEF e
  <1>13. Total(buf) = sum
    BY <1>9, <1>10, <1>12, Zenon DEF Total, sum
  <1>14. Passes(buf)
    BY <1>3, <1>9, <1>11, <1>13, PassesMeans, Zenon
  <1> QED
    BY <1>9, <1>11, <1>14, Zenon DEF Reads, buf
-----------------------------------------------------------------------------
(* A damaged byte.                                                         *)

\* The bytes that count 256 times and once in the sum, and their ranges.
High(buf) == buf[1] + buf[3] + buf[7] + buf[11] + buf[18]
Low(buf) == buf[2] + buf[4] + buf[8] + buf[12] + buf[17] + buf[19] + buf[20]
Summed(buf) ==
    /\ buf[1] \in Byte /\ buf[3] \in Byte /\ buf[7] \in Byte /\ buf[11] \in Byte
    /\ buf[18] \in Byte
    /\ buf[2] \in Byte /\ buf[4] \in Byte /\ buf[8] \in Byte /\ buf[12] \in Byte
    /\ buf[17] \in Byte /\ buf[19] \in Byte /\ buf[20] \in Byte
    /\ buf[21] \in Byte /\ buf[22] \in Byte

LEMMA HasHeader ==
    ASSUME NEW buf, Whole(buf)
    PROVE  Len(buf) \in Int /\ Len(buf) >= 22 /\ (Len(buf) = 22 \/ Len(buf) = 24)
  <1>1. Len(buf) = 22 \/ Len(buf) = 24
    BY DEF Whole
  <1> QED
    BY <1>1

LEMMA SummedBytes ==
    ASSUME NEW buf, Whole(buf)
    PROVE  Summed(buf)
  <1>1. buf \in Seq(Byte)
    BY DEF Whole
  <1>2. \A j \in 1..Len(buf) : buf[j] \in Byte
    BY <1>1
  <1>3. Len(buf) \in Int /\ Len(buf) >= 22
    BY HasHeader
  <1>4. \A j \in Int : 1 <= j /\ j <= 22 => buf[j] \in Byte
    BY <1>2, <1>3
  <1> QED
    BY <1>4 DEF Summed

\* The sum, byte by byte, and the checksum that is read.
ByteByByte(buf) ==
    /\ htons(22) + htons(Len(buf)) \in Int /\ DataSum(buf) \in Int
    /\ Total(buf) = 256 * High(buf) + Low(buf)
                    + (htons(22) + htons(Len(buf))) + DataSum(buf)
    /\ get_checksum(buf) = 256 * buf[21] + buf[22]

LEMMA TotalOfBytes ==
    ASSUME NEW buf, Whole(buf)
    PROVE  ByteByByte(buf)
  <1> USE DEF ByteByByte
  <1>2. htons(22) \in Int /\ htons(Len(buf)) \in Int
    <2>1. Len(buf) \in Int
      BY HasHeader
    <2> QED
      BY <2>1 DEF htons
  <1>3. DataSum(buf) \in Int
    BY DataSumRange
  <1>4. /\ get_src(buf) = 256 * buf[1] + buf[2] /\ get_dst(buf) = 256 * buf[3] + buf[4]
        /\ get_seq(buf).lo = 256 * buf[7] + buf[8]
        /\ get_ack(buf).lo = 256 * buf[11] + buf[12]
        /\ get_flags(buf) = buf[17] /\ get_advertised_window(buf) = 256 * buf[18] + buf[19]
        /\ get_ext(buf) = buf[20] /\ get_checksum(buf) = 256 * buf[21] + buf[22]
    BY DEF get_src, get_dst, get_seq, get_ack, get_flags, get_advertised_window, get_ext,
           get_checksum, Get8, Get16, Get32
  <1>5. /\ buf[1] \in Int /\ buf[2] \in Int /\ buf[3] \in Int /\ buf[4] \in Int
        /\ buf[7] \in Int /\ buf[8] \in Int /\ buf[11] \in Int /\ buf[12] \in Int
        /\ buf[17] \in Int /\ buf[18] \in Int /\ buf[19] \in Int /\ buf[20] \in Int
    BY SummedBytes DEF Summed, Byte
  <1> DEFINE h22 == htons(22)
             hn == htons(Len(buf))
             ds == DataSum(buf)
  <1>6. Total(buf) = (256 * buf[1] + buf[2]) + (256 * buf[3] + buf[4])
                     + (256 * buf[7] + buf[8]) + (256 * buf[11] + buf[12]) + h22 + hn
                     + buf[17] + (256 * buf[18] + buf[19]) + buf[20] + ds
    BY <1>4 DEF Total
  <1>7. h22 \in Int /\ hn \in Int /\ ds \in Int
    BY <1>2, <1>3
  <1> HIDE DEF h22, hn, ds
  <1>8. Total(buf) = 256 * High(buf) + Low(buf) + (h22 + hn) + ds
    BY <1>5, <1>6, <1>7 DEF High, Low
  <1> QED
    BY <1>2, <1>3, <1>4, <1>8 DEF h22, hn, ds

LEMMA CharDiffers ==
    ASSUME NEW a \in Byte, NEW b \in Byte, a # b
    PROVE  Char(a) \in Int /\ Char(b) \in Int /\ Char(a) # Char(b)
           /\ Char(a) - Char(b) < 256 /\ Char(b) - Char(a) < 256
  BY DEF Char, Byte

LEMMA SumsAreInts ==
    ASSUME NEW buf, Summed(buf)
    PROVE  High(buf) \in Int /\ Low(buf) \in Int /\ buf[21] \in Int /\ buf[22] \in Int
  <1>1. /\ buf[1] \in Int /\ buf[3] \in Int /\ buf[7] \in Int /\ buf[11] \in Int
        /\ buf[18] \in Int
    BY DEF Summed, Byte
  <1>2. /\ buf[2] \in Int /\ buf[4] \in Int /\ buf[8] \in Int /\ buf[12] \in Int
        /\ buf[17] \in Int /\ buf[19] \in Int /\ buf[20] \in Int
    BY DEF Summed, Byte
  <1>3. High(buf) \in Int
    BY <1>1 DEF High
  <1>4. Low(buf) \in Int
    BY <1>2 DEF Low
  <1>5. buf[21] \in Int /\ buf[22] \in Int
    BY DEF Summed, Byte
  <1> QED
    BY <1>3, <1>4, <1>5

\* bad is buf with another byte i.
Damaged(bad, buf, i) ==
    /\ Whole(buf) /\ Whole(bad) /\ Len(bad) = Len(buf)
    /\ i \in 1..Len(buf) /\ bad[i] # buf[i]
    /\ \A j \in 1..Len(buf) : j # i => bad[j] = buf[j]

\* bad agrees with buf but in byte i, for the bytes that are read below.
Agree(bad, buf, i) ==
    /\ (i # 1 => bad[1] = buf[1]) /\ (i # 2 => bad[2] = buf[2])
    /\ (i # 3 => bad[3] = buf[3]) /\ (i # 4 => bad[4] = buf[4])
    /\ (i # 7 => bad[7] = buf[7]) /\ (i # 8 => bad[8] = buf[8])
    /\ (i # 11 => bad[11] = buf[11]) /\ (i # 12 => bad[12] = buf[12])
    /\ (i # 13 => bad[13] = buf[13]) /\ (i # 14 => bad[14] = buf[14])
    /\ (i # 15 => bad[15] = buf[15]) /\ (i # 16 => bad[16] = buf[16])
    /\ (i # 17 => bad[17] = buf[17]) /\ (i # 18 => bad[18] = buf[18])
    /\ (i # 19 => bad[19] = buf[19]) /\ (i # 20 => bad[20] = buf[20])
    /\ (i # 21 => bad[21] = buf[21]) /\ (i # 22 => bad[22] = buf[22])

LEMMA Agreed ==
    ASSUME NEW buf, Whole(buf), NEW bad, NEW i,
           \A j \in 1..Len(buf) : j # i => bad[j] = buf[j]
    PROVE  Agree(bad, buf, i)
  <1>1. Len(buf) \in Int /\ Len(buf) >= 22
    BY HasHeader
  <1>2. \A j \in Int : 1 <= j /\ j <= 22 /\ j # i => bad[j] = buf[j]
    BY <1>1
  <1> QED
    BY <1>2 DEF Agree

LEMMA HighDiffers ==
    ASSUME NEW buf, NEW bad, NEW i \in {1, 3, 7, 11, 18}, Agree(bad, buf, i),
           Summed(buf), Summed(bad)
    PROVE  /\ Low(bad) = Low(buf) /\ High(bad) \in Int /\ High(buf) \in Int
           /\ High(bad) - High(buf) = bad[i] - buf[i]
  <1>1. Low(bad) = Low(buf)
    BY DEF Agree, Low
  <1>2. /\ buf[1] \in Int /\ buf[3] \in Int /\ buf[7] \in Int /\ buf[11] \in Int
        /\ buf[18] \in Int /\ bad[1] \in Int /\ bad[3] \in Int /\ bad[7] \in Int
        /\ bad[11] \in Int /\ bad[18] \in Int
    BY DEF Summed, Byte
  <1>3. High(bad) \in Int /\ High(buf) \in Int
    BY <1>2 DEF High
  <1>4. CASE i = 1
    <2>1. /\ bad[3] = buf[3] /\ bad[7] = buf[7] /\ bad[11] = buf[11] /\ bad[18] = buf[18]
      BY <1>4 DEF Agree
    <2> QED
      BY <1>1, <1>2, <1>3, <1>4, <2>1 DEF High
  <1>5. CASE i = 3
    <2>1. /\ bad[1] = buf[1] /\ bad[7] = buf[7] /\ bad[11] = buf[11] /\ bad[18] = buf[18]
      BY <1>5 DEF Agree
    <2> QED
      BY <1>1, <1>2, <1>3, <1>5, <2>1 DEF High
  <1>6. CASE i = 7
    <2>1. /\ bad[1] = buf[1] /\ bad[3] = buf[3] /\ bad[11] = buf[11] /\ bad[18] = buf[18]
      BY <1>6 DEF Agree
    <2> QED
      BY <1>1, <1>2, <1>3, <1>6, <2>1 DEF High
  <1>7. CASE i = 11
    <2>1. /\ bad[1] = buf[1] /\ bad[3] = buf[3] /\ bad[7] = buf[7] /\ bad[18] = buf[18]
      BY <1>7 DEF Agree
    <2> QED
      BY <1>1, <1>2, <1>3, <1>7, <2>1 DEF High
  <1>8. CASE i = 18
    <2>1. /\ bad[1] = buf[1] /\ bad[3] = buf[3] /\ bad[7] = buf[7] /\ bad[11] = buf[11]
      BY <1>8 DEF Agree
    <2> QED
      BY <1>1, <1>2, <1>3, <1>8, <2>1 DEF High
  <1> QED
    BY <1>1, <1>3, <1>4, <1>5, <1>6, <1>7, <1>8

LEMMA LowDiffers ==
    ASSUME NEW buf, NEW bad, NEW i \in {2, 4, 8, 12, 17, 19, 20}, Agree(bad, buf, i),
           Summed(buf), Summed(bad)
    PROVE  /\ High(bad) = High(buf) /\ Low(bad) \in Int /\ Low(buf) \in Int
           /\ Low(bad) - Low(buf) = bad[i] - buf[i]
  <1>1. High(bad) = High(buf)
    BY DEF Agree, High
  <1>2. /\ buf[2] \in Int /\ buf[4] \in Int /\ buf[8] \in Int /\ buf[12] \in Int
        /\ buf[17] \in Int /\ buf[19] \in Int /\ buf[20] \in Int /\ bad[2] \in Int
        /\ bad[4] \in Int /\ bad[8] \in Int /\ bad[12] \in Int /\ bad[17] \in Int
        /\ bad[19] \in Int /\ bad[20] \in Int
    BY DEF Summed, Byte
  <1>3. Low(bad) \in Int /\ Low(buf) \in Int
    BY <1>2 DEF Low
  <1>4. CASE i = 2
    <2>1. /\ bad[4] = buf[4] /\ bad[8] = buf[8] /\ bad[12] = buf[12] /\ bad[17] = buf[17]
        /\ bad[19] = buf[19] /\ bad[20] = buf[20]
      BY <1>4 DEF Agree
    <2> QED
      BY <1>1, <1>2, <1>3, <1>4, <2>1 DEF Low
  <1>5. CASE i = 4
    <2>1. /\ bad[2] = buf[2] /\ bad[8] = buf[8] /\ bad[12] = buf[12] /\ bad[17] = buf[17]
        /\ bad[19] = buf[19] /\ bad[20] = buf[20]
      BY <1>5 DEF Agree
    <2> QED
      BY <1>1, <1>2, <1>3, <1>5, <2>1 DEF Low
  <1>6. CASE i = 8
    <2>1. /\ bad[2] = buf[2] /\ bad[4] = buf[4] /\ bad[12] = buf[12] /\ bad[17] = buf[17]
        /\ bad[19] = buf[19] /\ bad[20] = buf[20]
      BY <1>6 DEF Agree
    <2> QED
      BY <1>1, <1>2, <1>3, <1>6, <2>1 DEF Low
  <1>7. CASE i = 12
    <2>1. /\ bad[2] = buf[2] /\ bad[4] = buf[4] /\ bad[8] = buf[8] /\ bad[17] = buf[17]
        /\ bad[19] = buf[19] /\ bad[20] = buf[20]
      BY <1>7 DEF Agree
    <2> QED
      BY <1>1, <1>2, <1>3, <1>7, <2>1 DEF Low
  <1>8. CASE i = 17
    <2>1. /\ bad[2] = buf[2] /\ bad[4] = buf[4] /\ bad[8] = buf[8] /\ bad[12] = buf[12]
        /\ bad[19] = buf[19] /\ bad[20] = buf[20]
      BY <1>8 DEF Agree
    <2> QED
      BY <1>1, <1>2, <1>3, <1>8, <2>1 DEF Low
  <1>9. CASE i = 19
    <2>1. /\ bad[2] = buf[2] /\ bad[4] = buf[4] /\ bad[8] = buf[8] /\ bad[12] = buf[12]
        /\ bad[17] = buf[17] /\ bad[20] = buf[20]
      BY <1>9 DEF Agree
    <2> QED
      BY <1>1, <1>2, <1>3, <1>9, <2>1 DEF Low
  <1>10. CASE i = 20
    <2>1. /\ bad[2] = buf[2] /\ bad[4] = buf[4] /\ bad[8] = buf[8] /\ bad[12] = buf[12]
        /\ bad[17] = buf[17] /\ bad[19] = buf[19]
      BY <1>10 DEF Agree
    <2> QED
      BY <1>1, <1>2, <1>3, <1>10, <2>1 DEF Low
  <1> QED
    BY <1>1, <1>3, <1>4, <1>5, <1>6, <1>7, <1>8, <1>9, <1>10

LEMMA TotalIsInt == ASSUME NEW buf, Whole(buf) PROVE Total(buf) \in Int
  <1> DEFINE c == htons(22) + htons(Len(buf))
             s == DataSum(buf)
  <1>1. High(buf) \in Int /\ Low(buf) \in Int
    BY SummedBytes, SumsAreInts
  <1>2. c \in Int /\ s \in Int /\ Total(buf) = 256 * High(buf) + Low(buf) + c + s
    <2>1. ByteByByte(buf)
      BY TotalOfBytes
    <2> QED
      BY <2>1 DEF ByteByByte
  <1> HIDE DEF c, s
  <1> QED
    BY <1>1, <1>2

\* A changed byte of the sum changes it by less than 65536, so that the rest changes.
LEMMA SumDiffers ==
    ASSUME NEW buf, NEW bad, NEW i, Damaged(bad, buf, i),
           i \notin {5, 6, 9, 10, 13, 14, 15, 16, 21, 22}
    PROVE  UShort(Total(bad)) # UShort(Total(buf))
  <1>0. /\ Whole(buf) /\ Whole(bad) /\ Len(bad) = Len(buf)
        /\ i \in 1..Len(buf) /\ bad[i] # buf[i]
        /\ \A j \in 1..Len(buf) : j # i => bad[j] = buf[j]
    BY DEF Damaged
  <1> DEFINE c == htons(22) + htons(Len(buf))
             s == DataSum(buf)
             t == DataSum(bad)
  <1>1. /\ c \in Int /\ s \in Int /\ t \in Int
        /\ Total(buf) = 256 * High(buf) + Low(buf) + c + s
        /\ Total(bad) = 256 * High(bad) + Low(bad) + c + t
    <2>0. ByteByByte(buf) /\ ByteByByte(bad)
      BY <1>0, TotalOfBytes
    <2>1. /\ c \in Int /\ s \in Int /\ Total(buf) = 256 * High(buf) + Low(buf) + c + s
      BY <2>0 DEF ByteByByte
    <2>2. /\ t \in Int
          /\ Total(bad) = 256 * High(bad) + Low(bad) + (htons(22) + htons(Len(bad))) + t
      BY <2>0 DEF ByteByByte
    <2> QED
      BY <1>0, <2>1, <2>2
  <1> HIDE DEF c
  <1>2. Summed(buf) /\ Summed(bad) /\ Agree(bad, buf, i)
    BY <1>0, SummedBytes, Agreed
  <1>3. Len(buf) \in Int /\ Len(buf) >= 22 /\ (Len(buf) = 22 \/ Len(buf) = 24)
    BY <1>0, HasHeader
  <1>4. bad[i] \in Byte /\ buf[i] \in Byte
    <2>1. buf \in Seq(Byte) /\ bad \in Seq(Byte)
      BY <1>0 DEF Whole
    <2> QED
      BY <1>0, <2>1
  <1>5. /\ bad[i] \in Int /\ buf[i] \in Int
        /\ bad[i] - buf[i] < 256 /\ buf[i] - bad[i] < 256
    BY <1>4 DEF Byte
  <1>6. /\ High(buf) \in Int /\ High(bad) \in Int /\ Low(buf) \in Int /\ Low(bad) \in Int
    BY <1>2, SumsAreInts
  <1>7. \A m, n \in Int : m - n < 65536 /\ n - m < 65536 /\ m # n => UShort(m) # UShort(n)
    BY SameRest
  <1>8. CASE i <= 22
    <2>1. s = t
      <3>1. CASE Len(buf) = 24
        <4>1. 23 \in 1..Len(buf) /\ 24 \in 1..Len(buf) /\ i # 23 /\ i # 24
          BY <3>1, <1>8
        <4>2. bad[23] = buf[23] /\ bad[24] = buf[24]
          BY <1>0, <4>1
        <4> QED
          BY <1>0, <4>2, <3>1 DEF DataSum
      <3> QED
        BY <1>0, <3>1, <1>3 DEF DataSum
    <2> HIDE DEF s, t
    <2>2. i \in {1, 3, 7, 11, 18} \/ i \in {2, 4, 8, 12, 17, 19, 20}
      BY <1>0, <1>8, <1>3
    <2>3. CASE i \in {1, 3, 7, 11, 18}
      <3>1. /\ Low(bad) = Low(buf) /\ High(bad) - High(buf) = bad[i] - buf[i]
        BY <1>2, <2>3, HighDiffers
      <3>2. Total(bad) \in Int /\ Total(buf) \in Int
            /\ Total(bad) - Total(buf) = 256 * (bad[i] - buf[i])
        BY <1>1, <1>5, <1>6, <2>1, <3>1
      <3>3. /\ Total(bad) - Total(buf) < 65536 /\ Total(buf) - Total(bad) < 65536
            /\ Total(bad) # Total(buf)
        BY <1>0, <1>5, <3>2
      <3> QED
        BY <1>7, <3>2, <3>3
    <2>4. CASE i \in {2, 4, 8, 12, 17, 19, 20}
      <3>1. /\ High(bad) = High(buf) /\ Low(bad) - Low(buf) = bad[i] - buf[i]
        BY <1>2, <2>4, LowDiffers
      <3>2. Total(bad) \in Int /\ Total(buf) \in Int
            /\ Total(bad) - Total(buf) = bad[i] - buf[i]
        BY <1>1, <1>5, <1>6, <2>1, <3>1
      <3>3. /\ Total(bad) - Total(buf) < 65536 /\ Total(buf) - Total(bad) < 65536
            /\ Total(bad) # Total(buf)
        BY <1>0, <1>5, <3>2
      <3> QED
        BY <1>7, <3>2, <3>3
    <2> QED
      BY <2>2, <2>3, <2>4
  <1>9. CASE i > 22
    <2>1. Len(buf) = 24 /\ (i = 23 \/ i = 24)
      <3>1. i \in Int /\ i <= Len(buf)
        BY <1>0, <1>3
      <3>2. Len(buf) = 24
        <4> DEFINE n == Len(buf)
        <4>1. n \in Int /\ i <= n /\ (n = 22 \/ n = 24)
          BY <1>3, <3>1
        <4> HIDE DEF n
        <4>2. n # 22
          BY <1>9, <3>1, <4>1
        <4> QED
          BY <4>1, <4>2 DEF n
      <3>3. i <= 24 /\ i > 22
        BY <1>9, <3>1, <3>2
      <3>4. \A k \in Int : k <= 24 /\ k > 22 => k = 23 \/ k = 24
        OBVIOUS
      <3> QED
        BY <3>1, <3>2, <3>3, <3>4
    <2>2. High(bad) = High(buf) /\ Low(bad) = Low(buf)
      BY <1>2, <2>1 DEF Agree, High, Low
    <2>3. /\ Char(bad[i]) \in Int /\ Char(buf[i]) \in Int /\ Char(bad[i]) # Char(buf[i])
          /\ Char(bad[i]) - Char(buf[i]) < 256 /\ Char(buf[i]) - Char(bad[i]) < 256
      BY <1>0, <1>4, CharDiffers
    <2>4. s = Char(buf[23]) + Char(buf[24]) /\ t = Char(bad[23]) + Char(bad[24])
      BY <1>0, <2>1 DEF DataSum
    <2> HIDE DEF s, t
    <2>5. 23 \in 1..Len(buf) /\ 24 \in 1..Len(buf)
      BY <2>1
    <2>6. Char(buf[23]) \in Int /\ Char(buf[24]) \in Int
      <3>1. buf \in Seq(Byte)
        BY <1>0 DEF Whole
      <3>2. buf[23] \in Byte /\ buf[24] \in Byte
        BY <1>0, <2>5, <3>1
      <3> QED
        BY <3>2, CharRange
    <2>7. t - s = Char(bad[i]) - Char(buf[i])
      <3>1. CASE i = 23
        <4>1. bad[24] = buf[24]
          BY <1>0, <2>5, <3>1
        <4> QED
          BY <2>3, <2>4, <2>6, <3>1, <4>1
      <3>2. CASE i = 24
        <4>1. bad[23] = buf[23]
          BY <1>0, <2>5, <3>2
        <4> QED
          BY <2>3, <2>4, <2>6, <3>2, <4>1
      <3> QED
        BY <2>1, <3>1, <3>2
    <2>8. Total(bad) \in Int /\ Total(buf) \in Int /\ Total(bad) - Total(buf) = t - s
      BY <1>1, <1>6, <2>2
    <2>9. /\ Total(bad) - Total(buf) < 65536 /\ Total(buf) - Total(bad) < 65536
          /\ Total(bad) # Total(buf)
      BY <1>1, <2>3, <2>7, <2>8
    <2> QED
      BY <1>7, <2>8, <2>9
  <1> QED
    BY <1>0, <1>3, <1>8, <1>9

LEMMA ShortsDiffer ==
    ASSUME NEW a \in Int, NEW b \in Int, NEW c \in Int, a # b
    PROVE  256 * a + c # 256 * b + c /\ 256 * c + a # 256 * c + b
  OBVIOUS

\* A changed byte of the checksum leaves the sum, and changes the checksum that is read.
LEMMA ChecksumDiffers ==
    ASSUME NEW buf, NEW bad, NEW i, Damaged(bad, buf, i), i \in {21, 22}
    PROVE  Total(bad) = Total(buf) /\ get_checksum(bad) # get_checksum(buf)
  <1>0. /\ Whole(buf) /\ Whole(bad) /\ Len(bad) = Len(buf)
        /\ i \in 1..Len(buf) /\ bad[i] # buf[i]
        /\ \A j \in 1..Len(buf) : j # i => bad[j] = buf[j]
    BY DEF Damaged
  <1>1. ByteByByte(buf) /\ ByteByByte(bad)
    BY <1>0, TotalOfBytes
  <1>2. Agree(bad, buf, i)
    BY <1>0, Agreed
  <1>3. High(bad) = High(buf) /\ Low(bad) = Low(buf)
    BY <1>2 DEF Agree, High, Low
  <1>4. DataSum(bad) = DataSum(buf)
    <2>1. CASE Len(buf) = 24
      <3>1. 23 \in 1..Len(buf) /\ 24 \in 1..Len(buf) /\ i # 23 /\ i # 24
        BY <2>1
      <3>2. bad[23] = buf[23] /\ bad[24] = buf[24]
        BY <1>0, <3>1
      <3> QED
        BY <1>0, <3>2, <2>1 DEF DataSum
    <2> QED
      BY <2>1, <1>0 DEF DataSum
  <1>5. Total(bad) = Total(buf)
    BY <1>0, <1>1, <1>3, <1>4 DEF ByteByByte
  <1>6. /\ get_checksum(buf) = 256 * buf[21] + buf[22]
        /\ get_checksum(bad) = 256 * bad[21] + bad[22]
    BY <1>1 DEF ByteByByte
  <1>7. /\ bad[21] \in Int /\ bad[22] \in Int /\ buf[21] \in Int /\ buf[22] \in Int
    BY <1>0, SummedBytes, SumsAreInts
  <1>8. CASE i = 21
    <2>1. bad[22] = buf[22] /\ bad[21] # buf[21]
      BY <1>0, <1>2, <1>8 DEF Agree
    <2>2. 256 * bad[21] + buf[22] # 256 * buf[21] + buf[22]
      <3> DEFINE x == bad[21]
                 y == buf[21]
                 z == buf[22]
      <3>1. x \in Int /\ y \in Int /\ z \in Int /\ x # y
        BY <1>7, <2>1
      <3> HIDE DEF x, y, z
      <3>2. 256 * x + z # 256 * y + z
        BY <3>1, ShortsDiffer
      <3> QED
        BY <3>2 DEF x, y, z
    <2> QED
      BY <1>5, <1>6, <2>1, <2>2
  <1>9. CASE i = 22
    <2>1. bad[21] = buf[21] /\ bad[22] # buf[22]
      BY <1>0, <1>2, <1>9 DEF Agree
    <2>2. 256 * buf[21] + bad[22] # 256 * buf[21] + buf[22]
      <3> DEFINE x == bad[22]
                 y == buf[22]
                 z == buf[21]
      <3>1. x \in Int /\ y \in Int /\ z \in Int /\ x # y
        BY <1>7, <2>1
      <3> HIDE DEF x, y, z
      <3>2. 256 * z + x # 256 * z + y
        BY <3>1, ShortsDiffer
      <3> QED
        BY <3>2 DEF x, y, z
    <2> QED
      BY <1>5, <1>6, <2>1, <2>2
  <1> QED
    BY <1>8, <1>9

\* What the network does to a packet is noticed, or leaves its ports, flags and lengths.
LEMMA DamageShows ==
    ASSUME NEW buf, Whole(buf), Passes(buf), NEW d \in Deltas,
           NEW i \in (DOMAIN buf) \ (13..16),
           NEW bad, bad = [buf EXCEPT ![i] = (buf[i] + d) % 256], Passes(bad)
    PROVE  /\ i \in {5, 6, 9, 10}
           /\ Whole(bad) /\ get_src(bad) = get_src(buf) /\ get_dst(bad) = get_dst(buf)
           /\ get_flags(bad) = get_flags(buf)
  <1>1. buf \in Seq(Byte) /\ DOMAIN buf = 1..Len(buf)
    BY DEF Whole
  <1>2. i \in 1..Len(buf) /\ i \notin {13, 14, 15, 16}
    BY <1>1
  <1>3. d \in Int /\ 1 <= d /\ d < 256
    <2>1. d \in 1..255
      BY ListenerAssumption
    <2> QED
      BY <2>1
  <1>4. buf[i] \in Byte
    BY <1>1, <1>2
  <1>5. \A b \in Byte : (b + d) % 256 \in Byte /\ (b + d) % 256 # b
    BY <1>3 DEF Byte
  <1> DEFINE e == (buf[i] + d) % 256
  <1>6. e \in Byte /\ e # buf[i]
    BY <1>4, <1>5
  <1> HIDE DEF e
  <1>7. bad = [buf EXCEPT ![i] = e]
    BY DEF e
  <1>8. bad \in Seq(Byte) /\ Len(bad) = Len(buf) /\ bad[i] = e
        /\ \A j \in 1..Len(buf) : j # i => bad[j] = buf[j]
    <2> DEFINE B == Byte
    <2> HIDE DEF B
    <2>1. buf \in Seq(B) /\ e \in B
      BY <1>1, <1>6 DEF B
    <2>2. bad \in Seq(B) /\ Len(bad) = Len(buf)
      BY <1>2, <1>7, <2>1, ExceptSeq
    <2> QED
      BY <1>1, <1>2, <1>7, <2>2 DEF B
  <1>9. Agree(bad, buf, i)
    BY <1>8, Agreed
  <1>10. Whole(bad)
    <2>1. get_hlen(bad) = get_hlen(buf) /\ get_plen(bad) = get_plen(buf)
      BY <1>2, <1>9 DEF Agree, get_hlen, get_plen, Get16
    <2> QED
      BY <1>8, <2>1 DEF Whole
  <1>11. /\ get_checksum(buf) = USHRT_MAX - UShort(Total(buf))
         /\ get_checksum(bad) = USHRT_MAX - UShort(Total(bad))
    BY <1>10, PassesMeans
  <1>12. Total(buf) \in Int /\ Total(bad) \in Int
    BY <1>10, TotalIsInt
  <1>13. UShort(Total(buf)) \in Int /\ UShort(Total(bad)) \in Int
    BY <1>12 DEF UShort
  <1>131. Damaged(bad, buf, i)
    BY <1>2, <1>6, <1>8, <1>10 DEF Damaged
  <1>14. CASE i \in {21, 22}
    <2>1. Total(bad) = Total(buf) /\ get_checksum(bad) # get_checksum(buf)
      BY <1>131, <1>14, ChecksumDiffers
    <2> QED
      BY <1>11, <2>1
  <1>15. CASE i \notin {5, 6, 9, 10, 21, 22}
    <2>1. i \notin {5, 6, 9, 10, 13, 14, 15, 16, 21, 22}
      BY <1>2, <1>15
    <2>2. UShort(Total(bad)) # UShort(Total(buf))
      BY <1>131, <2>1, SumDiffers
    <2>3. get_checksum(bad) # get_checksum(buf)
      <3> USHRT_MAX \in Int
        BY DEF USHRT_MAX
      <3> QED
        BY <1>11, <1>13, <2>2
    <2>4. get_checksum(bad) = get_checksum(buf)
      BY <1>9, <1>15 DEF Agree, get_checksum, Get16
    <2> QED
      BY <2>3, <2>4
  <1>16. i \in {5, 6, 9, 10}
    BY <1>14, <1>15
  <1>17. /\ get_src(bad) = get_src(buf) /\ get_dst(bad) = get_dst(buf)
         /\ get_flags(bad) = get_flags(buf)
    BY <1>9, <1>16 DEF Agree, get_src, get_dst, get_flags, Get16, Get8
  <1> QED
    BY <1>10, <1>16, <1>17
-----------------------------------------------------------------------------
(* The inductive invariant.                                                *)

\* The packets under way: a client's, or the listener's SYN_ACK.
FromClient(buf) ==
    /\ get_src(buf) \in Ports /\ get_dst(buf) = ServerPort
    /\ get_flags(buf) \in {SYN, ACK, NO_FLAG}
FromServer(buf) ==
    get_src(buf) = ServerPort /\ get_dst(buf) \in Ports /\ get_flags(buf) = SYN + ACK
Good(buf) == Whole(buf) /\ Passes(buf) /\ (FromClient(buf) \/ FromServer(buf))

\* The SYN of client p was answered: the SYN_ACK or the ACK is in bufs.
Answers(buf, p) ==
    \/ FromServer(buf) /\ get_dst(buf) = p
    \/ FromClient(buf) /\ get_src(buf) = p /\ get_flags(buf) = ACK
Answered(bufs, p) == \E buf \in bufs : Answers(buf, p)

Slots == {Slot(p) : p \in Ports}
Phases == {"LISTEN", "SYN_RECV", "ESTABLISHED"}
Queues == [list : Seq(Sockets), size : 0..MAX_QUEUE]

NetInv ==
    /\ \A buf \in net : Good(buf)
    /\ deceived = FALSE

PhaseInv ==
    /\ client \in [Ports -> {"closed", "SYN_SENT", "ESTABLISHED", "wrote"}]
    /\ listen_state \in [Slots -> Phases]
    /\ \A p \in Ports : Answered(net, p) => listen_state[Slot(p)] # "LISTEN"

\* With saved_syn 0, an ACK can only come from the one client in syn_queue.
SynInv ==
    /\ syn_queue \in Queues /\ saved_syn \in 0..MAX_QUEUE
    /\ Len(syn_queue.list) <= syn_queue.size
    /\ saved_syn # 0 => syn_queue.list # <<>>
    /\ saved_syn = 0 =>
          \A p \in Ports : listen_state[Slot(p)] = "SYN_RECV" /\ Answered(net, p)
                           => syn_queue.list = <<p>>

AcceptInv ==
    /\ accept_queue \in Queues /\ accepted \in Seq(Sockets) /\ popped \in Nat
    /\ push \in [at : {"ready", "link", "count", "store"}, sock : Sockets, tail : Nat,
                 size : 0..MAX_QUEUE]
    /\ accept \in [at : {"poll", "pop", "count", "store"}, size : 0..MAX_QUEUE]
    /\ push.at \in {"link", "count"} => accept_queue.size < MAX_QUEUE
    /\ push.at = "store" => push.size < MAX_QUEUE
    /\ accept.at \in {"pop", "count"} => accept_queue.size > 0
    /\ accept.at = "store" => accept.size > 0

\* Until a push meets a pop, size is the length of the list but for those under way.
CountInv ==
    /\ raced \in BOOLEAN /\ crashed \in BOOLEAN
    /\ ~raced =>
          /\ crashed = FALSE
          /\ accept_queue.size = Len(accept_queue.list)
                                 + (IF accept.at \in {"count", "store"} THEN 1 ELSE 0)
                                 - (IF push.at \in {"count", "store"} THEN 1 ELSE 0)
          /\ accept.at = "pop" => accept_queue.list # <<>>
          /\ accept.at \in {"count", "store"} => accepted # <<>>

\* Until handshakes overlap, syn_queue counts the clients that came so far.
OrderInv ==
    /\ overlapped \in BOOLEAN /\ completed \in Seq(Ports)
    /\ ~overlapped =>
          /\ saved_syn = 0
          /\ syn_queue.list # <<>> =>
                \E p \in Ports : /\ syn_queue.list = <<p>>
                                 /\ listen_state[Slot(p)] = "SYN_RECV"
          /\ syn_queue.size = Len(completed) + Len(syn_queue.list)
    /\ AcceptsCompleted

ListenerInv == NetInv /\ PhaseInv /\ SynInv /\ AcceptInv /\ CountInv /\ OrderInv
-----------------------------------------------------------------------------
(* The packets that are sent.                                              *)

LEMMA Small == 0 \in Byte /\ SYN \in Byte /\ ACK \in Byte /\ NO_FLAG \in Byte
               /\ SYN + ACK \in Byte /\ SYN # ACK /\ SYN + ACK # ACK /\ NO_FLAG # ACK
               /\ SYN # SYN + ACK /\ NO_FLAG # SYN + ACK /\ ACK # SYN + ACK
  BY DEF Byte, SYN, ACK, NO_FLAG

LEMMA NoData == <<>> \in Seq(Byte) /\ Len(<<>>) \in {0, 2}
  OBVIOUS

LEMMA TwoBytes == <<200, 7>> \in Seq(Byte) /\ Len(<<200, 7>>) \in {0, 2}
  <1>1. 200 \in Byte /\ 7 \in Byte
    BY DEF Byte
  <1> QED
    BY <1>1

LEMMA ZeroShort == 0 \in Short
  BY DEF Short

LEMMA ZeroWord == Zero \in Words
  <1>1. UShort(0 \div 65536) \in Short /\ UShort(0) \in Short
    BY DEF UShort, Short
  <1> QED
    BY <1>1 DEF Zero, Word, Words

LEMMA PlusWord ==
    ASSUME NEW w \in Words, NEW n \in Nat PROVE Plus(w, n) \in Words
  <1>1. w.hi \in Int /\ w.lo \in Int
    BY DEF Words, Short
  <1>2. w.hi + ((w.lo + n) \div 65536) \in Int /\ w.lo + n \in Int
    BY <1>1
  <1>3. UShort(w.hi + ((w.lo + n) \div 65536)) \in Short /\ UShort(w.lo + n) \in Short
    BY <1>2, ShortRange
  <1> QED
    BY <1>3 DEF Plus, Words

LEMMA SeqWord == ASSUME NEW buf, Whole(buf) PROVE get_seq(buf) \in Words
  <1>1. buf \in Seq(Byte) /\ Len(buf) >= 22
    BY HasHeader DEF Whole
  <1>2. buf_to_packet(buf).seq \in Words
    BY <1>1, ReadFields DEF Fields
  <1> QED
    BY <1>2 DEF buf_to_packet

LEMMA PortShort == ASSUME NEW p \in Ports PROVE p \in Short /\ p # ServerPort
  <1>1. p # ServerPort
    BY ListenerAssumption
  <1> QED
    BY <1>1, PortsAreShort

LEMMA SynIsGood ==
    ASSUME NEW p \in Ports, NEW buf, buf = Syn(p) \/ buf = tcp_send_syn(p)
    PROVE  Good(buf) /\ \A q \in Ports : ~Answers(buf, q)
  <1>1. /\ p \in Short /\ ServerPort \in Short /\ Window \in Short /\ 0 \in Short
        /\ Zero \in Words /\ SYN \in Byte /\ <<>> \in Seq(Byte) /\ Len(<<>>) \in {0, 2}
    BY PortShort, PortsAreShort, ZeroShort, ZeroWord, Small, NoData
  <1>2. /\ Whole(buf) /\ Passes(buf) /\ get_src(buf) = p /\ get_dst(buf) = ServerPort
        /\ get_flags(buf) = SYN
    <2>1. CASE buf = Syn(p)
      <3>1. buf = create_packet_buf(p, ServerPort, Zero, Zero, SYN, Window, <<>>)
        BY <2>1 DEF Syn
      <3>2. Fits(p, ServerPort, Zero, Zero, SYN, Window, <<>>)
        BY <1>1, Zenon DEF Fits
      <3> QED
        BY <3>1, <3>2, Makes DEF Reads
    <2>2. CASE buf = tcp_send_syn(p)
      <3>1. buf = create_packet_buf(p, ServerPort, Zero, Zero, SYN, 0, <<>>)
        BY <2>2 DEF tcp_send_syn
      <3>2. Fits(p, ServerPort, Zero, Zero, SYN, 0, <<>>)
        BY <1>1, Zenon DEF Fits
      <3> QED
        BY <3>1, <3>2, Makes DEF Reads
    <2> QED
      BY <2>1, <2>2
  <1> QED
    BY <1>2, Small DEF Good, FromClient, FromServer, Answers

LEMMA DataIsGood ==
    ASSUME NEW p \in Ports
    PROVE  Good(Data(p)) /\ \A q \in Ports : ~Answers(Data(p), q)
  <1> DEFINE buf == Data(p)
  <1>1. /\ p \in Short /\ ServerPort \in Short /\ Window \in Short
        /\ Zero \in Words /\ NO_FLAG \in Byte
        /\ <<200, 7>> \in Seq(Byte) /\ Len(<<200, 7>>) \in {0, 2}
    BY PortShort, PortsAreShort, ZeroWord, Small, TwoBytes
  <1>2. buf = create_packet_buf(p, ServerPort, Zero, Zero, NO_FLAG, Window, <<200, 7>>)
    BY DEF Data
  <1> HIDE DEF buf
  <1>3. /\ Whole(buf) /\ Passes(buf) /\ get_src(buf) = p /\ get_dst(buf) = ServerPort
        /\ get_flags(buf) = NO_FLAG
    <2>1. Fits(p, ServerPort, Zero, Zero, NO_FLAG, Window, <<200, 7>>)
      BY <1>1 DEF Fits
    <2> QED
      BY <1>2, <2>1, Makes DEF Reads
  <1>4. Good(buf) /\ \A q \in Ports : ~Answers(buf, q)
    BY <1>3, Small DEF Good, FromClient, FromServer, Answers
  <1> QED
    BY <1>4 DEF buf

\* The client's ACK goes out for the SYN_ACK it replaces.
LEMMA AnswerIsGood ==
    ASSUME NEW syn_ack, Good(syn_ack), NEW p \in Ports, get_dst(syn_ack) = p
    PROVE  /\ Good(Answer(syn_ack)) /\ Answers(syn_ack, p)
           /\ \A q \in Ports : Answers(Answer(syn_ack), q) => q = p
  <1> DEFINE buf == Answer(syn_ack)
             w == Plus(get_seq(syn_ack), 1)
  <1>1. FromServer(syn_ack)
    BY PortShort DEF Good, FromClient
  <1>2. /\ p \in Short /\ ServerPort \in Short /\ Window \in Short /\ ACK \in Byte
        /\ <<>> \in Seq(Byte) /\ Len(<<>>) \in {0, 2}
    BY PortShort, PortsAreShort, Small, NoData
  <1>3. w \in Words
    BY SeqWord, PlusWord DEF Good
  <1>4. buf = create_packet_buf(p, ServerPort, w, w, ACK, Window, <<>>)
    BY <1>1 DEF Answer, FromServer
  <1> HIDE DEF buf, w
  <1>5. /\ Whole(buf) /\ Passes(buf) /\ get_src(buf) = p /\ get_dst(buf) = ServerPort
        /\ get_flags(buf) = ACK
    <2>1. Fits(p, ServerPort, w, w, ACK, Window, <<>>)
      BY <1>2, <1>3, Zenon DEF Fits
    <2> QED
      BY <1>4, <2>1, Makes DEF Reads
  <1>6. Good(buf) /\ \A q \in Ports : Answers(buf, q) => q = p
    BY <1>5, Small, PortShort DEF Good, FromClient, FromServer, Answers
  <1> QED
    BY <1>1, <1>6 DEF buf, Answers

\* The listener's SYN_ACK.
LEMMA SynAckIsGood ==
    ASSUME NEW syn, Good(syn), FromClient(syn)
    PROVE  LET buf == build_state_pkt(syn, SYN + ACK, Window)
           IN  Good(buf) /\ \A q \in Ports : Answers(buf, q) => q = get_src(syn)
  <1> DEFINE buf == build_state_pkt(syn, SYN + ACK, Window)
             p == get_src(syn)
             w == Plus(get_seq(syn), HEADER_LEN)
             v == Plus(get_seq(syn), 1)
  <1>1. p \in Ports /\ get_dst(syn) = ServerPort
    BY DEF FromClient
  <1>2. /\ p \in Short /\ ServerPort \in Short /\ Window \in Short /\ SYN + ACK \in Byte
        /\ <<>> \in Seq(Byte) /\ Len(<<>>) \in {0, 2}
    BY <1>1, PortShort, PortsAreShort, Small, NoData
  <1>3. w \in Words /\ v \in Words
    <2> HEADER_LEN \in Nat
      BY DEF HEADER_LEN
    <2> QED
      BY SeqWord, PlusWord DEF Good
  <1>4. buf = create_packet_buf(ServerPort, p, w, v, SYN + ACK, Window, <<>>)
    BY <1>1 DEF build_state_pkt
  <1> HIDE DEF buf, w, v, p
  <1>5. /\ Whole(buf) /\ Passes(buf) /\ get_src(buf) = ServerPort /\ get_dst(buf) = p
        /\ get_flags(buf) = SYN + ACK
    <2>1. Fits(ServerPort, p, w, v, SYN + ACK, Window, <<>>)
      BY <1>2, <1>3, Zenon DEF Fits
    <2> QED
      BY <1>4, <2>1, Makes DEF Reads
  <1>6. Good(buf) /\ \A q \in Ports : Answers(buf, q) => q = p
    BY <1>1, <1>5, Small DEF Good, FromClient, FromServer, Answers
  <1> QED
    BY <1>6 DEF buf, p
-----------------------------------------------------------------------------
(* Init and the steps of the clients and the network.                      *)

LEMMA InitInv == Init => ListenerInv
  <1> SUFFICES ASSUME Init PROVE ListenerInv
    OBVIOUS
  <1> USE DEF Init
  <1>0. MAX_QUEUE \in Nat
    BY ListenerAssumption
  <1>1. NetInv
    BY DEF NetInv
  <1>2. PhaseInv
    BY DEF PhaseInv, Slots, Phases, Answered
  <1>3. sockqueue_init \in Queues
    BY <1>0 DEF sockqueue_init, Queues
  <1>4. SynInv
    BY <1>0, <1>3 DEF SynInv, Answered, sockqueue_init
  <1>5. AcceptInv
    <2>1. Ready \in [at : {"ready", "link", "count", "store"}, sock : Sockets, tail : Nat,
                     size : 0..MAX_QUEUE]
      BY <1>0 DEF Ready, Sockets
    <2> QED
      BY <1>0, <1>3, <2>1 DEF AcceptInv, Ready
  <1>6. /\ accept_queue.list = <<>> /\ accept_queue.size = 0
         /\ syn_queue.list = <<>> /\ syn_queue.size = 0 /\ saved_syn = 0
         /\ push.at = "ready" /\ accept.at = "poll"
         /\ raced = FALSE /\ crashed = FALSE /\ overlapped = FALSE
         /\ accepted = <<>> /\ completed = <<>>
    BY DEF sockqueue_init, Ready
  <1>7. "poll" \notin {"count", "store"} /\ "ready" \notin {"count", "store"}
         /\ "poll" # "pop" /\ "ready" # "link"
    OBVIOUS
  <1> HIDE DEF Init
  <1>8. CountInv
    <2>1. Len(accept_queue.list) = 0
      BY <1>6
    <2>2. raced \in BOOLEAN /\ crashed \in BOOLEAN
      BY <1>6, Zenon
    <2>3. accept_queue.size = Len(accept_queue.list)
                              + (IF accept.at \in {"count", "store"} THEN 1 ELSE 0)
                              - (IF push.at \in {"count", "store"} THEN 1 ELSE 0)
      BY <1>6, <1>7, <2>1
    <2>4. accept.at # "pop" /\ accept.at \notin {"count", "store"}
      BY <1>6, <1>7
    <2> QED
      BY <1>6, <2>2, <2>3, <2>4, Zenon DEF CountInv
  <1>9. OrderInv
    <2>1. completed \in Seq(Ports) /\ Len(completed) = 0 /\ Len(syn_queue.list) = 0
      BY <1>6
    <2>2. completed = accepted \o accept_queue.list \o <<>>
      BY <1>6
    <2>3. overlapped \in BOOLEAN
      BY <1>6, Zenon
    <2>4. syn_queue.size = Len(completed) + Len(syn_queue.list)
      BY <1>6, <2>1
    <2>5. AcceptsCompleted
      BY <1>6, <1>7, <2>2, Zenon DEF AcceptsCompleted
    <2> QED
      BY <1>6, <2>1, <2>3, <2>4, <2>5, Zenon DEF OrderInv
  <1> QED
    BY <1>1, <1>2, <1>4, <1>5, <1>8, <1>9 DEF ListenerInv

\* A step of a client or of the network leaves the server alone and answers no SYN.
LEMMA Quiet ==
    ASSUME ListenerInv,
           UNCHANGED <<server, queue, application, crashed, completed, overlapped>>,
           client' \in [Ports -> {"closed", "SYN_SENT", "ESTABLISHED", "wrote"}],
           deceived' = FALSE,
           \A buf \in net' : Good(buf),
           \A p \in Ports : Answered(net', p) => Answered(net, p)
    PROVE  ListenerInv'
  <1> USE DEF ListenerInv, server, queue, application
  <1>1. NetInv'
    BY DEF NetInv
  <1>2. PhaseInv'
    BY DEF PhaseInv
  <1>3. SynInv'
    BY DEF SynInv
  <1>4. AcceptInv'
    BY DEF AcceptInv
  <1>5. CountInv'
    BY DEF CountInv
  <1>6. OrderInv'
    BY DEF OrderInv, AcceptsCompleted
  <1> QED
    BY <1>1, <1>2, <1>3, <1>4, <1>5, <1>6

LEMMA ConnectInv ==
    ASSUME ListenerInv, NEW p \in Ports, tcp_connect(p) PROVE ListenerInv'
  <1>1. Good(Syn(p)) /\ \A q \in Ports : ~Answers(Syn(p), q)
    BY SynIsGood
  <1>2. net' = net \cup {Syn(p)} /\ deceived' = deceived
    BY DEF tcp_connect, network
  <1>3. /\ \A buf \in net' : Good(buf) /\ deceived' = FALSE
        /\ \A q \in Ports : Answered(net', q) => Answered(net, q)
    BY <1>1, <1>2 DEF ListenerInv, NetInv, Answered
  <1>4. client' \in [Ports -> {"closed", "SYN_SENT", "ESTABLISHED", "wrote"}]
    BY DEF tcp_connect, ListenerInv, PhaseInv
  <1>5. UNCHANGED <<server, queue, application, crashed, completed, overlapped>>
    BY DEF tcp_connect
  <1>6. deceived' = FALSE
    BY <1>2 DEF ListenerInv, NetInv
  <1> QED
    BY <1>3, <1>4, <1>5, <1>6, Quiet

LEMMA WriteInv ==
    ASSUME ListenerInv, NEW p \in Ports, ClientWrites(p) PROVE ListenerInv'
  <1>1. Good(Data(p)) /\ \A q \in Ports : ~Answers(Data(p), q)
    BY DataIsGood
  <1>2. net' = net \cup {Data(p)} /\ deceived' = deceived
    BY DEF ClientWrites, network
  <1>3. /\ \A buf \in net' : Good(buf)
        /\ \A q \in Ports : Answered(net', q) => Answered(net, q)
    BY <1>1, <1>2 DEF ListenerInv, NetInv, Answered
  <1>4. client' \in [Ports -> {"closed", "SYN_SENT", "ESTABLISHED", "wrote"}]
    BY DEF ClientWrites, ListenerInv, PhaseInv
  <1>5. UNCHANGED <<server, queue, application, crashed, completed, overlapped>>
    BY DEF ClientWrites
  <1>6. deceived' = FALSE
    BY <1>2 DEF ListenerInv, NetInv
  <1> QED
    BY <1>3, <1>4, <1>5, <1>6, Quiet

LEMMA RepeatInv ==
    ASSUME ListenerInv, NEW p \in Ports, ClientRepeats(p) PROVE ListenerInv'
  <1> DEFINE syn == tcp_send_syn(p)
  <1>1. Good(syn) /\ \A q \in Ports : ~Answers(syn, q)
    BY SynIsGood
  <1>2. net' = net \cup {syn} /\ deceived' = deceived /\ client' = client
    BY DEF ClientRepeats
  <1> HIDE DEF syn
  <1>3. /\ \A buf \in net' : Good(buf)
        /\ \A q \in Ports : Answered(net', q) => Answered(net, q)
    BY <1>1, <1>2 DEF ListenerInv, NetInv, Answered
  <1>4. client' \in [Ports -> {"closed", "SYN_SENT", "ESTABLISHED", "wrote"}]
    BY <1>2 DEF ListenerInv, PhaseInv
  <1>5. UNCHANGED <<server, queue, application, crashed, completed, overlapped>>
    BY DEF ClientRepeats
  <1>6. deceived' = FALSE
    BY <1>2 DEF ListenerInv, NetInv
  <1> QED
    BY <1>3, <1>4, <1>5, <1>6, Quiet

LEMMA ClientInv ==
    ASSUME ListenerInv, NEW p \in Ports, NEW buf \in net, tcp_rcv_state_client(p, buf)
    PROVE  ListenerInv'
  <1>0. Good(buf) /\ get_dst(buf) = p
    BY DEF tcp_rcv_state_client, ListenerInv, NetInv
  <1>1. /\ Good(Answer(buf)) /\ Answers(buf, p)
        /\ \A q \in Ports : Answers(Answer(buf), q) => q = p
    BY <1>0, AnswerIsGood
  <1>2. net' = (net \ {buf}) \cup {Answer(buf)} /\ deceived' = deceived
    BY DEF tcp_rcv_state_client, network
  <1>3. /\ \A b \in net' : Good(b)
        /\ \A q \in Ports : Answered(net', q) => Answered(net, q)
    BY <1>1, <1>2 DEF ListenerInv, NetInv, Answered
  <1>4. client' \in [Ports -> {"closed", "SYN_SENT", "ESTABLISHED", "wrote"}]
    BY DEF tcp_rcv_state_client, ListenerInv, PhaseInv
  <1>5. UNCHANGED <<server, queue, application, crashed, completed, overlapped>>
    BY DEF tcp_rcv_state_client
  <1>6. deceived' = FALSE
    BY <1>2 DEF ListenerInv, NetInv
  <1> QED
    BY <1>3, <1>4, <1>5, <1>6, Quiet

LEMMA DamageInv ==
    ASSUME ListenerInv, NEW buf \in net, NEW i \in DOMAIN buf, NEW d \in Deltas,
           Damage(buf, i, d)
    PROVE  ListenerInv'
  <1> DEFINE bad == [buf EXCEPT ![i] = (buf[i] + d) % 256]
  <1>0. Good(buf) /\ Whole(buf) /\ Passes(buf)
    BY DEF ListenerInv, NetInv, Good
  <1>1. i \in (DOMAIN buf) \ (13..16)
    BY DEF Damage
  <1>2. /\ net' = (net \ {buf}) \cup (IF Passes(bad) THEN {bad} ELSE {})
        /\ deceived' = (deceived \/ (Passes(bad) /\ i \notin {5, 6, 9, 10}))
        /\ client' = client
    BY DEF Damage
  <1>3. Passes(bad) => /\ i \in {5, 6, 9, 10}
                       /\ Whole(bad) /\ get_src(bad) = get_src(buf)
                       /\ get_dst(bad) = get_dst(buf) /\ get_flags(bad) = get_flags(buf)
    BY <1>0, <1>1, DamageShows
  <1> HIDE DEF bad
  <1>4. Passes(bad) => Good(bad) /\ \A p \in Ports : Answers(bad, p) => Answers(buf, p)
    BY <1>0, <1>3 DEF Good, FromClient, FromServer, Answers
  <1>5. /\ \A b \in net' : Good(b)
        /\ \A p \in Ports : Answered(net', p) => Answered(net, p)
    BY <1>2, <1>4 DEF ListenerInv, NetInv, Answered
  <1>6. deceived' = FALSE
    BY <1>2, <1>3 DEF ListenerInv, NetInv
  <1>7. client' \in [Ports -> {"closed", "SYN_SENT", "ESTABLISHED", "wrote"}]
    BY <1>2 DEF ListenerInv, PhaseInv
  <1>8. UNCHANGED <<server, queue, application, crashed, completed, overlapped>>
    BY DEF Damage
  <1> QED
    BY <1>5, <1>6, <1>7, <1>8, Quiet

LEMMA DroppedInv ==
    ASSUME ListenerInv, NEW buf \in net, Dropped(buf) PROVE ListenerInv'
  <1>1. net' = net \ {buf} /\ deceived' = deceived /\ client' = client
    BY DEF Dropped, network
  <1>2. /\ \A b \in net' : Good(b)
        /\ \A p \in Ports : Answered(net', p) => Answered(net, p)
    BY <1>1 DEF ListenerInv, NetInv, Answered
  <1>3. deceived' = FALSE
    BY <1>1 DEF ListenerInv, NetInv
  <1>4. client' \in [Ports -> {"closed", "SYN_SENT", "ESTABLISHED", "wrote"}]
    BY <1>1 DEF ListenerInv, PhaseInv
  <1>5. UNCHANGED <<server, queue, application, crashed, completed, overlapped>>
    BY DEF Dropped
  <1> QED
    BY <1>2, <1>3, <1>4, <1>5, Quiet
-----------------------------------------------------------------------------
(* The steps of sockqueue_push and tcp_accept on accept_queue.             *)

LEMMA QueueStep ==
    ASSUME ListenerInv, UNCHANGED <<net, client, server, completed, overlapped, network>>,
           AcceptInv', CountInv', AcceptsCompleted'
    PROVE  ListenerInv'
  <1> USE DEF ListenerInv, server, network
  <1>1. NetInv'
    BY DEF NetInv
  <1>2. PhaseInv'
    BY DEF PhaseInv
  <1>3. SynInv'
    BY DEF SynInv
  <1>4. OrderInv'
    BY DEF OrderInv
  <1> QED
    BY <1>1, <1>2, <1>3, <1>4

\* An element that moves from one sequence to the next leaves them as a whole.
LEMMA MovesIn ==
    ASSUME NEW S, NEW s \in Seq(S), NEW t \in Seq(S), NEW x \in S
    PROVE  s \o t \o <<x>> = s \o Append(t, x) \o <<>>
  <1>1. <<x>> \in Seq(S)
    OBVIOUS
  <1>2. s \o t \o <<x>> = s \o (t \o <<x>>)
    BY <1>1, ConcatAssociative
  <1>3. t \o <<x>> = Append(t, x) /\ Append(t, x) \in Seq(S)
    BY AppendIsConcat, AppendProperties
  <1>4. s \o Append(t, x) \in Seq(S)
    BY <1>3, ConcatProperties
  <1>5. s \o Append(t, x) \o <<>> = s \o Append(t, x)
    BY <1>4, ConcatEmptySeq
  <1> QED
    BY <1>2, <1>3, <1>5

LEMMA MovesOut ==
    ASSUME NEW S, NEW s \in Seq(S), NEW t \in Seq(S), t # <<>>
    PROVE  s \o t = Append(s, Head(t)) \o Tail(t)
  <1>1. Head(t) \in S /\ Tail(t) \in Seq(S) /\ <<Head(t)>> \in Seq(S)
    BY HeadTailProperties
  <1>2. t = <<Head(t)>> \o Tail(t)
    <2>1. /\ Len(t) \in Nat /\ 1 \in 1..Len(t) /\ Len(t) \in 1..Len(t)
      <3>1. Len(t) \in Nat /\ Len(t) # 0
        OBVIOUS
      <3> QED
        BY <3>1
    <2>2. SubSeq(t, 1, Len(t)) = <<t[1]>> \o SubSeq(t, 1 + 1, Len(t))
      BY <2>1, SubSeqRecursiveFirst
    <2>3. SubSeq(t, 1, Len(t)) = t /\ Tail(t) = SubSeq(t, 2, Len(t))
      BY SubSeqFull, TailIsSubSeq
    <2>4. Head(t) = t[1] /\ 1 + 1 = 2
      OBVIOUS
    <2> QED
      BY <2>2, <2>3, <2>4
  <1>3. Append(s, Head(t)) = s \o <<Head(t)>>
    BY <1>1, AppendIsConcat
  <1>4. (s \o <<Head(t)>>) \o Tail(t) = s \o (<<Head(t)>> \o Tail(t))
    BY <1>1, ConcatAssociative
  <1> QED
    BY <1>2, <1>3, <1>4

\* What the invariant says of accept_queue.
LEMMA QueueFacts ==
    ASSUME ListenerInv
    PROVE  /\ MAX_QUEUE \in Nat /\ AcceptInv /\ CountInv /\ AcceptsCompleted
           /\ accept_queue.list \in Seq(Sockets) /\ Len(accept_queue.list) \in Nat
           /\ accept_queue.size \in Nat /\ accept_queue.size <= MAX_QUEUE
           /\ accept_queue = [list |-> accept_queue.list, size |-> accept_queue.size]
           /\ push.size \in Nat /\ push.size <= MAX_QUEUE /\ push.sock \in Sockets
           /\ push.at \in {"ready", "link", "count", "store"}
           /\ accept.size \in Nat /\ accept.size <= MAX_QUEUE
           /\ accept.at \in {"poll", "pop", "count", "store"}
           /\ accepted \in Seq(Sockets) /\ popped \in Nat
  <1>1. MAX_QUEUE \in Nat
    BY ListenerAssumption
  <1>2. AcceptInv /\ CountInv /\ AcceptsCompleted
    BY DEF ListenerInv, OrderInv
  <1>3. accept_queue \in [list : Seq(Sockets), size : 0..MAX_QUEUE]
    BY <1>2 DEF AcceptInv, Queues
  <1>4. /\ accept_queue.list \in Seq(Sockets) /\ accept_queue.size \in 0..MAX_QUEUE
        /\ accept_queue = [list |-> accept_queue.list, size |-> accept_queue.size]
    BY <1>3
  <1>5. /\ push.size \in 0..MAX_QUEUE /\ push.sock \in Sockets
        /\ push.at \in {"ready", "link", "count", "store"}
    BY <1>2 DEF AcceptInv
  <1>6. /\ accept.size \in 0..MAX_QUEUE /\ accept.at \in {"poll", "pop", "count", "store"}
        /\ accepted \in Seq(Sockets) /\ popped \in Nat
    BY <1>2 DEF AcceptInv
  <1>7. Len(accept_queue.list) \in Nat
    BY <1>4
  <1> QED
    BY <1>1, <1>2, <1>4, <1>5, <1>6, <1>7

LEMMA PushReadsInv == ASSUME ListenerInv, PushReads PROVE ListenerInv'
  <1>1. /\ push.at = "count"
        /\ push' = [push EXCEPT !.at = "store", !.size = accept_queue.size]
        /\ UNCHANGED <<accept_queue, popped, raced, accept, accepted, crashed>>
        /\ UNCHANGED <<net, client, server, completed, overlapped, network>>
    BY DEF PushReads, application
  <1>2. AcceptInv'
    <2>1. push.at \in {"link", "count"}
      BY <1>1
    <2>2. /\ push' \in [at : {"ready", "link", "count", "store"}, sock : Sockets,
                        tail : Nat, size : 0..MAX_QUEUE]
          /\ push'.at = "store" /\ push'.size = accept_queue.size
      <3>1. push \in [at : {"ready", "link", "count", "store"}, sock : Sockets, tail : Nat,
                      size : 0..MAX_QUEUE]
        BY QueueFacts DEF AcceptInv
      <3>2. accept_queue.size \in 0..MAX_QUEUE
        BY QueueFacts
      <3> QED
        BY <1>1, <3>1, <3>2
    <2> QED
      BY <1>1, <2>1, <2>2, QueueFacts DEF AcceptInv
  <1>3. CountInv'
    <2>1. push.at \in {"count", "store"} /\ push'.at \in {"count", "store"}
      BY <1>1, QueueFacts DEF AcceptInv
    <2> QED
      BY <1>1, <2>1, QueueFacts DEF CountInv
  <1>4. AcceptsCompleted'
    <2>1. push.at # "link" /\ push'.at # "link"
      BY <1>1, QueueFacts DEF AcceptInv
    <2> QED
      BY <1>1, <2>1, QueueFacts DEF AcceptsCompleted
  <1> QED
    BY <1>1, <1>2, <1>3, <1>4, QueueStep

LEMMA PushCountsInv == ASSUME ListenerInv, PushCounts PROVE ListenerInv'
  <1>1. /\ push.at = "store" /\ push' = Ready
        /\ accept_queue' = [accept_queue EXCEPT !.size = push.size + 1]
        /\ raced' = (raced \/ accept_queue.size # push.size)
        /\ UNCHANGED <<popped, accept, accepted, crashed>>
        /\ UNCHANGED <<net, client, server, completed, overlapped, network>>
    BY DEF PushCounts, application
  <1>2. push.size < MAX_QUEUE
    BY <1>1, QueueFacts DEF AcceptInv
  <1>3. /\ accept_queue'.list = accept_queue.list /\ accept_queue'.size = push.size + 1
        /\ accept_queue' = [list |-> accept_queue.list, size |-> push.size + 1]
    BY <1>1, QueueFacts
  <1>4. push'.at = "ready" /\ push' \in [at : {"ready", "link", "count", "store"},
                                         sock : Sockets, tail : Nat, size : 0..MAX_QUEUE]
    BY <1>1, QueueFacts DEF Ready, Sockets
  <1>5. AcceptInv'
    <2>1. push.size + 1 \in 0..MAX_QUEUE /\ push.size + 1 > 0
      BY <1>2, QueueFacts
    <2>2. accept_queue' \in Queues
      BY <1>3, <2>1, QueueFacts DEF Queues
    <2> QED
      BY <1>1, <1>3, <1>4, <2>1, <2>2, QueueFacts DEF AcceptInv
  <1>6. CountInv'
    <2>1. raced \in BOOLEAN /\ crashed \in BOOLEAN
      BY QueueFacts DEF CountInv
    <2>2. raced' \in BOOLEAN /\ crashed' \in BOOLEAN
      BY <1>1, <2>1
    <2>3. ASSUME ~raced' PROVE ~raced /\ accept_queue.size = push.size
      BY <1>1, <2>3
    <2>4. push.at \in {"count", "store"} /\ push'.at \notin {"count", "store"}
      BY <1>1, <1>4
    <2>5. ASSUME ~raced'
          PROVE  accept_queue'.size = Len(accept_queue'.list)
                                 + (IF accept'.at \in {"count", "store"} THEN 1 ELSE 0)
                                 - (IF push'.at \in {"count", "store"} THEN 1 ELSE 0)
      <3>1. accept_queue.size = Len(accept_queue.list)
                                 + (IF accept.at \in {"count", "store"} THEN 1 ELSE 0) - 1
        BY <2>3, <2>4, <2>5, QueueFacts DEF CountInv
      <3> QED
        BY <1>1, <1>3, <2>3, <2>4, <2>5, <3>1, QueueFacts
    <2> QED
      BY <1>1, <1>3, <2>2, <2>3, <2>5, QueueFacts DEF CountInv
  <1>7. AcceptsCompleted'
    <2>1. push.at # "link" /\ push'.at # "link"
      BY <1>1, <1>4
    <2>2. ASSUME ~raced' PROVE ~raced
      BY <1>1, <2>2
    <2> QED
      BY <1>1, <1>3, <2>1, <2>2, QueueFacts DEF AcceptsCompleted
  <1> QED
    BY <1>1, <1>5, <1>6, <1>7, QueueStep

LEMMA AcceptPollsInv == ASSUME ListenerInv, AcceptPolls PROVE ListenerInv'
  <1>1. /\ accept.at = "poll" /\ accept_queue.size # 0
        /\ accept' = [accept EXCEPT !.at = "pop"]
        /\ UNCHANGED <<accept_queue, push, popped, raced, accepted, crashed>>
        /\ UNCHANGED <<net, client, server, completed, overlapped, network>>
    BY DEF AcceptPolls, queue, sockqueue_is_empty
  <1>2. accept'.at = "pop" /\ accept' \in [at : {"poll", "pop", "count", "store"},
                                           size : 0..MAX_QUEUE]
    BY <1>1, QueueFacts DEF AcceptInv
  <1>3. AcceptInv'
    BY <1>1, <1>2, QueueFacts DEF AcceptInv
  <1>4. CountInv'
    <2>1. accept.at \notin {"count", "store"} /\ accept'.at \notin {"count", "store"}
      BY <1>1, <1>2
    <2>2. ASSUME ~raced PROVE accept_queue.list # <<>>
      <3>1. accept_queue.size = Len(accept_queue.list)
                                 - (IF push.at \in {"count", "store"} THEN 1 ELSE 0)
        BY <2>1, <2>2, QueueFacts DEF CountInv
      <3>2. Len(accept_queue.list) # 0
        BY <1>1, <3>1, QueueFacts
      <3> QED
        BY <3>2
    <2> QED
      BY <1>1, <2>1, <2>2, QueueFacts DEF CountInv
  <1>5. AcceptsCompleted'
    BY <1>1, QueueFacts DEF AcceptsCompleted
  <1> QED
    BY <1>1, <1>3, <1>4, <1>5, QueueStep

LEMMA AcceptReadsInv == ASSUME ListenerInv, AcceptReads PROVE ListenerInv'
  <1>1. /\ accept.at = "count" /\ accept' = [at |-> "store", size |-> accept_queue.size]
        /\ UNCHANGED <<accept_queue, push, popped, raced, accepted, crashed>>
        /\ UNCHANGED <<net, client, server, completed, overlapped, network>>
    BY DEF AcceptReads, queue
  <1>2. /\ accept'.at = "store" /\ accept'.size = accept_queue.size
        /\ accept' \in [at : {"poll", "pop", "count", "store"}, size : 0..MAX_QUEUE]
    BY <1>1, QueueFacts
  <1>3. accept_queue.size > 0
    BY <1>1, QueueFacts DEF AcceptInv
  <1>4. AcceptInv'
    BY <1>1, <1>2, <1>3, QueueFacts DEF AcceptInv
  <1>5. CountInv'
    <2>1. accept.at \in {"count", "store"} /\ accept'.at \in {"count", "store"}
          /\ accept'.at # "pop"
      BY <1>1, <1>2
    <2> QED
      BY <1>1, <2>1, QueueFacts DEF CountInv
  <1>6. AcceptsCompleted'
    BY <1>1, QueueFacts DEF AcceptsCompleted
  <1> QED
    BY <1>1, <1>4, <1>5, <1>6, QueueStep

LEMMA AcceptReturnsInv == ASSUME ListenerInv, AcceptReturns PROVE ListenerInv'
  <1>1. /\ accept.at = "store" /\ accept' = [at |-> "poll", size |-> 0]
        /\ accept_queue' = [accept_queue EXCEPT !.size = accept.size - 1]
        /\ raced' = (raced \/ accept_queue.size # accept.size)
        /\ UNCHANGED <<push, popped, accepted, crashed>>
        /\ UNCHANGED <<net, client, server, completed, overlapped, network>>
    BY DEF AcceptReturns
  <1>2. accept.size > 0
    BY <1>1, QueueFacts DEF AcceptInv
  <1>3. /\ accept_queue'.list = accept_queue.list /\ accept_queue'.size = accept.size - 1
        /\ accept_queue' = [list |-> accept_queue.list, size |-> accept.size - 1]
    BY <1>1, QueueFacts
  <1>4. accept'.at = "poll" /\ accept' \in [at : {"poll", "pop", "count", "store"},
                                            size : 0..MAX_QUEUE]
    BY <1>1, QueueFacts
  <1>5. AcceptInv'
    <2>1. accept.size - 1 \in 0..MAX_QUEUE /\ accept.size - 1 < MAX_QUEUE
      BY <1>2, QueueFacts
    <2>2. accept_queue' \in Queues
      BY <1>3, <2>1, QueueFacts DEF Queues
    <2> QED
      BY <1>1, <1>3, <1>4, <2>1, <2>2, QueueFacts DEF AcceptInv
  <1>6. CountInv'
    <2>1. raced \in BOOLEAN /\ crashed \in BOOLEAN
      BY QueueFacts DEF CountInv
    <2>2. raced' \in BOOLEAN /\ crashed' \in BOOLEAN
      BY <1>1, <2>1
    <2>3. ASSUME ~raced' PROVE ~raced /\ accept_queue.size = accept.size
      BY <1>1, <2>3
    <2>4. accept.at \in {"count", "store"} /\ accept'.at \notin {"count", "store"}
          /\ accept'.at # "pop"
      BY <1>1, <1>4
    <2>5. ASSUME ~raced'
          PROVE  accept_queue'.size = Len(accept_queue'.list)
                                 + (IF accept'.at \in {"count", "store"} THEN 1 ELSE 0)
                                 - (IF push'.at \in {"count", "store"} THEN 1 ELSE 0)
      <3>1. accept_queue.size = Len(accept_queue.list) + 1
                                 - (IF push.at \in {"count", "store"} THEN 1 ELSE 0)
        BY <2>3, <2>4, <2>5, QueueFacts DEF CountInv
      <3> QED
        BY <1>1, <1>3, <2>3, <2>4, <2>5, <3>1, QueueFacts
    <2> QED
      BY <1>1, <1>3, <2>2, <2>3, <2>4, <2>5, QueueFacts DEF CountInv
  <1>7. AcceptsCompleted'
    <2>1. ASSUME ~raced' PROVE ~raced
      BY <1>1, <2>1
    <2> QED
      BY <1>1, <1>3, <2>1, QueueFacts DEF AcceptsCompleted
  <1> QED
    BY <1>1, <1>5, <1>6, <1>7, QueueStep

LEMMA PushLinksInv == ASSUME ListenerInv, NEW at, PushLinks(at) PROVE ListenerInv'
  <1> DEFINE lost == at > 0 /\ at <= popped
             list == accept_queue.list
  <1>1. /\ push.at = "link" /\ push' = [push EXCEPT !.at = "count"]
        /\ UNCHANGED <<popped, accept, accepted, crashed>>
        /\ UNCHANGED <<net, client, server, completed, overlapped, network>>
    BY DEF PushLinks, application
  <1>2. /\ lost => raced' = TRUE /\ accept_queue' = accept_queue
        /\ ~lost =>
              /\ accept_queue' = [accept_queue EXCEPT !.list = Append(list, push.sock)]
              /\ raced' = raced
    BY DEF PushLinks
  <1> HIDE DEF lost
  <1>3. /\ push'.at = "count" /\ push'.size = push.size
        /\ push' \in [at : {"ready", "link", "count", "store"}, sock : Sockets, tail : Nat,
                      size : 0..MAX_QUEUE]
    BY <1>1, QueueFacts DEF AcceptInv
  <1>4. list \in Seq(Sockets) /\ push.sock \in Sockets
    BY QueueFacts
  <1>5. /\ Append(list, push.sock) \in Seq(Sockets) /\ Append(list, push.sock) # <<>>
        /\ Len(Append(list, push.sock)) = Len(list) + 1
    BY <1>4
  <1>6. /\ accept_queue'.size = accept_queue.size /\ accept_queue' \in Queues
        /\ ~lost => accept_queue'.list = Append(list, push.sock)
    BY <1>2, <1>5, QueueFacts DEF AcceptInv, Queues
  <1>7. AcceptInv'
    <2>1. push.at \in {"link", "count"} /\ push'.at # "store"
      BY <1>1, <1>3
    <2> QED
      BY <1>1, <1>3, <1>6, <2>1, QueueFacts DEF AcceptInv
  <1>8. raced' \in BOOLEAN /\ (~raced' => ~lost /\ ~raced)
    <2>1. raced \in BOOLEAN
      BY QueueFacts DEF CountInv
    <2>2. CASE lost
      BY <1>2, <2>2
    <2>3. CASE ~lost
      BY <1>2, <2>1, <2>3
    <2> QED
      BY <2>2, <2>3
  <1> HIDE DEF list
  <1>9. CountInv'
    <2>1. push.at \notin {"count", "store"} /\ push'.at \in {"count", "store"}
      BY <1>1, <1>3
    <2>2. ASSUME ~raced'
          PROVE  accept_queue'.size = Len(accept_queue'.list)
                                 + (IF accept'.at \in {"count", "store"} THEN 1 ELSE 0)
                                 - (IF push'.at \in {"count", "store"} THEN 1 ELSE 0)
      <3>1. accept_queue.size = Len(list)
                                 + (IF accept.at \in {"count", "store"} THEN 1 ELSE 0)
        BY <1>8, <2>1, <2>2, QueueFacts DEF CountInv, list
      <3>2. accept_queue'.size = accept_queue.size
            /\ Len(accept_queue'.list) = Len(list) + 1
            /\ accept'.at = accept.at /\ Len(list) \in Nat
        BY <1>1, <1>5, <1>6, <1>8, <2>2, QueueFacts DEF list
      <3> QED
        BY <2>1, <3>1, <3>2
    <2>3. ASSUME ~raced' PROVE accept_queue'.list # <<>>
      BY <1>5, <1>6, <1>8, <2>3
    <2>4. crashed' \in BOOLEAN
      BY <1>1, QueueFacts DEF CountInv
    <2> QED
      BY <1>1, <1>8, <2>2, <2>3, <2>4, QueueFacts DEF CountInv
  <1>10. AcceptsCompleted'
    <2> SUFFICES ASSUME ~overlapped', ~raced'
                 PROVE  completed' = accepted' \o accept_queue'.list \o <<>>
      BY <1>3 DEF AcceptsCompleted
    <2>1. completed = accepted \o list \o <<push.sock>>
      BY <1>1, <1>8, QueueFacts DEF AcceptsCompleted, list
    <2>2. accept_queue'.list = Append(list, push.sock) /\ accepted' = accepted
          /\ completed' = completed
      BY <1>1, <1>6, <1>8
    <2>3. accepted \o list \o <<push.sock>> = accepted \o Append(list, push.sock) \o <<>>
      <3>1. accepted \in Seq(Sockets)
        BY QueueFacts
      <3>2. list \in Seq(Sockets)
        BY QueueFacts DEF list
      <3> QED
        BY <1>4, <3>1, <3>2, MovesIn
    <2> QED
      BY <2>1, <2>2, <2>3
  <1> QED
    BY <1>1, <1>7, <1>9, <1>10, QueueStep

LEMMA AcceptPopsInv == ASSUME ListenerInv, AcceptPops PROVE ListenerInv'
  <1> DEFINE list == accept_queue.list
  <1>1. /\ accept.at = "pop" /\ accept' = [accept EXCEPT !.at = "count"]
        /\ UNCHANGED push /\ raced' \in {raced, raced \/ PushWalksOn(popped + 1)}
        /\ UNCHANGED <<net, client, server, completed, overlapped, network>>
    BY DEF AcceptPops
  <1>2. /\ list = <<>> => crashed' = TRUE /\ UNCHANGED <<accepted, accept_queue, popped>>
        /\ list # <<>> =>
              /\ accepted' = Append(accepted, Head(list))
              /\ accept_queue' = [accept_queue EXCEPT !.list = Tail(list)]
              /\ popped' = popped + 1 /\ crashed' = crashed
    BY DEF AcceptPops
  <1>3. accept'.at = "count" /\ accept' \in [at : {"poll", "pop", "count", "store"},
                                             size : 0..MAX_QUEUE]
    BY <1>1, QueueFacts DEF AcceptInv
  <1>4. list \in Seq(Sockets) /\ accepted \in Seq(Sockets)
    BY QueueFacts
  <1>5. list # <<>> => /\ Head(list) \in Sockets /\ Tail(list) \in Seq(Sockets)
                       /\ Len(Tail(list)) = Len(list) - 1
                       /\ Append(accepted, Head(list)) \in Seq(Sockets)
                       /\ Append(accepted, Head(list)) # <<>>
    BY <1>4, HeadTailProperties, AppendProperties
  <1>6. /\ accept_queue'.size = accept_queue.size /\ accept_queue' \in Queues
        /\ list # <<>> => accept_queue'.list = Tail(list)
    BY <1>2, <1>5, QueueFacts DEF AcceptInv, Queues
  <1>7. accepted' \in Seq(Sockets) /\ popped' \in Nat
    <2>1. CASE list = <<>>
      BY <1>2, <2>1, QueueFacts
    <2>2. CASE list # <<>>
      <3>1. popped \in Nat
        BY QueueFacts
      <3>2. accepted' = Append(accepted, Head(list)) /\ popped' = popped + 1
        BY <1>2, <2>2
      <3>3. Append(accepted, Head(list)) \in Seq(Sockets)
        BY <1>5, <2>2
      <3>4. accepted' \in Seq(Sockets)
        BY <3>2, <3>3
      <3>5. popped' \in Nat
        BY <3>1, <3>2
      <3> QED
        BY <3>4, <3>5
    <2> QED
      BY <2>1, <2>2
  <1>8. AcceptInv'
    <2>1. accept.at \in {"pop", "count"} /\ accept'.at # "store"
      BY <1>1, <1>3
    <2> QED
      BY <1>1, <1>3, <1>6, <1>7, <2>1, QueueFacts DEF AcceptInv
  <1>9. raced \in BOOLEAN /\ crashed \in BOOLEAN
        /\ (~raced => list # <<>> /\ crashed = FALSE)
    BY <1>1, QueueFacts DEF CountInv
  <1>12. raced' \in BOOLEAN /\ (~raced' => ~raced)
    BY <1>1, <1>9 DEF PushWalksOn
  <1> HIDE DEF list
  <1>10. CountInv'
    <2>1. accept.at \notin {"count", "store"} /\ accept'.at \in {"count", "store"}
          /\ accept'.at # "pop"
      BY <1>1, <1>3
    <2>2. ASSUME ~raced
          PROVE  accept_queue'.size = Len(accept_queue'.list)
                                 + (IF accept'.at \in {"count", "store"} THEN 1 ELSE 0)
                                 - (IF push'.at \in {"count", "store"} THEN 1 ELSE 0)
      <3>1. accept_queue.size = Len(list)
                                 - (IF push.at \in {"count", "store"} THEN 1 ELSE 0)
        BY <2>1, <2>2, QueueFacts DEF CountInv, list
      <3>2. accept_queue'.size = accept_queue.size
            /\ Len(accept_queue'.list) = Len(list) - 1
            /\ push'.at = push.at /\ Len(list) \in Nat
        BY <1>1, <1>5, <1>6, <1>9, <2>2, QueueFacts DEF list
      <3> QED
        BY <2>1, <3>1, <3>2
    <2>3. ASSUME ~raced PROVE accepted' # <<>> /\ crashed' = FALSE
      BY <1>2, <1>5, <1>9, <2>3
    <2>4. raced' \in BOOLEAN /\ crashed' \in BOOLEAN /\ (~raced' => ~raced)
      BY <1>1, <1>2, <1>9, <1>12
    <2> QED
      BY <2>1, <2>2, <2>3, <2>4 DEF CountInv
  <1>11. AcceptsCompleted'
    <2> DEFINE more == IF push.at = "link" THEN <<push.sock>> ELSE <<>>
    <2>0. more \in Seq(Sockets)
      BY QueueFacts
    <2> SUFFICES ASSUME ~overlapped', ~raced'
                 PROVE  completed' = accepted' \o accept_queue'.list \o more
      BY <1>1 DEF AcceptsCompleted
    <2>1. ~raced /\ ~overlapped
      BY <1>1, <1>12
    <2>2. completed = accepted \o list \o more
      BY <2>1, QueueFacts DEF AcceptsCompleted, list
    <2> HIDE DEF more
    <2>3. accepted' = Append(accepted, Head(list)) /\ accept_queue'.list = Tail(list)
          /\ completed' = completed
      BY <1>1, <1>2, <1>6, <1>9, <2>1
    <2>4. accepted \o list = Append(accepted, Head(list)) \o Tail(list)
      <3>1. list # <<>>
        BY <1>9, <2>1
      <3> QED
        BY <1>4, <3>1, MovesOut DEF list
    <2> QED
      BY <2>2, <2>3, <2>4
  <1> QED
    BY <1>1, <1>8, <1>10, <1>11, QueueStep
-----------------------------------------------------------------------------
(* The steps of tcp_rcv_state_server.                                      *)

LEMMA SlotsApart ==
    ASSUME NEW p \in Ports, NEW q \in Ports, Slot(p) = Slot(q) PROVE p = q
  BY ListenerAssumption

\* What the invariant says of syn_queue.
LEMMA SynFacts ==
    ASSUME ListenerInv
    PROVE  /\ SynInv /\ PhaseInv /\ OrderInv /\ MAX_QUEUE \in Nat
           /\ syn_queue.list \in Seq(Sockets) /\ Len(syn_queue.list) \in Nat
           /\ syn_queue.size \in Nat /\ syn_queue.size <= MAX_QUEUE
           /\ syn_queue = [list |-> syn_queue.list, size |-> syn_queue.size]
           /\ saved_syn \in Nat /\ saved_syn <= MAX_QUEUE
           /\ listen_state \in [Slots -> Phases]
           /\ \A p \in Ports : Slot(p) \in Slots
  <1>1. MAX_QUEUE \in Nat
    BY ListenerAssumption
  <1>2. SynInv /\ PhaseInv /\ OrderInv
    BY DEF ListenerInv
  <1>3. syn_queue \in [list : Seq(Sockets), size : 0..MAX_QUEUE]
    BY <1>2 DEF SynInv, Queues
  <1>4. /\ syn_queue.list \in Seq(Sockets) /\ syn_queue.size \in 0..MAX_QUEUE
        /\ syn_queue = [list |-> syn_queue.list, size |-> syn_queue.size]
    BY <1>3
  <1>5. saved_syn \in 0..MAX_QUEUE
    BY <1>2 DEF SynInv
  <1>6. listen_state \in [Slots -> Phases]
    BY <1>2 DEF PhaseInv
  <1>7. \A p \in Ports : Slot(p) \in Slots
    BY DEF Slots
  <1>8. Len(syn_queue.list) \in Nat
    BY <1>4
  <1> QED
    BY <1>1, <1>2, <1>4, <1>5, <1>6, <1>7, <1>8

\* How the state of the clients' slots changes.
LEMMA SlotChanges ==
    ASSUME ListenerInv, NEW p \in Ports, NEW new \in Phases,
           listen_state' = [listen_state EXCEPT ![Slot(p)] = new]
    PROVE  /\ listen_state' \in [Slots -> Phases] /\ listen_state'[Slot(p)] = new
           /\ \A q \in Ports : q # p => listen_state'[Slot(q)] = listen_state[Slot(q)]
  <1>1. listen_state \in [Slots -> Phases] /\ \A q \in Ports : Slot(q) \in Slots
    BY SynFacts
  <1>2. \A q \in Ports : q # p => Slot(q) # Slot(p)
    BY SlotsApart
  <1> QED
    BY <1>1, <1>2

LEMMA ListenSynInv ==
    ASSUME ListenerInv, NEW buf \in net, ListenSyn(buf) PROVE ListenerInv'
  <1> DEFINE p == get_src(buf)
             list == syn_queue.list
             index == PushIndex(syn_queue)
             reply == build_state_pkt(buf, SYN + ACK, Window)
  <1>1. /\ p \in Ports /\ get_dst(buf) = ServerPort /\ listen_state[Slot(p)] = "LISTEN"
        /\ get_flags(buf) = SYN
    BY DEF ListenSyn, ToListener, State
  <1>2. /\ listen_state' = [listen_state EXCEPT ![Slot(p)] = "SYN_RECV"]
        /\ syn_queue' = sockqueue_push(syn_queue, p)
        /\ saved_syn' = IF index < 0 THEN saved_syn ELSE index
        /\ net' = (net \ {buf}) \cup (IF index < 0 THEN {} ELSE {reply})
        /\ overlapped' = (overlapped \/ \E s \in DOMAIN listen_state :
                                            listen_state[s] = "SYN_RECV")
        /\ client' = client /\ deceived' = deceived
        /\ UNCHANGED <<accept_queue, push, popped, raced, accept, accepted, crashed,
                       completed>>
    BY DEF ListenSyn, queue, application, network
  <1>3. /\ Good(reply) /\ \A q \in Ports : Answers(reply, q) => q = p
    <2>1. Good(buf)
      BY DEF ListenerInv, NetInv
    <2>2. FromClient(buf)
      BY <1>1 DEF FromClient
    <2> QED
      BY <2>1, <2>2, SynAckIsGood
  <1> HIDE DEF reply
  <1>4. NetInv'
    BY <1>2, <1>3 DEF ListenerInv, NetInv
  <1>5. \A q \in Ports : q # p => (Answered(net', q) => Answered(net, q))
    BY <1>2, <1>3 DEF Answered
  <1>6. ~Answered(net, p)
    BY <1>1, SynFacts DEF PhaseInv
  <1>7. /\ listen_state' \in [Slots -> Phases] /\ listen_state'[Slot(p)] = "SYN_RECV"
        /\ \A q \in Ports : q # p => listen_state'[Slot(q)] = listen_state[Slot(q)]
    <2> "SYN_RECV" \in Phases
      BY DEF Phases
    <2> HIDE DEF p
    <2> QED
      BY <1>1, <1>2, SlotChanges
  <1>8. PhaseInv'
    <2>1. \A q \in Ports : Answered(net', q) => listen_state'[Slot(q)] # "LISTEN"
      BY <1>5, <1>7, SynFacts DEF PhaseInv
    <2> QED
      BY <1>2, <1>7, <2>1, SynFacts DEF PhaseInv
  <1>9. p \in Sockets
    BY <1>1 DEF Sockets
  <1> HIDE DEF p
  <1>10. ASSUME syn_queue.size = MAX_QUEUE PROVE SynInv' /\ OrderInv'
    <2>1. index = -1 /\ syn_queue' = syn_queue /\ saved_syn' = saved_syn
          /\ net' = net \ {buf}
      BY <1>2, <1>10 DEF PushIndex, sockqueue_push
    <2>2. \A q \in Ports : Answered(net', q) => Answered(net, q)
      BY <2>1 DEF Answered
    <2>3. SynInv'
      <3>1. \A q \in Ports : listen_state'[Slot(q)] = "SYN_RECV" /\ Answered(net', q)
                => listen_state[Slot(q)] = "SYN_RECV" /\ Answered(net, q)
        BY <1>6, <1>7, <2>2
      <3> QED
        BY <2>1, <3>1, SynFacts DEF SynInv
    <2>4. OrderInv'
      <3>1. overlapped \in BOOLEAN /\ overlapped' \in BOOLEAN /\ completed' \in Seq(Ports)
        BY <1>2, SynFacts DEF OrderInv
      <3>2. ASSUME ~overlapped', syn_queue'.list # <<>>
            PROVE  \E q \in Ports : syn_queue'.list = <<q>>
                                    /\ listen_state'[Slot(q)] = "SYN_RECV"
        <4>1. ~overlapped
          BY <1>2, <3>2
        <4>2. PICK q \in Ports : list = <<q>> /\ listen_state[Slot(q)] = "SYN_RECV"
          BY <2>1, <3>2, <4>1, SynFacts DEF OrderInv
        <4>3. listen_state'[Slot(q)] = "SYN_RECV"
          BY <1>7, <4>2
        <4> QED
          BY <2>1, <4>2, <4>3
      <3>3. ASSUME ~overlapped'
            PROVE  saved_syn' = 0
                   /\ syn_queue'.size = Len(completed') + Len(syn_queue'.list)
        <4>1. ~overlapped
          BY <1>2, <3>3
        <4> QED
          BY <1>2, <2>1, <4>1, SynFacts DEF OrderInv
      <3>4. AcceptsCompleted'
        BY <1>2, SynFacts DEF OrderInv, AcceptsCompleted
      <3> QED
        BY <3>1, <3>2, <3>3, <3>4 DEF OrderInv
    <2> QED
      BY <2>3, <2>4
  <1>11. ASSUME syn_queue.size # MAX_QUEUE PROVE SynInv' /\ OrderInv'
    <2>1. /\ syn_queue' = [list |-> Append(list, p), size |-> syn_queue.size + 1]
          /\ index = IF list = <<>> THEN 0 ELSE syn_queue.size
      BY <1>2, <1>11 DEF PushIndex, sockqueue_push
    <2>2. /\ Append(list, p) \in Seq(Sockets) /\ Append(list, p) # <<>>
          /\ Len(Append(list, p)) = Len(list) + 1
      <3> list \in Seq(Sockets)
        BY SynFacts
      <3> HIDE DEF list
      <3> QED
        BY <1>9, AppendProperties
    <2>3. syn_queue'.list = Append(list, p) /\ syn_queue'.size = syn_queue.size + 1
      BY <2>1
    <2>4. index \in Nat /\ index <= MAX_QUEUE /\ ~(index < 0)
      BY <2>1, SynFacts
    <2>5. saved_syn' = index
      BY <1>2, <2>4
    <2>6. Len(list) <= syn_queue.size
      BY SynFacts DEF SynInv
    <2>7. list # <<>> => index # 0
      <3>1. list # <<>> => Len(list) # 0
        BY SynFacts
      <3> QED
        BY <2>1, <2>6, <3>1, SynFacts
    <2>8. list = <<>> => Append(list, p) = <<p>>
      OBVIOUS
    <2>9. SynInv'
      <3>1. syn_queue' \in Queues
        <4>1. syn_queue.size + 1 \in 0..MAX_QUEUE
          BY <1>11, SynFacts
        <4> QED
          BY <2>1, <2>2, <4>1 DEF Queues
      <3>2. Len(syn_queue'.list) <= syn_queue'.size
        BY <2>2, <2>3, <2>6, SynFacts
      <3>3. ASSUME saved_syn' = 0, NEW q \in Ports, listen_state'[Slot(q)] = "SYN_RECV",
                   Answered(net', q)
            PROVE  syn_queue'.list = <<q>>
        <4>1. list = <<>> /\ syn_queue'.list = <<p>>
          BY <2>3, <2>5, <2>7, <2>8, <3>3
        <4>2. CASE q = p
          BY <4>1, <4>2
        <4>3. CASE q # p
          <5>1. listen_state[Slot(q)] = "SYN_RECV" /\ Answered(net, q)
            BY <1>5, <1>7, <3>3, <4>3
          <5>2. saved_syn = 0
            BY <4>1, SynFacts DEF SynInv
          <5>3. list = <<q>>
            BY <5>1, <5>2, SynFacts DEF SynInv
          <5> QED
            BY <4>1, <5>3
        <4> QED
          BY <4>2, <4>3
      <3>4. saved_syn' \in 0..MAX_QUEUE
        BY <2>4, <2>5, SynFacts
      <3>5. syn_queue'.list # <<>>
        BY <2>2, <2>3
      <3> QED
        BY <3>1, <3>2, <3>3, <3>4, <3>5 DEF SynInv
    <2>10. OrderInv'
      <3>1. overlapped \in BOOLEAN /\ overlapped' \in BOOLEAN /\ completed' \in Seq(Ports)
        BY <1>2, SynFacts DEF OrderInv
      <3>2. AcceptsCompleted'
        BY <1>2, SynFacts DEF OrderInv, AcceptsCompleted
      <3>3. ASSUME ~overlapped'
            PROVE  /\ saved_syn' = 0 /\ syn_queue'.list = <<p>>
                   /\ syn_queue'.size = Len(completed') + Len(syn_queue'.list)
        <4>1. ~overlapped /\ \A s \in DOMAIN listen_state : listen_state[s] # "SYN_RECV"
          BY <1>2, <3>3
        <4>2. list = <<>>
          <5>1. list # <<>> => \E q \in Ports : listen_state[Slot(q)] = "SYN_RECV"
            BY <4>1, SynFacts DEF OrderInv
          <5>2. \A q \in Ports : Slot(q) \in DOMAIN listen_state
            BY SynFacts
          <5> QED
            BY <4>1, <5>1, <5>2
        <4>3. syn_queue.size = Len(completed) + Len(list) /\ Len(completed) \in Nat
          BY <4>1, SynFacts DEF OrderInv
        <4>4. saved_syn' = 0 /\ syn_queue'.list = <<p>>
          BY <2>1, <2>3, <2>5, <2>8, <4>2
        <4>5. syn_queue'.size = Len(completed') + Len(syn_queue'.list)
          BY <1>2, <2>2, <2>3, <4>3, SynFacts
        <4> QED
          BY <4>4, <4>5
      <3> QED
        BY <1>1, <1>7, <3>1, <3>2, <3>3 DEF OrderInv
    <2> QED
      BY <2>9, <2>10
  <1>12. SynInv' /\ OrderInv'
    BY <1>10, <1>11
  <1>13. AcceptInv'
    BY <1>2 DEF ListenerInv, AcceptInv
  <1>14. CountInv'
    BY <1>2 DEF ListenerInv, CountInv
  <1> QED
    BY <1>4, <1>8, <1>12, <1>13, <1>14 DEF ListenerInv

\* RemoveAt takes one element out.
LEMMA RemovesOne ==
    ASSUME NEW S, NEW s \in Seq(S), NEW i \in 1..Len(s)
    PROVE  RemoveAt(s, i) \in Seq(S) /\ Len(RemoveAt(s, i)) = Len(s) - 1
  <1> DEFINE n == Len(s)
             a == SubSeq(s, 1, i - 1)
             b == SubSeq(s, i + 1, n)
  <1>1. n \in Nat /\ i \in Nat /\ 1 <= i /\ i <= n /\ \A j \in 1..n : s[j] \in S
    OBVIOUS
  <1>2. a \in Seq(S) /\ Len(a) = i - 1
    <2>1. /\ a \in Seq(S)
          /\ Len(a) = IF 1 <= i - 1 THEN (i - 1) - 1 + 1 ELSE 0
      <3>1. \A j \in 1..(i - 1) : s[j] \in S
        BY <1>1
      <3>2. 1 \in Int /\ i - 1 \in Int
        BY <1>1
      <3> QED
        BY <3>1, <3>2, SubSeqProperties
    <2> HIDE DEF a
    <2> QED
      BY <1>1, <2>1
  <1>3. b \in Seq(S) /\ Len(b) = n - i
    <2>1. /\ b \in Seq(S)
          /\ Len(b) = IF i + 1 <= n THEN n - (i + 1) + 1 ELSE 0
      <3>1. \A j \in (i + 1)..n : s[j] \in S
        BY <1>1
      <3>2. i + 1 \in Int /\ n \in Int
        BY <1>1
      <3> QED
        BY <3>1, <3>2, SubSeqProperties
    <2> HIDE DEF b, n
    <2> QED
      BY <1>1, <2>1
  <1>4. RemoveAt(s, i) = a \o b
    BY DEF RemoveAt
  <1> HIDE DEF a, b, n
  <1>5. a \o b \in Seq(S) /\ Len(a \o b) = Len(a) + Len(b)
    BY <1>2, <1>3, ConcatProperties
  <1>6. Len(a) + Len(b) = n - 1
    BY <1>1, <1>2, <1>3
  <1> QED
    BY <1>4, <1>5, <1>6 DEF n

\* The ACK finds a node at base, and what it leaves in syn_queue.
LEMMA RemoveFacts ==
    ASSUME ListenerInv, NEW p \in Ports, listen_state[Slot(p)] = "SYN_RECV",
           Answered(net, p), NEW q, q = sockqueue_remove(syn_queue, saved_syn)
    PROVE  /\ ~RemoveCrashes(syn_queue) /\ RemoveTakes(syn_queue, saved_syn) \in Sockets
           /\ q \in Queues /\ Len(q.list) <= q.size
           /\ saved_syn = 0 => /\ syn_queue.list = <<p>> /\ q.list = <<>>
                               /\ q.size = syn_queue.size
                               /\ RemoveTakes(syn_queue, saved_syn) = p
           /\ saved_syn # 0 => q.list # <<>>
  <1> DEFINE list == syn_queue.list
             size == syn_queue.size
  <1>1. /\ list \in Seq(Sockets) /\ Len(list) \in Nat /\ size \in Nat /\ size <= MAX_QUEUE
        /\ Len(list) <= size /\ saved_syn \in Nat /\ MAX_QUEUE \in Nat
        /\ syn_queue = [list |-> list, size |-> size]
    BY SynFacts DEF SynInv
  <1>2. list # <<>>
    <2>1. CASE saved_syn = 0
      <3>1. list = <<p>>
        BY <2>1, SynFacts DEF SynInv
      <3> QED
        BY <3>1
    <2>2. CASE saved_syn # 0
      BY <2>2, SynFacts DEF SynInv
    <2> QED
      BY <2>1, <2>2
  <1>3. Len(list) # 0 /\ size # 0
    <2>1. Len(list) # 0
      BY <1>1, <1>2
    <2> QED
      BY <1>1, <2>1
  <1>4. ~RemoveCrashes(syn_queue) /\ ~sockqueue_is_empty(syn_queue)
    BY <1>2, <1>3 DEF RemoveCrashes, sockqueue_is_empty
  <1> HIDE DEF list, size
  <1>5. ASSUME saved_syn = 0
        PROVE  /\ list = <<p>> /\ RemoveTakes(syn_queue, saved_syn) = p
               /\ q = [list |-> <<>>, size |-> size]
    <2>1. list = <<p>>
      BY <1>5, SynFacts DEF SynInv, list
    <2>2. ~(saved_syn + 1 > Len(list)) /\ list[saved_syn + 1] = p
      BY <1>5, <2>1
    <2>3. RemoveTakes(syn_queue, saved_syn) = p
      BY <1>4, <2>2 DEF RemoveTakes, list
    <2>4. q = [syn_queue EXCEPT !.list = <<>>]
      BY <1>4, <1>5, <2>2 DEF sockqueue_remove, list
    <2>5. q = [list |-> <<>>, size |-> size]
      BY <1>1, <2>4
    <2> QED
      BY <2>1, <2>3, <2>5
  <1>6. ASSUME saved_syn # 0, saved_syn + 1 > Len(list)
        PROVE  q = syn_queue /\ RemoveTakes(syn_queue, saved_syn) \in Sockets
    BY <1>6 DEF sockqueue_remove, RemoveTakes, Sockets, list
  <1>7. ASSUME saved_syn # 0, ~(saved_syn + 1 > Len(list))
        PROVE  /\ q = [list |-> RemoveAt(list, saved_syn + 1), size |-> size - 1]
               /\ RemoveAt(list, saved_syn + 1) \in Seq(Sockets)
               /\ Len(RemoveAt(list, saved_syn + 1)) = Len(list) - 1
               /\ Len(list) > 1 /\ RemoveTakes(syn_queue, saved_syn) \in Sockets
    <2>1. saved_syn + 1 \in 1..Len(list) /\ Len(list) > 1
      BY <1>1, <1>7
    <2>2. q = [list |-> RemoveAt(list, saved_syn + 1), size |-> size - 1]
      BY <1>4, <1>7 DEF sockqueue_remove, list, size
    <2>3. RemoveTakes(syn_queue, saved_syn) = list[saved_syn + 1]
      BY <1>4, <1>7 DEF RemoveTakes, list
    <2>4. list[saved_syn + 1] \in Sockets
      BY <1>1, <2>1
    <2>5. RemoveAt(list, saved_syn + 1) \in Seq(Sockets)
          /\ Len(RemoveAt(list, saved_syn + 1)) = Len(list) - 1
      BY <1>1, <2>1, RemovesOne
    <2> QED
      BY <2>1, <2>2, <2>3, <2>4, <2>5
  <1>8. CASE saved_syn = 0
    <2>0. q = [list |-> <<>>, size |-> size] /\ size \in 0..MAX_QUEUE
          /\ <<>> \in Seq(Sockets)
      BY <1>1, <1>5, <1>8
    <2>1. q.list = <<>> /\ q.size = size /\ q \in Queues
      BY <2>0 DEF Queues
    <2>2. Len(q.list) <= q.size
      BY <1>1, <2>1
    <2>3. p \in Sockets
      BY DEF Sockets
    <2> QED
      BY <1>4, <1>5, <1>8, <2>1, <2>2, <2>3 DEF list, size
  <1>9. CASE saved_syn # 0 /\ saved_syn + 1 > Len(list)
    <2>1. syn_queue \in Queues
      BY SynFacts DEF SynInv
    <2> QED
      BY <1>1, <1>2, <1>4, <1>6, <1>9, <2>1 DEF list, size
  <1>10. CASE saved_syn # 0 /\ ~(saved_syn + 1 > Len(list))
    <2> DEFINE rest == RemoveAt(list, saved_syn + 1)
    <2>1. /\ q = [list |-> rest, size |-> size - 1] /\ rest \in Seq(Sockets)
          /\ Len(rest) = Len(list) - 1 /\ Len(list) > 1
          /\ RemoveTakes(syn_queue, saved_syn) \in Sockets
      BY <1>7, <1>10
    <2> HIDE DEF rest
    <2>2. size - 1 \in 0..MAX_QUEUE /\ Len(rest) # 0 /\ Len(rest) <= size - 1
      <3> DEFINE m == Len(list)
                 k == Len(rest)
      <3>1. /\ size \in Nat /\ size # 0 /\ size <= MAX_QUEUE /\ MAX_QUEUE \in Nat
            /\ m \in Nat /\ m <= size /\ k = m - 1 /\ m > 1
        BY <1>1, <1>3, <2>1
      <3> HIDE DEF m, k
      <3>2. size - 1 \in 0..MAX_QUEUE /\ k # 0 /\ k <= size - 1
        BY <3>1
      <3> QED
        BY <3>2 DEF k
    <2>3. rest # <<>>
      BY <2>2
    <2>4. q.list = rest /\ q.size = size - 1 /\ q \in Queues
      BY <2>1, <2>2 DEF Queues
    <2> QED
      BY <1>4, <1>10, <2>1, <2>2, <2>3, <2>4
  <1> QED
    BY <1>8, <1>9, <1>10

LEMMA ListenAckInv ==
    ASSUME ListenerInv, NEW buf \in net, ListenAck(buf) PROVE ListenerInv'
  <1> DEFINE p == get_src(buf)
             sock == RemoveTakes(syn_queue, saved_syn)
             full == accept_queue.size = MAX_QUEUE
             tail == IF accept_queue.list = <<>> THEN 0
                     ELSE popped + Len(accept_queue.list)
  <1>1. /\ p \in Ports /\ get_dst(buf) = ServerPort /\ listen_state[Slot(p)] = "SYN_RECV"
        /\ get_flags(buf) = ACK /\ push.at = "ready"
    BY DEF ListenAck, Reaches, ToListener, State
  <1>2. /\ listen_state' = [listen_state EXCEPT ![Slot(p)] = "ESTABLISHED"]
        /\ syn_queue' = sockqueue_remove(syn_queue, saved_syn)
        /\ crashed' = (crashed \/ RemoveCrashes(syn_queue))
        /\ push' = [at |-> IF full THEN "ready" ELSE "link", sock |-> sock,
                    tail |-> tail, size |-> 0]
        /\ completed' = Append(completed, p) /\ net' = net \ {buf}
        /\ client' = client /\ deceived' = deceived
        /\ UNCHANGED <<saved_syn, accept_queue, popped, raced, accept, accepted,
                       overlapped>>
    BY DEF ListenAck, application, network
  <1>3. Answered(net, p)
    <2>1. Answers(buf, p)
      BY <1>1 DEF Answers, FromClient
    <2> QED
      BY <2>1 DEF Answered
  <1> HIDE DEF p
  <1>4. /\ ~RemoveCrashes(syn_queue) /\ sock \in Sockets
        /\ syn_queue' \in Queues /\ Len(syn_queue'.list) <= syn_queue'.size
        /\ saved_syn = 0 => /\ syn_queue.list = <<p>> /\ syn_queue'.list = <<>>
                            /\ syn_queue'.size = syn_queue.size /\ sock = p
        /\ saved_syn # 0 => syn_queue'.list # <<>>
    BY <1>1, <1>2, <1>3, RemoveFacts
  <1> HIDE DEF sock
  <1>5. \A q \in Ports : Answered(net', q) => Answered(net, q)
    BY <1>2 DEF Answered
  <1>6. /\ listen_state' \in [Slots -> Phases] /\ listen_state'[Slot(p)] = "ESTABLISHED"
        /\ \A q \in Ports : q # p => listen_state'[Slot(q)] = listen_state[Slot(q)]
    <2> "ESTABLISHED" \in Phases
      BY DEF Phases
    <2> QED
      BY <1>1, <1>2, SlotChanges
  <1>7. NetInv'
    BY <1>2 DEF ListenerInv, NetInv
  <1>8. PhaseInv'
    <2>1. \A q \in Ports : Answered(net', q) => listen_state'[Slot(q)] # "LISTEN"
      BY <1>5, <1>6, SynFacts DEF PhaseInv
    <2> QED
      BY <1>2, <1>6, <2>1, SynFacts DEF PhaseInv
  <1>9. SynInv'
    <2>1. ASSUME saved_syn = 0, NEW q \in Ports, listen_state'[Slot(q)] = "SYN_RECV",
                 Answered(net', q)
          PROVE  FALSE
      <3>1. q # p
        BY <1>6, <2>1
      <3>2. listen_state[Slot(q)] = "SYN_RECV" /\ Answered(net, q)
        BY <1>5, <1>6, <2>1, <3>1
      <3>3. syn_queue.list = <<q>>
        BY <2>1, <3>2, SynFacts DEF SynInv
      <3>4. syn_queue.list = <<p>>
        BY <1>4, <2>1
      <3> QED
        BY <3>1, <3>3, <3>4
    <2>2. saved_syn' = saved_syn /\ saved_syn \in 0..MAX_QUEUE
      BY <1>2, SynFacts DEF SynInv
    <2> QED
      BY <1>4, <2>1, <2>2 DEF SynInv
  <1>10. push'.at = (IF full THEN "ready" ELSE "link") /\ push'.sock = sock
         /\ push' \in [at : {"ready", "link", "count", "store"}, sock : Sockets, tail : Nat,
                       size : 0..MAX_QUEUE]
    <2>1. tail \in Nat /\ 0 \in 0..MAX_QUEUE
      BY QueueFacts
    <2> HIDE DEF tail, full
    <2>2. (IF full THEN "ready" ELSE "link") \in {"ready", "link", "count", "store"}
      OBVIOUS
    <2> QED
      BY <1>2, <1>4, <2>1, <2>2
  <1>11. AcceptInv'
    <2>1. push'.at \in {"link", "count"} => accept_queue.size < MAX_QUEUE
      BY <1>10, QueueFacts
    <2>2. push'.at # "store"
      BY <1>10
    <2> QED
      BY <1>2, <1>10, <2>1, <2>2, QueueFacts DEF AcceptInv
  <1> HIDE DEF full, tail
  <1>12. push.at \notin {"count", "store"} /\ push'.at \notin {"count", "store"}
    BY <1>1, <1>10
  <1>13. CountInv'
    <2>1. crashed' \in BOOLEAN /\ (crashed = FALSE => crashed' = FALSE)
      <3>1. crashed \in BOOLEAN
        BY QueueFacts DEF CountInv
      <3> QED
        BY <1>2, <1>4, <3>1, Zenon
    <2> QED
      BY <1>2, <1>12, <2>1, QueueFacts DEF CountInv
  <1>14. overlapped \in BOOLEAN /\ completed \in Seq(Ports) /\ completed' \in Seq(Ports)
         /\ Len(completed) \in Nat /\ Len(completed') = Len(completed) + 1
    <2>1. overlapped \in BOOLEAN /\ completed \in Seq(Ports)
      BY SynFacts DEF OrderInv
    <2>2. Append(completed, p) \in Seq(Ports)
          /\ Len(Append(completed, p)) = Len(completed) + 1
      BY <1>1, <2>1, AppendProperties
    <2> QED
      BY <1>2, <2>1, <2>2
  <1>15. ASSUME ~overlapped
         PROVE  /\ saved_syn = 0 /\ syn_queue.list = <<p>> /\ syn_queue'.list = <<>>
                /\ sock = p /\ syn_queue.size = Len(completed) + 1
                /\ syn_queue'.size = Len(completed')
    <2>1. saved_syn = 0 /\ syn_queue.size = Len(completed) + Len(syn_queue.list)
      BY <1>15, SynFacts DEF OrderInv
    <2>2. /\ syn_queue.list = <<p>> /\ syn_queue'.list = <<>>
          /\ syn_queue'.size = syn_queue.size /\ sock = p
      BY <1>4, <2>1
    <2>3. Len(syn_queue.list) = 1
      BY <2>2
    <2> QED
      BY <1>14, <2>1, <2>2, <2>3
  <1>16. AcceptsCompleted'
    <2> SUFFICES ASSUME ~overlapped, ~raced
                 PROVE  completed' = accepted \o accept_queue.list
                                     \o (IF push'.at = "link" THEN <<push'.sock>> ELSE <<>>)
      BY <1>2 DEF AcceptsCompleted
    <2> DEFINE list == accept_queue.list
    <2>1. completed = accepted \o list \o <<>>
      <3> push.at # "link"
        BY <1>1
      <3> QED
        BY QueueFacts DEF AcceptsCompleted
    <2>2. accepted \in Seq(Sockets) /\ list \in Seq(Sockets) /\ sock \in Sockets
      BY <1>4, QueueFacts
    <2>3. completed = accepted \o list /\ Len(completed) = Len(accepted) + Len(list)
      <3> HIDE DEF list
      <3>1. accepted \o list \in Seq(Sockets)
            /\ Len(accepted \o list) = Len(accepted) + Len(list)
        BY <2>2, ConcatProperties
      <3>2. accepted \o list \o <<>> = accepted \o list
        BY <3>1, ConcatEmptySeq
      <3> QED
        BY <2>1, <3>1, <3>2
    <2>4. accept_queue.size = Len(list)
                              + (IF accept.at \in {"count", "store"} THEN 1 ELSE 0)
      BY <1>12, QueueFacts DEF CountInv
    <2>5. accept.at \in {"count", "store"} => Len(accepted) # 0
      <3>1. accept.at \in {"count", "store"} => accepted # <<>>
        BY QueueFacts DEF CountInv
      <3> QED
        BY <2>2, <3>1
    <2>6. Len(accepted) \in Nat /\ Len(list) \in Nat
      BY <2>2
    <2>7. accept_queue.size <= Len(completed)
      BY <2>3, <2>4, <2>5, <2>6
    <2>8. syn_queue.size = Len(completed) + 1 /\ syn_queue.size <= MAX_QUEUE
          /\ syn_queue.size \in Nat /\ MAX_QUEUE \in Nat
      BY <1>15, SynFacts
    <2>9. ~full
      <3> accept_queue.size # MAX_QUEUE
        BY <1>14, <2>7, <2>8, QueueFacts
      <3> QED
        BY DEF full
    <2>10. push'.at = "link" /\ push'.sock = p
      BY <1>10, <1>15, <2>9
    <2>11. completed' = Append(accepted \o list, p)
      BY <1>2, <2>3
    <2>12. p \in Sockets
      BY <1>1 DEF Sockets
    <2>13. Append(accepted \o list, p) = accepted \o list \o <<p>>
      <3> HIDE DEF list
      <3>1. accepted \o list \in Seq(Sockets)
        BY <2>2, ConcatProperties
      <3> QED
        BY <2>12, <3>1, AppendIsConcat
    <2> QED
      BY <2>10, <2>11, <2>13
  <1>17. OrderInv'
    <2>1. overlapped' = overlapped /\ saved_syn' = saved_syn
      BY <1>2
    <2>2. ASSUME ~overlapped
          PROVE  /\ saved_syn' = 0 /\ syn_queue'.list = <<>>
                 /\ syn_queue'.size = Len(completed') + Len(syn_queue'.list)
      <3>1. syn_queue'.list = <<>> /\ syn_queue'.size = Len(completed') /\ saved_syn = 0
        BY <1>15, <2>2
      <3>2. Len(syn_queue'.list) = 0
        BY <3>1
      <3> QED
        BY <1>14, <2>1, <3>1, <3>2
    <2> QED
      BY <1>14, <1>16, <2>1, <2>2 DEF OrderInv
  <1> QED
    BY <1>7, <1>8, <1>9, <1>11, <1>13, <1>17 DEF ListenerInv
-----------------------------------------------------------------------------
LEMMA NextInv == ASSUME ListenerInv, [Next]_vars PROVE ListenerInv'
  <1>1. CASE Clients
    <2>1. PICK p \in Ports : \/ tcp_connect(p) \/ ClientWrites(p) \/ ClientRepeats(p)
                             \/ \E buf \in net : tcp_rcv_state_client(p, buf)
      BY <1>1 DEF Clients
    <2> QED
      BY <2>1, ConnectInv, WriteInv, RepeatInv, ClientInv
  <1>2. CASE Network
    <2>1. PICK buf \in net : \E i \in DOMAIN buf, d \in Deltas : Damage(buf, i, d)
      BY <1>2 DEF Network
    <2>2. PICK i \in DOMAIN buf, d \in Deltas : Damage(buf, i, d)
      BY <2>1
    <2> QED
      BY <2>2, DamageInv
  <1>3. CASE ReceiveThread
    <2>1. CASE \E buf \in net : Dropped(buf) \/ ListenSyn(buf) \/ ListenAck(buf)
      BY <2>1, DroppedInv, ListenSynInv, ListenAckInv
    <2>2. CASE \E at \in 0..Cardinality(Ports) : PushLinks(at)
      BY <2>2, PushLinksInv
    <2>3. CASE PushReads
      BY <2>3, PushReadsInv
    <2>4. CASE PushCounts
      BY <2>4, PushCountsInv
    <2> QED
      BY <1>3, <2>1, <2>2, <2>3, <2>4 DEF ReceiveThread
  <1>4. CASE Accept
    BY <1>4, AcceptPollsInv, AcceptPopsInv, AcceptReadsInv, AcceptReturnsInv DEF Accept
  <1>5. CASE UNCHANGED vars
    <2>1. UNCHANGED <<server, queue, application, crashed, completed, overlapped>>
          /\ UNCHANGED <<net, client, deceived>>
      BY <1>5 DEF vars, network
    <2>2. /\ client' \in [Ports -> {"closed", "SYN_SENT", "ESTABLISHED", "wrote"}]
          /\ deceived' = FALSE /\ \A buf \in net' : Good(buf)
          /\ \A p \in Ports : Answered(net', p) => Answered(net, p)
      BY <2>1 DEF ListenerInv, NetInv, PhaseInv
    <2> QED
      BY <2>1, <2>2, Quiet
  <1> QED
    BY <1>1, <1>2, <1>3, <1>4, <1>5 DEF Next

\* The inductive invariant holds in every reachable state of the listener and its clients.
THEOREM Invariance == Spec => []ListenerInv
  <1>1. Init => ListenerInv
    BY InitInv
  <1>2. ListenerInv /\ [Next]_vars => ListenerInv'
    BY NextInv
  <1> QED
    BY <1>1, <1>2, PTL DEF Spec

\* The counters of both socket queues stay within MAX_QUEUE, whatever push and pop of
\* accept_queue do to each other; the queues hold sockets and the packets are bytes.
THEOREM TypeCorrect == Spec => []TypeOK
  <1>1. ASSUME ListenerInv PROVE TypeOK
    <2>1. \A p \in Ports : client[p] \in {"closed", "SYN_SENT", "ESTABLISHED", "wrote"}
      BY <1>1 DEF ListenerInv, PhaseInv
    <2>2. \A s \in DOMAIN listen_state :
             listen_state[s] \in {"LISTEN", "SYN_RECV", "ESTABLISHED"}
      BY <1>1 DEF ListenerInv, PhaseInv, Phases
    <2>3. ASSUME NEW s \in Seq(Sockets) PROVE ToSet(s) \subseteq Sockets
      BY <2>3 DEF ToSet
    <2>4. \A q \in Queues : q.size \in 0..MAX_QUEUE /\ ToSet(q.list) \subseteq Sockets
      BY <2>3 DEF Queues
    <2>5. syn_queue \in Queues /\ accept_queue \in Queues /\ saved_syn \in 0..MAX_QUEUE
      BY <1>1 DEF ListenerInv, SynInv, AcceptInv
    <2>6. /\ ToSet(accepted) \subseteq Sockets
          /\ push.at \in {"ready", "link", "count", "store"}
          /\ accept.at \in {"poll", "pop", "count", "store"}
      BY <1>1, <2>3 DEF ListenerInv, AcceptInv
    <2>7. ASSUME NEW buf \in net, NEW i \in DOMAIN buf PROVE buf[i] \in 0..255
      <3>1. buf \in Seq(Byte)
        BY <1>1 DEF ListenerInv, NetInv, Good, Whole
      <3>2. buf[i] \in Byte
        BY <3>1
      <3> QED
        BY <3>2, Bytes
    <2> QED
      BY <2>1, <2>2, <2>4, <2>5, <2>6, <2>7 DEF TypeOK
  <1> QED
    BY <1>1, Invariance, PTL

\* tcp_check notices every change of one byte that counts in tcp_compute_checksum: no
\* damaged packet reaches a socket but by the upper halves of seq_num and ack_num.
THEOREM DamageIsNoticed == Spec => []DamageNoticed
  <1>1. ListenerInv => DamageNoticed
    BY DEF ListenerInv, NetInv, DamageNoticed
  <1> QED
    BY <1>1, Invariance, PTL

\* buf_to_packet reads what create_packet_buf wrote, for all ports, numbers and windows.
THEOREM PacketsAreReadable == Spec => []PacketsReadable
  <1>1. ASSUME ListenerInv PROVE PacketsReadable
    <2>1. ASSUME NEW buf \in net
          PROVE  /\ Len(buf) = get_plen(buf) /\ get_hlen(buf) = HEADER_LEN
                 /\ packet_to_buf(buf_to_packet(buf)) = buf
                 /\ tcp_check(buf_to_packet(buf))
      <3>1. Whole(buf) /\ Passes(buf)
        BY <1>1 DEF ListenerInv, NetInv, Good
      <3>2. packet_to_buf(buf_to_packet(buf)) = buf
        BY <3>1, RoundTrip
      <3> QED
        BY <3>1, <3>2 DEF Whole, Passes, HEADER_LEN
    <2> QED
      BY <2>1 DEF PacketsReadable
  <1> QED
    BY <1>1, Invariance, PTL

\* tcp_rcv_state_server never follows the null base of syn_queue, although
\* sockqueue_remove keeps a size without a list; tcp_accept follows that of accept_queue
\* only after a push met a pop.
THEOREM NoNull == Spec => []NoNullFollowed
  <1>1. ListenerInv => NoNullFollowed
    BY DEF ListenerInv, CountInv, NoNullFollowed
  <1> QED
    BY <1>1, Invariance, PTL

\* With any number of clients, tcp_accept returns those whose handshake completed, in that
\* order and each once, as long as handshakes do not overlap and no push meets a pop.
THEOREM AcceptOrder == Spec => []AcceptsCompleted
  <1>1. ListenerInv => AcceptsCompleted
    BY DEF ListenerInv, OrderInv
  <1> QED
    BY <1>1, Invariance, PTL
=============================================================================
