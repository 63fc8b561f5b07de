---------------------------- MODULE Rfc6979Proofs ----------------------------
(***************************************************************************)
(* Proofs about module Rfc6979, for every curve that meets the contract,   *)
(* every hash length, HMAC, and sequence of calls: the generator asks what *)
(* RFC 6979 asks, returns the first candidate in range, and two calls meet *)
(* only when their inputs agree.                                           *)
(***************************************************************************)
EXTENDS Rfc6979, CurveProofs

-----------------------------------------------------------------------------
(* Octets: a candidate is assembled from the left                          *)

LEMMA PrefixOfSlice ==
  ASSUME NEW m \in 0 .. SLICE_BYTES, NEW x \in Slices(m), NEW n \in 0 .. m
  PROVE  /\ Prefix(x, n) \in Slices(n) /\ x.len = m
         /\ Prefix(x, n) = [len |-> n, val |-> x.val \div Width(m - n)]
         /\ Prefix(x, m) = x
<1>1. /\ m - n \in Nat /\ n + (m - n) = m /\ m - m = 0 /\ m \in Nat /\ n \in Nat
      /\ m <= SLICE_BYTES
  BY OctetsAssumption
<1>2. /\ m - n \in 0 .. SLICE_BYTES /\ n \in 0 .. SLICE_BYTES /\ 0 \in 0 .. SLICE_BYTES
  BY <1>1, OctetsAssumption
<1> DEFINE w == Width(m - n)
           u == Width(n)
           v == x.val
<1>3. w \in Nat \ {0} /\ u \in Nat \ {0}
  BY <1>2, WidthType
<1>4. Width(m) = u * w
  BY <1>1, WidthSum
<1>5. v \in 0 .. u * w - 1 /\ x.len = m /\ x = [len |-> m, val |-> v]
  BY <1>4 DEF Slices
<1>6. Prefix(x, n) = [len |-> n, val |-> v \div w]
  BY <1>5 DEF Prefix
<1> HIDE DEF w, u
<1>7. v \div w \in 0 .. u - 1
  BY <1>3, <1>5, DigitsOf
<1>8. Prefix(x, m) = x
  <2>1. Width(0) = 1
    <3>1. BYTE_BITS * 0 = 0
      BY OctetsAssumption
    <3>2. QED
      BY <3>1, PowersOfTwo DEF Width
  <2>2. v \in Int
    BY <1>3, <1>5
  <2>3. v \div 1 = v
    BY <2>2
  <2>4. QED
    BY <1>1, <1>5, <2>1, <2>3 DEF Prefix
<1>9. QED
  BY <1>5, <1>6, <1>7, <1>8 DEF Slices, u, w

\* To take the first octets of an output is to cut the whole run.
LEMMA TakeIsACut ==
  ASSUME NEW m \in Nat, NEW h \in Nat, m + h <= SLICE_BYTES,
         NEW x \in Slices(m), NEW y \in Slices(h), NEW n \in 0 .. h
  PROVE  Concat(x, Prefix(y, n)) = Prefix(Concat(x, y), m + n)
<1> DEFINE w == Width(h - n)
           u == Width(n)
           a == x.val
           b == y.val
<1>1. /\ h \in 0 .. SLICE_BYTES /\ n \in 0 .. SLICE_BYTES /\ h - n \in 0 .. SLICE_BYTES
      /\ n \in Nat /\ h - n \in Nat /\ n + (h - n) = h /\ (m + h) - (m + n) = h - n
  BY OctetsAssumption
<1>2. w \in Nat \ {0} /\ u \in Nat \ {0} /\ Width(h) = u * w
  <2>1. Width(n + (h - n)) = u * w
    BY <1>1, WidthSum
  <2>2. QED
    BY <1>1, <2>1, WidthType
<1>3. /\ x.len = m /\ y.len = h /\ a \in Nat /\ b \in Nat
      /\ Prefix(y, n) = [len |-> n, val |-> b \div w]
  BY <1>1, PrefixOfSlice DEF Slices
<1>4. Concat(x, y) = [len |-> m + h, val |-> a * (u * w) + b]
  BY <1>2, <1>3 DEF Concat
<1>5. Prefix(Concat(x, y), m + n) = [len |-> m + n, val |-> (a * (u * w) + b) \div w]
  BY <1>1, <1>4 DEF Prefix
<1>6. Concat(x, Prefix(y, n)) = [len |-> m + n, val |-> a * u + (b \div w)]
  BY <1>3 DEF Concat
<1> HIDE DEF w, u, a, b
<1> DEFINE q == b \div w
           r == b % w
<1>7. b = w * q + r /\ q \in Int /\ r \in 0 .. w - 1
  <2>1. b \in Int /\ w \in Nat \ {0}
    BY <1>2, <1>3
  <2>2. QED
    BY <2>1, DivMod
<1> HIDE DEF q, r
<1> DEFINE v == a * (u * w) + b
<1>8. v = w * (a * u + q) + r /\ v \in Int /\ a * u + q \in Int
  <2>1. a * (u * w) = w * (a * u) /\ w * (a * u + q) = w * (a * u) + w * q /\ a * u \in Int
    BY <1>2, <1>3, <1>7
  <2>2. QED
    BY <1>2, <1>3, <1>7, <2>1
<1> HIDE DEF v
<1>9. v \div w = a * u + q
  BY <1>2, <1>7, <1>8, DivModUnique
<1>10. QED
  BY <1>5, <1>6, <1>9 DEF v, q

\* The octets past the width of an element do not matter.
LEMMA LeftmostBitsOfPrefix ==
  ASSUME NEW m \in 0 .. SLICE_BYTES, ELEM_BYTES <= m, NEW x \in Slices(m)
  PROVE  LeftmostBits(Prefix(x, ELEM_BYTES), NBits) = LeftmostBits(x, NBits)
<1> DEFINE rest == m - ELEM_BYTES
           v == x.val
           e == ELEM_BYTES * BYTE_BITS - NBits
           w == BYTE_BITS * rest
<1>1. /\ ELEM_BYTES \in 0 .. m /\ rest \in 0 .. SLICE_BYTES
      /\ BYTE_BITS \in Nat /\ ELEM_BYTES \in Nat /\ m \in Nat
  BY OctetsAssumption
<1>2. /\ Prefix(x, ELEM_BYTES) = [len |-> ELEM_BYTES, val |-> v \div 2^w]
      /\ x.len = m /\ v \in Nat
  BY <1>1, PrefixOfSlice DEF Width, Slices
<1>3. /\ NBits \in Int /\ e \in Nat /\ w \in 0 .. LongestShift /\ w \in Nat
      /\ m * BYTE_BITS - NBits = w + e /\ ELEM_BYTES * BYTE_BITS - NBits = e
  <2>1. NBits \in Int /\ NBits <= BYTE_BITS * ELEM_BYTES
    BY <1>1, LengthOfN
  <2>2. /\ BYTE_BITS * (m - ELEM_BYTES) = BYTE_BITS * m - BYTE_BITS * ELEM_BYTES
        /\ BYTE_BITS * m = m * BYTE_BITS /\ BYTE_BITS * ELEM_BYTES = ELEM_BYTES * BYTE_BITS
        /\ BYTE_BITS * m \in Int /\ BYTE_BITS * ELEM_BYTES \in Int
    BY <1>1
  <2>3. w \in 0 .. LongestShift
    BY <1>1, WidthType
  <2>4. QED
    BY <2>1, <2>2, <2>3, LongestShiftType
<1>4. w + e <= LongestShift
  <2>1. m * BYTE_BITS <= LongestShift
    <3>1. BYTE_BITS * m <= BYTE_BITS * SLICE_BYTES /\ BYTE_BITS * m = m * BYTE_BITS
      BY <1>1, OctetsAssumption
    <3>2. QED
      BY <3>1 DEF LongestShift
  <2>2. NBits >= 0 /\ m * BYTE_BITS \in Int
    BY <1>1, LengthOfN
  <2>3. QED
    BY <1>3, <2>1, <2>2, LongestShiftType
<1> HIDE DEF w, e
<1>5. e \in 0 .. LongestShift /\ 2^w \in Nat \ {0} /\ 2^e \in Nat \ {0}
  BY <1>3, <1>4, LongestShiftType, PowersOfTwo
<1>6. 2^(w + e) = 2^w * 2^e
  BY <1>3, <1>4, PowerSplit
<1>7. (v \div 2^w) \div 2^e = v \div 2^(w + e)
  BY <1>2, <1>5, <1>6, DivDiv
<1>8. LeftmostBits(x, NBits) = v \div 2^(w + e)
  <2>1. CASE w + e = 0
    <3>1. 2^(w + e) = 2^0 /\ 2^0 = 1
      BY <2>1, PowersOfTwo
    <3>2. m * BYTE_BITS <= NBits /\ v \div 1 = v
      BY <1>1, <1>2, <1>3, <2>1
    <3>3. QED
      BY <1>2, <3>1, <3>2 DEF LeftmostBits
  <2>2. CASE w + e # 0
    <3>1. ~(m * BYTE_BITS <= NBits)
      BY <1>1, <1>3, <2>2
    <3>2. QED
      BY <1>2, <1>3, <3>1 DEF LeftmostBits
  <2>3. QED
    BY <2>1, <2>2
<1>9. LeftmostBits(Prefix(x, ELEM_BYTES), NBits) = (v \div 2^w) \div 2^e
  <2> DEFINE p == Prefix(x, ELEM_BYTES)
             a == v \div 2^w
  <2>1. p.len = ELEM_BYTES /\ p.val = a /\ a \in Nat
    BY <1>2, <1>5, DivModNat
  <2> HIDE DEF p, a
  <2>2. CASE e = 0
    <3>1. 2^e = 2^0 /\ 2^0 = 1
      BY <2>2, PowersOfTwo
    <3>2. p.len * BYTE_BITS <= NBits /\ a \div 1 = a
      BY <1>1, <1>3, <2>1, <2>2
    <3>3. QED
      BY <2>1, <3>1, <3>2 DEF LeftmostBits, p, a
  <2>3. CASE e # 0
    <3>1. ~(p.len * BYTE_BITS <= NBits) /\ p.len * BYTE_BITS - NBits = e
      BY <1>1, <1>3, <2>1, <2>3
    <3>2. QED
      BY <2>1, <3>1 DEF LeftmostBits, p, a
  <2>4. QED
    BY <2>2, <2>3
<1>10. QED
  BY <1>7, <1>8, <1>9

\* Outputs per candidate: enough, and none too many.
LEMMA BlocksOf ==
  ASSUME NEW h \in Nat \ {0}
  PROVE  /\ Blocks(h) \in Nat \ {0}
         /\ ELEM_BYTES <= Blocks(h) * h /\ Blocks(h) * h < ELEM_BYTES + h
<1> DEFINE x == ELEM_BYTES + h - 1
           c == x \div h
           r == x % h
<1>1. x \in Int /\ x = ELEM_BYTES + h - 1 /\ ELEM_BYTES \in Nat \ {0}
  BY OctetsAssumption
<1>2. Blocks(h) = c
  BY DEF Blocks
<1> HIDE DEF x
<1>3. x = h * c + r /\ c \in Int /\ r \in 0 .. h - 1
  BY <1>1, DivMod
<1> HIDE DEF c, r
<1>4. h * c = c * h /\ c * h \in Int
  BY <1>3
<1>5. c > 0
  <2>1. c <= 0 => c * h <= 0
    BY <1>3
  <2>2. QED
    BY <1>1, <1>3, <1>4, <2>1
<1>6. QED
  BY <1>1, <1>2, <1>3, <1>4, <1>5

-----------------------------------------------------------------------------
(* The table of questions                                                  *)

Strings == [len : Nat, val : Nat]
Questions == [hlen : Nat, key : Nat, v : Nat, tail : Strings]
Entries == [question : Questions, octets : Strings]

\* Questions are asked about outputs that were there before, and once each.
TableOK(table) ==
  /\ table \in Seq(Entries)
  /\ \A j \in DOMAIN table : table[j].question.key < j /\ table[j].question.v < j
  /\ \A i, j \in DOMAIN table : table[i].question = table[j].question => i = j

\* What was in the table stays.
IsWider(wider, table) ==
  \A j \in DOMAIN table : j \in DOMAIN wider /\ wider[j] = table[j]

LEMMA AppendIs ==
  ASSUME NEW S, NEW s \in Seq(S), NEW x \in S
  PROVE  /\ Append(s, x) \in Seq(S) /\ Len(s) \in Nat /\ DOMAIN s = 1 .. Len(s)
         /\ Len(Append(s, x)) = Len(s) + 1 /\ DOMAIN Append(s, x) = 1 .. Len(s) + 1
         /\ \A j \in 1 .. Len(s) : Append(s, x)[j] = s[j]
         /\ Append(s, x)[Len(s) + 1] = x
OBVIOUS

LEMMA SlicesAreStrings ==
  /\ Empty \in Strings /\ \A v \in Nat : Octet(v) \in Strings
  /\ \A s : IsSlice(s) => s \in Strings
  /\ \A a, b \in Strings : b.len <= SLICE_BYTES => Concat(a, b) \in Strings
<1>1. Empty \in Strings /\ \A v \in Nat : Octet(v) \in Strings
  BY DEF Empty, Octet, Strings
<1>2. ASSUME NEW s, IsSlice(s) PROVE s \in Strings
  <2>1. s.len \in 0 .. SLICE_BYTES /\ SLICE_BYTES \in Nat /\ s \in Slices(s.len)
    BY <1>2, OctetsAssumption DEF IsSlice
  <2>2. Width(s.len) \in Nat \ {0}
    BY <2>1, WidthType
  <2>3. s.val \in Nat /\ s.len \in Nat /\ s = [len |-> s.len, val |-> s.val]
    BY <2>1, <2>2 DEF Slices
  <2>4. QED
    BY <2>3 DEF Strings
<1>3. ASSUME NEW a \in Strings, NEW b \in Strings, b.len <= SLICE_BYTES
      PROVE  Concat(a, b) \in Strings
  <2>1. b.len \in 0 .. SLICE_BYTES
    BY <1>3, OctetsAssumption DEF Strings
  <2> DEFINE w == Width(b.len)
  <2>2. w \in Nat
    BY <2>1, WidthType
  <2> HIDE DEF w
  <2>3. a.val * w + b.val \in Nat /\ a.len + b.len \in Nat
    BY <2>2 DEF Strings
  <2>4. QED
    BY <2>3 DEF Concat, Strings, w
<1>4. QED
  BY <1>1, <1>2, <1>3

\* One question, asked.
LEMMA AskGrows ==
  ASSUME NEW table, TableOK(table), NEW q \in Questions, NEW octets \in Strings,
         q.key <= Len(table), q.v <= Len(table)
  PROVE  LET wider == Ask(table, q, octets)
             x == Name(wider, q)
         IN  /\ TableOK(wider) /\ IsWider(wider, table)
             /\ x \in DOMAIN wider /\ wider[x].question = q
             /\ q.key < x /\ q.v < x /\ x \in Nat \ {0} /\ x <= Len(wider)
             /\ wider # table => wider[x].octets = octets
<1> DEFINE wider == Ask(table, q, octets)
           x == Name(wider, q)
           e == [question |-> q, octets |-> octets]
<1>1. table \in Seq(Entries) /\ e \in Entries
  BY DEF TableOK, Entries
<1>2. CASE \E j \in DOMAIN table : table[j].question = q
  <2>1. wider = table
    BY <1>2 DEF Ask
  <2>2. x \in DOMAIN table /\ table[x].question = q
    BY <1>2, <2>1 DEF Name
  <2>3. x \in Nat \ {0} /\ x <= Len(table)
    BY <1>1, <2>2
  <2>4. q.key < x /\ q.v < x
    BY <2>2 DEF TableOK
  <2>5. QED
    BY <2>1, <2>2, <2>3, <2>4 DEF IsWider
<1>3. CASE ~\E j \in DOMAIN table : table[j].question = q
  <2> DEFINE n == Len(table) + 1
  <2>1. wider = Append(table, e)
    BY <1>3 DEF Ask
  <2>2. /\ wider \in Seq(Entries) /\ Len(table) \in Nat /\ DOMAIN table = 1 .. Len(table)
        /\ Len(wider) = n /\ DOMAIN wider = 1 .. n /\ n \in Nat \ {0} /\ n \in DOMAIN wider
        /\ \A j \in DOMAIN table : wider[j] = table[j] /\ j \in DOMAIN wider
        /\ wider[n] = e /\ wider[n].question = q /\ wider[n].octets = octets
        /\ \A j \in DOMAIN wider : j = n \/ j \in DOMAIN table
    BY <1>1, <2>1, AppendIs
  <2>3. q.key \in Nat /\ q.v \in Nat /\ q.key < n /\ q.v < n
    BY <2>2 DEF Questions
  <2> HIDE DEF wider, e, n
  <2>4. \A j \in DOMAIN wider : wider[j].question = q => j = n
    BY <1>3, <2>2
  <2>5. x = n
    BY <2>2, <2>4 DEF Name
  <2>6. \A j \in DOMAIN wider : wider[j].question.key < j /\ wider[j].question.v < j
    BY <2>2, <2>3 DEF TableOK
  <2>7. \A i, j \in DOMAIN wider : wider[i].question = wider[j].question => i = j
    BY <2>2, <2>4 DEF TableOK
  <2>8. TableOK(wider)
    BY <2>2, <2>6, <2>7 DEF TableOK
  <2>9. IsWider(wider, table)
    BY <2>2 DEF IsWider
  <2>10. x \in DOMAIN wider /\ wider[x].question = q /\ wider[x].octets = octets
         /\ q.key < x /\ q.v < x /\ x \in Nat \ {0} /\ x <= Len(wider)
    BY <2>2, <2>3, <2>5
  <2>11. QED
    BY <2>8, <2>9, <2>10 DEF wider
<1>4. QED
  BY <1>2, <1>3

LEMMA WiderIsTransitive ==
  ASSUME NEW t1, NEW t2, NEW t3, IsWider(t2, t1), IsWider(t3, t2)
  PROVE  IsWider(t3, t1)
BY DEF IsWider

\* K = HMAC_K(V || tail), V = HMAC_K(V).
LEMMA UpdateKVGrows ==
  ASSUME TableOK(oracle), call.hlen \in Nat, K \in 0 .. Len(oracle), V \in 0 .. Len(oracle),
         NEW tail \in Strings, UpdateKV(tail)
  PROVE  /\ TableOK(oracle') /\ IsWider(oracle', oracle)
         /\ K' \in DOMAIN oracle' /\ V' \in DOMAIN oracle'
         /\ oracle'[K'].question = Question(call.hlen, K, V, tail)
         /\ oracle'[V'].question = Question(call.hlen, K', V, Empty)
         /\ K < K' /\ V < K' /\ K' < V' /\ K' \in Nat /\ V' \in Nat
         /\ asked' = asked \o <<K', V'>>
<1> DEFINE q == Question(call.hlen, K, V, tail)
           table == Ask(oracle, q, Empty)
           key == Name(table, q)
           qv == Question(call.hlen, key, V, Empty)
           wider == Ask(table, qv, Empty)
<1>1. oracle \in Seq(Entries) /\ Len(oracle) \in Nat
  BY DEF TableOK
<1>2. /\ q \in Questions /\ q.key = K /\ q.v = V /\ K <= Len(oracle) /\ V <= Len(oracle)
      /\ Empty \in Strings /\ K \in Nat /\ V \in Nat
  BY <1>1, SlicesAreStrings DEF Question, Questions
<1>3. /\ K' = key /\ oracle' = wider /\ V' = Name(wider, qv) /\ asked' = asked \o <<K', V'>>
  BY DEF UpdateKV
<1> HIDE DEF q
<1>4. /\ TableOK(table) /\ IsWider(table, oracle)
      /\ key \in DOMAIN table /\ table[key].question = q
      /\ K < key /\ V < key /\ key \in Nat \ {0} /\ key <= Len(table)
  BY <1>2, AskGrows
<1> HIDE DEF table, key
<1>5. Len(table) \in Nat
  BY <1>4 DEF TableOK
<1>6. qv \in Questions /\ qv.key = key /\ qv.v = V /\ key <= Len(table) /\ V <= Len(table)
  BY <1>1, <1>2, <1>4, <1>5, SlicesAreStrings DEF Question, Questions
<1> HIDE DEF qv
<1>7. /\ TableOK(wider) /\ IsWider(wider, table)
      /\ V' \in DOMAIN wider /\ wider[V'].question = qv
      /\ key < V' /\ V' \in Nat
  <2> DEFINE x == Name(wider, qv)
  <2>1. qv.key <= Len(table) /\ qv.v <= Len(table)
    BY <1>6
  <2>2. /\ TableOK(wider) /\ IsWider(wider, table)
        /\ x \in DOMAIN wider /\ wider[x].question = qv /\ qv.key < x /\ x \in Nat \ {0}
    BY <1>2, <1>4, <1>6, <2>1, AskGrows
  <2> HIDE DEF wider, x
  <2>3. QED
    BY <1>3, <1>6, <2>2 DEF x
<1>8. IsWider(wider, oracle) /\ key \in DOMAIN wider /\ wider[key].question = q
  BY <1>4, <1>7, WiderIsTransitive DEF IsWider
<1> HIDE DEF wider
<1>9. QED
  BY <1>3, <1>4, <1>7, <1>8 DEF q, qv

-----------------------------------------------------------------------------
(* The run of outputs under a candidate                                    *)

\* The octets of the j-th output of the m-th run.
Output(table, h, outputs, m, j) == table[outputs[(m - 1) * Blocks(h) + j]].octets

\* f is the run, as far as n outputs.
Grown(f, table, h, outputs, m, n) ==
  f = [j \in 0 .. n |->
         IF j = 0 THEN Empty ELSE Concat(f[j - 1], Output(table, h, outputs, m, j))]

LEMMA GrownExists ==
  ASSUME NEW table, NEW h, NEW outputs, NEW m
  PROVE  \A n \in Nat : \E f : Grown(f, table, h, outputs, m, n)
<1> DEFINE T == {n \in Nat : \E f : Grown(f, table, h, outputs, m, n)}
<1>1. 0 \in T
  <2>1. Grown([j \in 0 .. 0 |-> Empty], table, h, outputs, m, 0)
    BY DEF Grown
  <2>2. QED
    BY <2>1
<1>2. ASSUME NEW n \in T PROVE n + 1 \in T
  <2>1. PICK f : Grown(f, table, h, outputs, m, n)
    OBVIOUS
  <2> DEFINE g == [j \in 0 .. n + 1 |->
                     IF j = n + 1 THEN Concat(f[n], Output(table, h, outputs, m, n + 1))
                     ELSE f[j]]
  <2>2. n + 1 \in Nat /\ Grown(g, table, h, outputs, m, n + 1)
    BY <2>1 DEF Grown
  <2>3. QED
    BY <2>2
<1> HIDE DEF T
<1>3. T = Nat
  <2>1. T \in SUBSET Nat
    BY DEF T
  <2>2. QED
    BY <2>1, <1>1, <1>2, NatInductionSet
<1>4. QED
  BY <1>3 DEF T

LEMMA StreamIsGrown ==
  ASSUME NEW table, NEW h \in Nat \ {0}, NEW outputs, NEW m
  PROVE  /\ Stream(table, h, outputs, m)[0] = Empty
         /\ \A j \in 1 .. Blocks(h) :
              Stream(table, h, outputs, m)[j]
                = Concat(Stream(table, h, outputs, m)[j - 1], Output(table, h, outputs, m, j))
<1> DEFINE c == Blocks(h)
           T[j \in 0 .. c] ==
             IF j = 0 THEN Empty ELSE Concat(T[j - 1], table[outputs[(m - 1) * c + j]].octets)
<1>1. c \in Nat
  BY BlocksOf
<1>2. \E f : f = [j \in 0 .. c |->
                    IF j = 0 THEN Empty
                    ELSE Concat(f[j - 1], table[outputs[(m - 1) * c + j]].octets)]
  <2>1. PICK f : Grown(f, table, h, outputs, m, c)
    BY <1>1, GrownExists
  <2>2. QED
    BY <2>1 DEF Grown, Output
<1>3. T = [j \in 0 .. c |->
             IF j = 0 THEN Empty
             ELSE Concat(T[j - 1], table[outputs[(m - 1) * c + j]].octets)]
  BY <1>2
<1>4. Stream(table, h, outputs, m) = T
  BY DEF Stream
<1> HIDE DEF T
<1>5. T[0] = Empty /\ \A j \in 1 .. c : T[j] = Concat(T[j - 1], Output(table, h, outputs, m, j))
  BY <1>1, <1>3 DEF Output
<1>6. QED
  BY <1>4, <1>5

LEMMA StreamStart ==
  ASSUME NEW table, NEW h \in Nat \ {0}, NEW outputs, NEW m
  PROVE  Stream(table, h, outputs, m)[0] = Empty
BY StreamIsGrown

\* The same octets make the same run.
LEMMA StreamsAgree ==
  ASSUME NEW t1, NEW t2, NEW h \in Nat \ {0}, NEW o1, NEW o2, NEW m, NEW n \in 0 .. Blocks(h),
         \A j \in 1 .. n : Output(t1, h, o1, m, j) = Output(t2, h, o2, m, j)
  PROVE  Stream(t1, h, o1, m)[n] = Stream(t2, h, o2, m)[n]
<1> DEFINE S1 == Stream(t1, h, o1, m)
           S2 == Stream(t2, h, o2, m)
           T == {j \in Nat : j <= n => S1[j] = S2[j]}
<1>1. Blocks(h) \in Nat
  BY BlocksOf
<1>2. /\ S1[0] = Empty /\ S2[0] = Empty
      /\ \A j \in 1 .. n : /\ S1[j] = Concat(S1[j - 1], Output(t1, h, o1, m, j))
                           /\ S2[j] = Concat(S2[j - 1], Output(t2, h, o2, m, j))
  BY <1>1, StreamIsGrown
<1> HIDE DEF S1, S2
<1>3. 0 \in T
  BY <1>2
<1>4. ASSUME NEW j \in T PROVE j + 1 \in T
  <2> SUFFICES ASSUME j + 1 <= n PROVE S1[j + 1] = S2[j + 1]
    OBVIOUS
  <2>1. j + 1 \in 1 .. n /\ (j + 1) - 1 = j /\ S1[j] = S2[j]
    BY <1>1
  <2>2. QED
    BY <1>2, <2>1
<1> HIDE DEF T
<1>5. T = Nat
  <2>1. T \in SUBSET Nat
    BY DEF T
  <2>2. QED
    BY <2>1, <1>3, <1>4, NatInductionSet
<1>6. n \in T /\ n <= n
  BY <1>1, <1>5
<1>7. QED
  BY <1>6 DEF T, S1, S2

-----------------------------------------------------------------------------
(* The questions of the RFC                                                *)

\* The question at place f of the run r, between the outputs a.
Later(c, a, r, f) ==
  LET n == Blocks(c.hlen)
      m == 5 + r * (n + 2) + f
      keyAt == a[3 + r * (n + 2)]
  IN  IF f < n THEN Question(c.hlen, keyAt, a[m - 1], Empty)
      ELSE IF f = n THEN Question(c.hlen, keyAt, a[m - 1], Octet(0))
      ELSE Question(c.hlen, a[m - 1], a[m - 2], Empty)

LEMMA FirstQuestions ==
  ASSUME NEW c, NEW a
  PROVE  /\ Expected(c, a, 1) = Question(c.hlen, Initial, Initial, SeedOf(0, c))
         /\ Expected(c, a, 2) = Question(c.hlen, a[1], Initial, Empty)
         /\ Expected(c, a, 3) = Question(c.hlen, a[1], a[2], SeedOf(1, c))
         /\ Expected(c, a, 4) = Question(c.hlen, a[3], a[2], Empty)
BY DEF Expected

LEMMA LaterQuestions ==
  ASSUME NEW c, c.hlen \in Nat \ {0}, NEW a, NEW r \in Nat, NEW f \in 0 .. Blocks(c.hlen) + 1
  PROVE  Expected(c, a, 5 + r * (Blocks(c.hlen) + 2) + f) = Later(c, a, r, f)
<1> DEFINE n == Blocks(c.hlen)
           k == n + 2
           m == 5 + r * k + f
           j == (m - 5) % k
<1>1. n \in Nat \ {0} /\ k \in Nat \ {0} /\ k = n + 2
  BY BlocksOf
<1> HIDE DEF n
<1>2. f \in Nat /\ f \in 0 .. k - 1 /\ f <= n + 1
  BY <1>1 DEF n
<1> HIDE DEF k
<1>3. r * k \in Nat /\ r * k = k * r
  BY <1>1
<1>4. m > 4 /\ m \in Nat /\ m - 5 = k * r + f /\ m - 5 \in Int
  BY <1>2, <1>3
<1>5. j = f
  <2> DEFINE x == m - 5
  <2>1. x = k * r + f /\ x \in Int /\ j = x % k /\ r \in Int
    BY <1>4
  <2> HIDE DEF x, j
  <2>2. QED
    BY <1>1, <1>2, <2>1, DivModUnique
<1>6. m - j - 2 = 3 + r * k
  BY <1>2, <1>3, <1>5
<1> HIDE DEF m, j
<1>7. Expected(c, a, m)
        = CASE m = 1 -> Question(c.hlen, Initial, Initial, SeedOf(0, c))
            [] m = 2 -> Question(c.hlen, a[1], Initial, Empty)
            [] m = 3 -> Question(c.hlen, a[1], a[2], SeedOf(1, c))
            [] m = 4 -> Question(c.hlen, a[3], a[2], Empty)
            [] m > 4 /\ j < n     -> Question(c.hlen, a[m - j - 2], a[m - 1], Empty)
            [] m > 4 /\ j = n     -> Question(c.hlen, a[m - j - 2], a[m - 1], Octet(0))
            [] m > 4 /\ j = n + 1 -> Question(c.hlen, a[m - 1], a[m - 2], Empty)
  BY DEF Expected, n, k, j
<1>8. Later(c, a, r, f)
        = IF f < n THEN Question(c.hlen, a[3 + r * k], a[m - 1], Empty)
          ELSE IF f = n THEN Question(c.hlen, a[3 + r * k], a[m - 1], Octet(0))
          ELSE Question(c.hlen, a[m - 1], a[m - 2], Empty)
  BY DEF Later, n, k, m
<1>9. Expected(c, a, m) = Later(c, a, r, f)
  <2>1. m # 1 /\ m # 2 /\ m # 3 /\ m # 4
    BY <1>4
  <2>2. CASE f < n
    BY <1>1, <1>2, <1>4, <1>5, <1>6, <1>7, <1>8, <2>1, <2>2
  <2>3. CASE f = n
    BY <1>1, <1>2, <1>4, <1>5, <1>6, <1>7, <1>8, <2>1, <2>3
  <2>4. CASE f = n + 1
    BY <1>1, <1>2, <1>4, <1>5, <1>6, <1>7, <1>8, <2>1, <2>4
  <2>5. QED
    BY <1>1, <1>2, <2>2, <2>3, <2>4
<1>10. QED
  BY <1>9 DEF m, k, n

\* One by one: b questions past the fourth belong to the runs before.
LEMMA QuestionsOfARun ==
  ASSUME NEW c, c.hlen \in Nat \ {0}, NEW a, NEW r \in Nat
  PROVE  LET n == Blocks(c.hlen)
             b == r * (n + 2)
         IN  /\ \A f \in 0 .. n - 1 :
                  Expected(c, a, 5 + b + f) = Question(c.hlen, a[3 + b], a[4 + b + f], Empty)
             /\ Expected(c, a, 5 + b + n) = Question(c.hlen, a[3 + b], a[4 + b + n], Octet(0))
             /\ Expected(c, a, 6 + b + n) = Question(c.hlen, a[5 + b + n], a[4 + b + n], Empty)
<1> DEFINE h == c.hlen
           n == Blocks(h)
           b == r * (n + 2)
<1>1. n \in Nat \ {0} /\ b \in Nat
  <2>1. n \in Nat \ {0}
    BY BlocksOf
  <2> HIDE DEF n
  <2>2. QED
    BY <2>1
<1>2. ASSUME NEW f \in 0 .. n + 1
      PROVE  Expected(c, a, 5 + b + f)
               = IF f < n THEN Question(h, a[3 + b], a[(5 + b + f) - 1], Empty)
                 ELSE IF f = n THEN Question(h, a[3 + b], a[(5 + b + f) - 1], Octet(0))
                 ELSE Question(h, a[(5 + b + f) - 1], a[(5 + b + f) - 2], Empty)
  <2>1. Expected(c, a, 5 + b + f) = Later(c, a, r, f)
    BY LaterQuestions
  <2>2. QED
    BY <2>1 DEF Later
<1> HIDE DEF n, h, b
<1>3. ASSUME NEW f \in 0 .. n - 1
      PROVE  Expected(c, a, 5 + b + f) = Question(h, a[3 + b], a[4 + b + f], Empty)
  <2>1. f \in 0 .. n + 1 /\ f < n /\ (5 + b + f) - 1 = 4 + b + f
    BY <1>1
  <2>2. QED
    BY <1>2, <2>1
<1>4. Expected(c, a, 5 + b + n) = Question(h, a[3 + b], a[4 + b + n], Octet(0))
  <2>1. n \in 0 .. n + 1 /\ ~(n < n) /\ (5 + b + n) - 1 = 4 + b + n
    BY <1>1
  <2>2. QED
    BY <1>2, <2>1
<1>5. Expected(c, a, 6 + b + n) = Question(h, a[5 + b + n], a[4 + b + n], Empty)
  <2> DEFINE f == n + 1
             m == 5 + b + f
  <2>1. /\ f \in 0 .. n + 1 /\ ~(f < n) /\ f # n
        /\ m = 6 + b + n /\ m - 1 = 5 + b + n /\ m - 2 = 4 + b + n
    BY <1>1
  <2>2. Expected(c, a, m)
          = IF f < n THEN Question(h, a[3 + b], a[m - 1], Empty)
            ELSE IF f = n THEN Question(h, a[3 + b], a[m - 1], Octet(0))
            ELSE Question(h, a[m - 1], a[m - 2], Empty)
    BY <1>2, <2>1
  <2> HIDE DEF f, m
  <2>3. QED
    BY <2>1, <2>2
<1>6. QED
  BY <1>3, <1>4, <1>5 DEF n, h, b

\* Every question past the fourth has its run and its place.
LEMMA LaterIndex ==
  ASSUME NEW h \in Nat \ {0}, NEW m \in Nat, m > 4
  PROVE  \E r \in Nat, f \in 0 .. Blocks(h) + 1 : m = 5 + r * (Blocks(h) + 2) + f
<1> DEFINE k == Blocks(h) + 2
           x == m - 5
           q == x \div k
           f == x % k
<1>1. k \in Nat \ {0} /\ Blocks(h) \in Nat /\ k - 1 = Blocks(h) + 1
  BY BlocksOf
<1>2. x \in Int /\ x \in Nat /\ m = 5 + x
  OBVIOUS
<1> HIDE DEF k, x
<1>3. x = k * q + f /\ q \in Nat /\ f \in 0 .. k - 1
  BY <1>1, <1>2, DivMod, DivModNat
<1> HIDE DEF q, f
<1>4. m = 5 + q * k + f
  <2>1. k * q = q * k /\ q * k \in Nat
    BY <1>1, <1>3
  <2>2. QED
    BY <1>2, <1>3, <2>1
<1>5. q \in Nat /\ f \in 0 .. Blocks(h) + 1
  BY <1>1, <1>3
<1>6. QED
  BY <1>4, <1>5 DEF k

SameSeeds(c1, c2) == SeedOf(0, c1) = SeedOf(0, c2) /\ SeedOf(1, c1) = SeedOf(1, c2)

\* What comes next depends on what was asked, the seed and the length of the hash.
LEMMA ExpectedAgrees ==
  ASSUME NEW c1, NEW c2, c1.hlen \in Nat \ {0}, c2.hlen = c1.hlen, SameSeeds(c1, c2),
         NEW a, NEW b, NEW m \in Nat \ {0}, \A i \in 1 .. m - 1 : a[i] = b[i]
  PROVE  Expected(c1, a, m) = Expected(c2, b, m)
<1>1. CASE m = 1
  BY <1>1, FirstQuestions DEF SameSeeds
<1>2. CASE m = 2
  <2>1. a[1] = b[1]
    BY <1>2
  <2>2. QED
    BY <1>2, <2>1, FirstQuestions
<1>3. CASE m = 3
  <2>1. a[1] = b[1] /\ a[2] = b[2]
    BY <1>3
  <2>2. QED
    BY <1>3, <2>1, FirstQuestions DEF SameSeeds
<1>4. CASE m = 4
  <2>1. a[2] = b[2] /\ a[3] = b[3]
    BY <1>4
  <2>2. QED
    BY <1>4, <2>1, FirstQuestions
<1>5. CASE m > 4
  <2> DEFINE h == c1.hlen
             n == Blocks(h)
  <2>1. PICK r \in Nat, f \in 0 .. n + 1 : m = 5 + r * (n + 2) + f
    BY <1>5, LaterIndex
  <2>2. Expected(c1, a, m) = Later(c1, a, r, f) /\ Expected(c2, b, m) = Later(c2, b, r, f)
    BY <2>1, LaterQuestions
  <2>3. n \in Nat /\ c2.hlen = h /\ c1.hlen = h
    BY BlocksOf
  <2> DEFINE keyAt == 3 + r * (n + 2)
             x == 5 + r * (n + 2) + f
  <2>4. /\ Later(c1, a, r, f)
             = IF f < n THEN Question(h, a[keyAt], a[x - 1], Empty)
               ELSE IF f = n THEN Question(h, a[keyAt], a[x - 1], Octet(0))
               ELSE Question(h, a[x - 1], a[x - 2], Empty)
        /\ Later(c2, b, r, f)
             = IF f < n THEN Question(h, b[keyAt], b[x - 1], Empty)
               ELSE IF f = n THEN Question(h, b[keyAt], b[x - 1], Octet(0))
               ELSE Question(h, b[x - 1], b[x - 2], Empty)
    BY <2>3 DEF Later
  <2> HIDE DEF n, h
  <2>5. r * (n + 2) \in Nat
    BY <2>1, <2>3
  <2>6. keyAt \in 1 .. m - 1 /\ x - 1 \in 1 .. m - 1 /\ x - 2 \in 1 .. m - 1
    BY <2>1, <2>3, <2>5
  <2> HIDE DEF keyAt, x
  <2>7. a[keyAt] = b[keyAt] /\ a[x - 1] = b[x - 1] /\ a[x - 2] = b[x - 2]
    BY <2>6
  <2>8. QED
    BY <2>2, <2>4, <2>7
<1>6. QED
  BY <1>1, <1>2, <1>3, <1>4, <1>5

-----------------------------------------------------------------------------
(* What a call asked and read                                              *)

\* The questions of the RFC, each about outputs of its predecessors.
Follows(table, c, a) ==
  /\ a \in Seq(Nat)
  /\ \A m \in DOMAIN a : a[m] \in DOMAIN table /\ table[a[m]].question = Expected(c, a, m)
  /\ \A m, l \in DOMAIN a : m < l => a[m] < a[l]

\* The question whose output is the i-th that is read: the seedings come before,
\* and a reseeding after each run.
Place(h, i) == 4 + i + 2 * ((i - 1) \div Blocks(h))

Reads(c, a, b) ==
  /\ b \in Seq(Nat)
  /\ \A i \in DOMAIN b : Place(c.hlen, i) \in DOMAIN a /\ b[i] = a[Place(c.hlen, i)]

Derivation(table, c, a, b) == Follows(table, c, a) /\ Reads(c, a, b)

LEMMA FollowsStays ==
  ASSUME NEW table, NEW wider, IsWider(wider, table), NEW c, NEW a, Follows(table, c, a)
  PROVE  Follows(wider, c, a)
BY DEF IsWider, Follows

LEMMA ExpectedOfPrefix ==
  ASSUME NEW c, c.hlen \in Nat \ {0}, NEW a, NEW b, NEW m \in Nat \ {0},
         \A i \in 1 .. m - 1 : a[i] = b[i]
  PROVE  Expected(c, a, m) = Expected(c, b, m)
BY ExpectedAgrees DEF SameSeeds

\* One more question.
LEMMA FollowsOne ==
  ASSUME NEW table, NEW c, c.hlen \in Nat \ {0}, NEW a, Follows(table, c, a),
         NEW x \in Nat, x \in DOMAIN table,
         table[x].question = Expected(c, a, Len(a) + 1),
         Len(a) = 0 \/ a[Len(a)] < x
  PROVE  Follows(table, c, Append(a, x))
<1> DEFINE n == Len(a)
           b == Append(a, x)
<1>1. /\ b \in Seq(Nat) /\ n \in Nat /\ DOMAIN a = 1 .. n /\ DOMAIN b = 1 .. n + 1
      /\ \A i \in 1 .. n : b[i] = a[i] /\ a[i] \in Nat
      /\ b[n + 1] = x
  BY AppendIs DEF Follows
<1> HIDE DEF b, n
<1>2. ASSUME NEW m \in 1 .. n + 1
      PROVE  Expected(c, b, m) = Expected(c, a, m)
  <2>1. m \in Nat \ {0}
    OBVIOUS
  <2>2. \A i \in 1 .. m - 1 : b[i] = a[i]
    BY <1>1
  <2>3. QED
    BY <2>1, <2>2, ExpectedOfPrefix
<1>3. ASSUME NEW m \in 1 .. n + 1
      PROVE  b[m] \in DOMAIN table /\ table[b[m]].question = Expected(c, b, m)
  <2>1. CASE m = n + 1
    BY <1>1, <1>2, <2>1 DEF n
  <2>2. CASE m \in 1 .. n
    BY <1>1, <1>2, <2>2 DEF Follows
  <2>3. QED
    BY <1>1, <2>1, <2>2
<1>4. \A m, l \in 1 .. n : m < l => a[m] < a[l]
  BY <1>1 DEF Follows
<1>5. ASSUME NEW m \in 1 .. n + 1, NEW l \in 1 .. n + 1, m < l
      PROVE  b[m] < b[l]
  <2>1. CASE l = n + 1
    <3>1. m \in 1 .. n /\ n \in 1 .. n /\ n # 0
      BY <1>1, <1>5, <2>1
    <3>2. m = n \/ a[m] < a[n]
      BY <1>4, <3>1
    <3>3. a[n] < x
      BY <3>1 DEF n
    <3>4. QED
      BY <1>1, <2>1, <3>1, <3>2, <3>3
  <2>2. CASE l \in 1 .. n
    <3>1. m \in 1 .. n
      BY <1>1, <1>5, <2>2
    <3>2. QED
      BY <1>1, <1>5, <1>4, <2>2, <3>1
  <2>3. QED
    BY <1>1, <2>1, <2>2
<1>6. QED
  BY <1>1, <1>3, <1>5 DEF Follows, b

\* bits2int of the m-th run.
CandidateIn(table, h, outputs, m) ==
  LeftmostBits(Stream(table, h, outputs, m)[Blocks(h)], NBits)

LEMMA RunIndex ==
  ASSUME NEW c \in Nat \ {0}, NEW n \in Nat, NEW m \in 1 .. n, NEW j \in 1 .. c
  PROVE  (m - 1) * c + j \in 1 .. n * c
<1>1. (m - 1) * c \in Nat /\ (m - 1) * c + c = m * c
  OBVIOUS
<1>2. m * c <= n * c /\ m * c \in Nat /\ n * c \in Nat
  OBVIOUS
<1>3. QED
  BY <1>1, <1>2

\* The n whole runs of o1 are in the table, and o2 goes on from there.
GoesOn(table, h, o1, o2, n) ==
  /\ n * Blocks(h) <= Len(o1)
  /\ \A i \in DOMAIN o1 : o1[i] \in DOMAIN table /\ i \in DOMAIN o2 /\ o2[i] = o1[i]

\* A run that is complete stays as it is.
LEMMA CandidateStays ==
  ASSUME NEW table, NEW wider, IsWider(wider, table), NEW h \in Nat \ {0},
         NEW o1 \in Seq(Nat), NEW o2 \in Seq(Nat), NEW n \in Nat, GoesOn(table, h, o1, o2, n)
  PROVE  \A m \in 1 .. n : CandidateIn(wider, h, o2, m) = CandidateIn(table, h, o1, m)
<1> DEFINE c == Blocks(h)
<1>1. c \in Nat \ {0} /\ c \in 0 .. c /\ n * c \in Nat /\ DOMAIN o1 = 1 .. Len(o1)
      /\ Len(o1) \in Nat /\ n * c <= Len(o1)
      /\ \A i \in DOMAIN o1 : o1[i] \in DOMAIN table /\ i \in DOMAIN o2 /\ o2[i] = o1[i]
  BY BlocksOf DEF GoesOn
<1>2. ASSUME NEW m \in 1 .. n, NEW j \in 1 .. c
      PROVE  Output(table, h, o1, m, j) = Output(wider, h, o2, m, j)
  <2> DEFINE i == (m - 1) * c + j
  <2>1. i \in 1 .. n * c
    BY <1>1, RunIndex
  <2>2. Output(table, h, o1, m, j) = table[o1[i]].octets
        /\ Output(wider, h, o2, m, j) = wider[o2[i]].octets
    BY DEF Output
  <2> HIDE DEF i
  <2>3. i \in DOMAIN o1
    BY <1>1, <2>1
  <2>4. QED
    BY <1>1, <2>2, <2>3 DEF IsWider
<1> HIDE DEF c
<1>3. ASSUME NEW m \in 1 .. n
      PROVE  Stream(wider, h, o2, m)[c] = Stream(table, h, o1, m)[c]
  <2>1. \A j \in 1 .. c : Output(wider, h, o2, m, j) = Output(table, h, o1, m, j)
    BY <1>2
  <2>2. c \in 0 .. Blocks(h)
    BY <1>1 DEF c
  <2>3. QED
    BY <2>1, <2>2, StreamsAgree
<1>4. QED
  BY <1>3 DEF CandidateIn, c

\* o holds n runs, all of them in the table.
HasRuns(table, h, o, n) ==
  n * Blocks(h) <= Len(o) /\ \A i \in DOMAIN o : o[i] \in DOMAIN table

LEMMA RunsStay ==
  ASSUME NEW table, NEW wider, IsWider(wider, table), NEW h \in Nat \ {0},
         NEW o \in Seq(Nat), NEW n \in Nat, HasRuns(table, h, o, n)
  PROVE  \A m \in 1 .. n : CandidateIn(wider, h, o, m) = CandidateIn(table, h, o, m)
<1>1. GoesOn(table, h, o, o, n)
  BY DEF HasRuns, GoesOn
<1>2. QED
  BY <1>1, CandidateStays

-----------------------------------------------------------------------------
(* The inductive invariant                                                 *)

Records == [call : Calls, ok : BOOLEAN, out : Strings, asked : Seq(Nat), read : Seq(Nat)]

\* What a call that is over returned: nothing, or its first candidate in range.
Nothing(rec) == rec.read = <<>> /\ ~rec.ok /\ rec.out = rec.call.out

FirstInRange(table, rec) ==
  LET h == rec.call.hlen
  IN  /\ rec.read # <<>>
      /\ rec.call.d.len = ELEM_BYTES /\ rec.call.digest.len # 0
      /\ rec.ok <=> rec.call.d.val \in Scalar
      /\ \E n \in Nat \ {0} :
           /\ Len(rec.read) = n * Blocks(h)
           /\ \A m \in 1 .. n - 1 : CandidateIn(table, h, rec.read, m) \notin Scalar
           /\ CandidateIn(table, h, rec.read, n) \in Scalar
           /\ rec.out = ToBE(CandidateIn(table, h, rec.read, n), ELEM_BYTES)

RecordOK(table, rec) ==
  /\ rec \in Records
  /\ Derivation(table, rec.call, rec.asked, rec.read)
  /\ Nothing(rec) \/ FirstInRange(table, rec)

\* Where the call is: r candidates were dropped, f outputs of the next were read.
At(r, f) ==
  LET h == call.hlen
      n == Blocks(h)
  IN  /\ Len(read) = r * n + f /\ Len(asked) = 4 + r * (n + 2) + f
      /\ K = asked[3 + r * (n + 2)] /\ V = asked[Len(asked)]
      /\ \A m \in 1 .. r : CandidateIn(oracle, h, read, m) \notin Scalar

\* The candidate is assembled as far as f outputs go.
Filling ==
  \E r \in Nat, f \in 0 .. Blocks(call.hlen) - 1 :
    /\ At(r, f)
    /\ t = Stream(oracle, call.hlen, read, r + 1)[f]
    /\ t \in Slices(f * call.hlen)

\* It is complete.
Testing ==
  \E r \in Nat :
    /\ At(r, Blocks(call.hlen))
    /\ Cand = CandidateIn(oracle, call.hlen, read, r + 1)
    /\ t \in Slices(ELEM_BYTES) /\ Cand \in Nat

Shapes ==
  /\ pc \in {"idle", "entry", "seed1", "fill", "test"}
  /\ call \in Calls
  /\ K \in 0 .. Len(oracle) /\ V \in 0 .. Len(oracle)
  /\ IsSlice(t) /\ t.len <= ELEM_BYTES
  /\ done \in Seq(Records) /\ Len(done) <= MaxCalls

IInv ==
  /\ Shapes /\ TableOK(oracle) /\ Derivation(oracle, call, asked, read)
  /\ \A j \in DOMAIN done : RecordOK(oracle, done[j])
  /\ pc # "idle" => Len(done) < MaxCalls
  /\ pc = "entry" => asked = <<>> /\ read = <<>> /\ K = Initial /\ V = Initial
  /\ pc \in {"seed1", "fill", "test"} => WellShapedCall /\ call.hlen <= MAX_HLEN
  /\ pc = "seed1" => Len(asked) = 2 /\ read = <<>> /\ K = asked[1] /\ V = asked[2]
  /\ pc = "fill" => Filling
  /\ pc = "test" => Testing

LEMMA CallIsShaped ==
  ASSUME NEW c \in Calls
  PROVE  /\ CallShape(c) /\ c.hlen \in Nat \ {0} /\ Blocks(c.hlen) \in Nat \ {0}
         /\ IsSlice(c.d) /\ IsSlice(c.digest) /\ IsSlice(c.added) /\ IsSlice(c.out)
BY RfcAssumption, BlocksOf DEF CallShape

-----------------------------------------------------------------------------
(* Derivations grow                                                        *)

LEMMA ReadIsInTable ==
  ASSUME NEW table, NEW c, NEW a, NEW b, Derivation(table, c, a, b)
  PROVE  \A i \in DOMAIN b : b[i] \in DOMAIN table
BY DEF Derivation, Follows, Reads

LEMMA DerivationStays ==
  ASSUME NEW table, NEW wider, IsWider(wider, table), NEW c, NEW a, NEW b,
         Derivation(table, c, a, b)
  PROVE  Derivation(wider, c, a, b)
BY FollowsStays DEF Derivation

LEMMA DerivationEmpty ==
  ASSUME NEW table, NEW c
  PROVE  Derivation(table, c, <<>>, <<>>)
BY DEF Derivation, Follows, Reads

\* An output that is not read.
LEMMA DerivationOne ==
  ASSUME NEW table, NEW c, c.hlen \in Nat \ {0}, NEW a, NEW b, Derivation(table, c, a, b),
         NEW x \in Nat, x \in DOMAIN table,
         table[x].question = Expected(c, a, Len(a) + 1),
         Len(a) = 0 \/ a[Len(a)] < x
  PROVE  Derivation(table, c, Append(a, x), b)
<1>1. Follows(table, c, Append(a, x))
  BY FollowsOne DEF Derivation
<1>2. /\ Len(a) \in Nat /\ DOMAIN a = 1 .. Len(a) /\ DOMAIN Append(a, x) = 1 .. Len(a) + 1
      /\ \A i \in 1 .. Len(a) : Append(a, x)[i] = a[i]
  BY AppendIs DEF Derivation, Follows
<1>3. \A i \in DOMAIN a : i \in DOMAIN Append(a, x) /\ Append(a, x)[i] = a[i]
  BY <1>2
<1>4. QED
  BY <1>1, <1>3 DEF Derivation, Reads

\* One that is.
LEMMA DerivationRead ==
  ASSUME NEW table, NEW c, c.hlen \in Nat \ {0}, NEW a, NEW b, Derivation(table, c, a, b),
         NEW x \in Nat, x \in DOMAIN table,
         table[x].question = Expected(c, a, Len(a) + 1),
         Len(a) = 0 \/ a[Len(a)] < x,
         Place(c.hlen, Len(b) + 1) = Len(a) + 1
  PROVE  Derivation(table, c, Append(a, x), Append(b, x))
<1>1. Derivation(table, c, Append(a, x), b)
  BY DerivationOne
<1>2. /\ Append(b, x) \in Seq(Nat) /\ Len(b) \in Nat /\ DOMAIN b = 1 .. Len(b)
      /\ DOMAIN Append(b, x) = 1 .. Len(b) + 1
      /\ \A i \in 1 .. Len(b) : Append(b, x)[i] = b[i]
      /\ Append(b, x)[Len(b) + 1] = x
  BY AppendIs DEF Derivation, Reads
<1>3. /\ Len(a) \in Nat /\ DOMAIN Append(a, x) = 1 .. Len(a) + 1
      /\ Append(a, x)[Len(a) + 1] = x
  BY AppendIs DEF Derivation, Follows
<1>4. ASSUME NEW i \in 1 .. Len(b) + 1
      PROVE  /\ Place(c.hlen, i) \in DOMAIN Append(a, x)
             /\ Append(b, x)[i] = Append(a, x)[Place(c.hlen, i)]
  <2>1. CASE i = Len(b) + 1
    BY <1>2, <1>3, <2>1
  <2>2. CASE i \in 1 .. Len(b)
    BY <1>1, <1>2, <2>2 DEF Derivation, Reads
  <2>3. QED
    BY <1>2, <2>1, <2>2
<1>5. QED
  BY <1>1, <1>2, <1>4 DEF Derivation, Reads

\* The two outputs of an update of K and V.
LEMMA DerivationTwo ==
  ASSUME NEW table, NEW c, c.hlen \in Nat \ {0}, NEW a, NEW b, Derivation(table, c, a, b),
         NEW x \in Nat, NEW y \in Nat, x \in DOMAIN table, y \in DOMAIN table, x < y,
         table[x].question = Expected(c, a, Len(a) + 1),
         table[y].question = Expected(c, Append(a, x), Len(a) + 2),
         Len(a) = 0 \/ a[Len(a)] < x
  PROVE  /\ Derivation(table, c, a \o <<x, y>>, b)
         /\ Len(a) \in Nat /\ Len(a \o <<x, y>>) = Len(a) + 2
         /\ \A i \in 1 .. Len(a) : (a \o <<x, y>>)[i] = a[i]
         /\ (a \o <<x, y>>)[Len(a) + 1] = x /\ (a \o <<x, y>>)[Len(a) + 2] = y
<1> DEFINE s == Append(a, x)
<1>1. Derivation(table, c, s, b)
  BY DerivationOne
<1>2. a \in Seq(Nat)
  BY DEF Derivation, Follows
<1>3. /\ s \in Seq(Nat) /\ Len(a) \in Nat /\ Len(s) = Len(a) + 1 /\ s[Len(a) + 1] = x
      /\ \A i \in 1 .. Len(a) : s[i] = a[i]
  BY <1>2, AppendIs
<1>4. a \o <<x, y>> = Append(s, y)
  BY <1>2
<1> HIDE DEF s
<1>5. /\ Len(Append(s, y)) = Len(s) + 1 /\ Append(s, y)[Len(s) + 1] = y
      /\ \A i \in 1 .. Len(s) : Append(s, y)[i] = s[i]
  BY <1>3, AppendIs
<1>6. table[y].question = Expected(c, s, Len(s) + 1) /\ s[Len(s)] < y
  <2>1. Len(s) + 1 = Len(a) + 2 /\ s[Len(s)] = x
    BY <1>3
  <2>2. QED
    BY <2>1 DEF s
<1>7. Derivation(table, c, Append(s, y), b)
  BY <1>1, <1>6, DerivationOne
<1> DEFINE w == a \o <<x, y>>
<1>8. w = Append(s, y)
  BY <1>4
<1> HIDE DEF w
<1>9. Derivation(table, c, w, b)
  BY <1>7, <1>8
<1>10. Len(w) = Len(a) + 2 /\ w[Len(a) + 2] = y
  <2>1. Len(w) = Len(s) + 1 /\ w[Len(s) + 1] = y
    BY <1>5, <1>8
  <2>2. Len(s) + 1 = Len(a) + 2
    BY <1>3
  <2>3. QED
    BY <2>1, <2>2
<1>11. \A i \in 1 .. Len(s) : w[i] = s[i]
  BY <1>5, <1>8
<1>12. w[Len(a) + 1] = x /\ \A i \in 1 .. Len(a) : w[i] = a[i]
  <2>1. Len(a) + 1 \in 1 .. Len(s) /\ \A i \in 1 .. Len(a) : i \in 1 .. Len(s)
    BY <1>3
  <2>2. QED
    BY <1>3, <1>11, <2>1
<1>13. QED
  BY <1>3, <1>9, <1>10, <1>12 DEF w

\* Where the outputs of a run are.
LEMMA PlaceOf ==
  ASSUME NEW h \in Nat \ {0}, NEW r \in Nat, NEW f \in 0 .. Blocks(h) - 1
  PROVE  Place(h, r * Blocks(h) + f + 1) = 5 + r * (Blocks(h) + 2) + f
<1> DEFINE n == Blocks(h)
           x == r * n + f
<1>1. n \in Nat \ {0} /\ f \in 0 .. n - 1 /\ f \in Nat
  BY BlocksOf
<1> HIDE DEF n
<1>2. r * n \in Nat /\ n * r = r * n /\ r * (n + 2) = r * n + 2 * r
  BY <1>1
<1>3. x = n * r + f /\ x \in Int /\ (x + 1) - 1 = x
  BY <1>1, <1>2
<1>4. x \div n = r
  <2> HIDE DEF x
  <2>1. QED
    BY <1>1, <1>3, DivModUnique
<1>5. Place(h, x + 1) = 4 + (x + 1) + 2 * (x \div n)
  BY <1>3 DEF Place, n
<1>6. 4 + (x + 1) + 2 * r = 5 + r * (n + 2) + f
  BY <1>1, <1>2
<1>7. QED
  BY <1>4, <1>5, <1>6 DEF n

\* A call that is over keeps what it returned.
LEMMA RecordStays ==
  ASSUME NEW table, NEW wider, IsWider(wider, table), NEW rec, RecordOK(table, rec)
  PROVE  RecordOK(wider, rec)
<1>1. rec \in Records /\ Derivation(table, rec.call, rec.asked, rec.read)
  BY DEF RecordOK
<1>2. Derivation(wider, rec.call, rec.asked, rec.read)
  BY <1>1, DerivationStays
<1>3. CASE Nothing(rec)
  BY <1>1, <1>2, <1>3 DEF RecordOK
<1>4. CASE FirstInRange(table, rec)
  <2> DEFINE h == rec.call.hlen
             o == rec.read
  <2>1. PICK n \in Nat \ {0} :
          /\ Len(o) = n * Blocks(h)
          /\ \A m \in 1 .. n - 1 : CandidateIn(table, h, o, m) \notin Scalar
          /\ CandidateIn(table, h, o, n) \in Scalar
          /\ rec.out = ToBE(CandidateIn(table, h, o, n), ELEM_BYTES)
    BY <1>4 DEF FirstInRange
  <2>2. h \in Nat \ {0} /\ o \in Seq(Nat) /\ Blocks(h) \in Nat
    BY <1>1, CallIsShaped DEF Records
  <2>3. \A i \in DOMAIN o : o[i] \in DOMAIN table
    BY <1>1, ReadIsInTable
  <2> HIDE DEF h, o
  <2>4. HasRuns(table, h, o, n) /\ n \in Nat
    BY <2>1, <2>2, <2>3 DEF HasRuns
  <2>5. \A m \in 1 .. n : CandidateIn(wider, h, o, m) = CandidateIn(table, h, o, m)
    BY <2>2, <2>4, RunsStay
  <2>6. /\ \A m \in 1 .. n - 1 : CandidateIn(wider, h, o, m) \notin Scalar
        /\ CandidateIn(wider, h, o, n) = CandidateIn(table, h, o, n)
    BY <2>1, <2>4, <2>5
  <2>7. FirstInRange(wider, rec)
    BY <1>4, <2>1, <2>6 DEF FirstInRange, h, o
  <2>8. QED
    BY <1>1, <1>2, <2>7 DEF RecordOK
<1>5. QED
  BY <1>3, <1>4 DEF RecordOK

-----------------------------------------------------------------------------
(* The steps                                                               *)

LEMMA EmptyIsSlice == IsSlice(Empty) /\ Empty \in Slices(0) /\ Empty.len = 0
<1>1. 0 \in 0 .. SLICE_BYTES
  BY OctetsAssumption
<1>2. Width(0) \in Nat \ {0}
  BY <1>1, WidthType
<1>3. QED
  BY <1>1, <1>2 DEF IsSlice, Slices, Empty

\* What the generator is seeded with is what the RFC seeds with.
LEMMA SeedIs ==
  ASSUME call \in Calls, call.digest.len # 0, NEW i \in {0, 1}
  PROVE  SeedOctets(i) = SeedOf(i, call) /\ SeedOctets(i) \in Strings
<1>1. /\ IsSlice(call.d) /\ IsSlice(call.digest) /\ IsSlice(call.added)
      /\ ELEM_BYTES \in 0 .. SLICE_BYTES
  BY CallIsShaped, OctetsAssumption
<1>2. /\ DigestScalar(call.digest) = E(call.digest) /\ DigestScalar(call.digest) \in Nat
  BY <1>1, LeftmostBitsOfDigest, CurveSizes DEF E
<1>3. H1(call.digest) \in Strings /\ H1(call.digest).len <= SLICE_BYTES
  <2> DEFINE e == DigestScalar(call.digest)
  <2>1. e \in Int
    BY <1>2
  <2> HIDE DEF e
  <2>2. ToBE(e, ELEM_BYTES) \in Slices(ELEM_BYTES)
    BY <1>1, <2>1, ToBEType
  <2>3. H1(call.digest) \in Slices(ELEM_BYTES)
    BY <2>2 DEF H1, e
  <2>4. IsSlice(H1(call.digest))
    BY <1>1, <2>3 DEF IsSlice, Slices
  <2>5. QED
    BY <2>4, SlicesAreStrings DEF IsSlice
<1>4. /\ Octet(i) \in Strings /\ call.d \in Strings /\ call.added \in Strings
      /\ call.d.len <= SLICE_BYTES /\ call.added.len <= SLICE_BYTES
  <2>1. i \in Nat
    OBVIOUS
  <2>2. QED
    BY <1>1, <2>1, SlicesAreStrings DEF IsSlice
<1> DEFINE x == Concat(Octet(i), call.d)
           y == Concat(x, H1(call.digest))
<1>5. x \in Strings
  BY <1>4, SlicesAreStrings
<1>6. y \in Strings
  BY <1>3, <1>5, SlicesAreStrings
<1>7. Concat(y, call.added) \in Strings
  BY <1>4, <1>6, SlicesAreStrings
<1>8. QED
  BY <1>2, <1>7 DEF SeedOctets, SeedOf, H1

LEMMA InitIInv == Init => IInv
<1> SUFFICES ASSUME Init PROVE IInv
  OBVIOUS
<1>1. oracle = <<>> /\ asked = <<>> /\ read = <<>> /\ done = <<>> /\ pc = "idle"
  BY DEF Init
<1>2. call \in Calls
  BY RfcAssumption DEF Init
<1>3. Shapes
  BY <1>2, EmptyIsSlice, OctetsAssumption, RfcAssumption DEF Init, Shapes, Initial
<1>4. TableOK(oracle) /\ Derivation(oracle, call, asked, read)
  BY <1>1, DerivationEmpty DEF TableOK
<1>5. QED
  BY <1>1, <1>3, <1>4 DEF IInv

LEMMA BeginStep == IInv /\ Begin => IInv'
<1> SUFFICES ASSUME IInv, Begin PROVE IInv'
  OBVIOUS
<1>1. /\ oracle' = oracle /\ done' = done /\ asked' = <<>> /\ read' = <<>> /\ pc' = "entry"
      /\ call' \in Calls /\ K' = Initial /\ V' = Initial /\ t' = Empty
      /\ Len(done) < MaxCalls
  BY DEF Begin
<1>2. Len(oracle) \in Nat
  BY DEF IInv, TableOK
<1>3. Shapes'
  BY <1>1, <1>2, EmptyIsSlice, OctetsAssumption DEF IInv, Shapes, Initial
<1>4. Derivation(oracle', call', asked', read')
  BY <1>1, DerivationEmpty
<1>5. QED
  BY <1>1, <1>3, <1>4 DEF IInv

LEMMA ReturnStep ==
  ASSUME IInv, pc # "idle", NEW ok \in BOOLEAN, NEW out \in Strings, Return(ok, out),
         UNCHANGED <<call, K, V, t, asked, read, oracle>>,
         LET rec == [call |-> call, ok |-> ok, out |-> out, asked |-> asked, read |-> read]
         IN  Nothing(rec) \/ FirstInRange(oracle, rec)
  PROVE  IInv'
<1> DEFINE rec == [call |-> call, ok |-> ok, out |-> out, asked |-> asked, read |-> read]
<1>1. done' = Append(done, rec) /\ pc' = "idle"
  BY DEF Return
<1>2. rec \in Records
  BY DEF IInv, Shapes, Derivation, Follows, Reads, Records
<1>3. RecordOK(oracle, rec)
  BY <1>2 DEF RecordOK, IInv
<1> HIDE DEF rec
<1>4. /\ done \in Seq(Records) /\ Len(done) < MaxCalls /\ MaxCalls \in Nat
      /\ \A j \in DOMAIN done : RecordOK(oracle, done[j])
  BY RfcAssumption DEF IInv, Shapes
<1>5. /\ done' \in Seq(Records) /\ Len(done) \in Nat /\ DOMAIN done = 1 .. Len(done)
      /\ Len(done') = Len(done) + 1 /\ DOMAIN done' = 1 .. Len(done) + 1
      /\ \A j \in 1 .. Len(done) : done'[j] = done[j]
      /\ done'[Len(done) + 1] = rec
  BY <1>1, <1>2, <1>4, AppendIs
<1>6. \A j \in DOMAIN done' : RecordOK(oracle, done'[j])
  BY <1>3, <1>4, <1>5
<1>7. Len(done') <= MaxCalls
  BY <1>4, <1>5
<1>8. Shapes'
  BY <1>1, <1>5, <1>7 DEF IInv, Shapes
<1>9. TableOK(oracle') /\ Derivation(oracle', call', asked', read')
  BY DEF IInv
<1>10. \A j \in DOMAIN done' : RecordOK(oracle', done'[j])
  BY <1>6
<1>11. QED
  BY <1>1, <1>8, <1>9, <1>10 DEF IInv

LEMMA RejectStep == IInv /\ Reject => IInv'
<1> SUFFICES ASSUME IInv, Reject PROVE IInv'
  OBVIOUS
<1>1. /\ pc = "entry" /\ Return(FALSE, call.out) /\ read = <<>>
      /\ UNCHANGED <<call, K, V, t, asked, read, oracle>>
  BY DEF Reject, IInv
<1>2. call.out \in Strings
  BY CallIsShaped, SlicesAreStrings DEF IInv, Shapes
<1> DEFINE rec == [call |-> call, ok |-> FALSE, out |-> call.out, asked |-> asked, read |-> read]
<1>3. Nothing(rec)
  BY <1>1 DEF Nothing
<1>4. QED
  BY <1>1, <1>2, <1>3, ReturnStep

LEMMA AcceptStep == IInv /\ Accept => IInv'
<1> SUFFICES ASSUME IInv, Accept PROVE IInv'
  OBVIOUS
<1> DEFINE ok == InRange(FromBE(call.d))
           out == ToBE(Cand, ELEM_BYTES)
           h == call.hlen
           n == Blocks(h)
           rec == [call |-> call, ok |-> ok, out |-> out, asked |-> asked, read |-> read]
<1>1. /\ pc = "test" /\ InRange(Cand) /\ Return(ok, out) /\ Testing
      /\ UNCHANGED <<call, K, V, t, asked, read, oracle>>
  BY DEF Accept, IInv
<1>2. PICK r \in Nat :
        /\ At(r, n) /\ Cand = CandidateIn(oracle, h, read, r + 1) /\ Cand \in Nat
  BY <1>1 DEF Testing
<1>3. Cand \in Scalar
  BY <1>1, <1>2, CurveSizes DEF InRange, Scalar
<1>4. n \in Nat \ {0} /\ read \in Seq(Nat) /\ call \in Calls
  BY CallIsShaped DEF IInv, Shapes, Derivation, Reads
<1>5. Len(read) = (r + 1) * n /\ read # <<>>
  <2>1. Len(read) = r * n + n
    BY <1>2 DEF At
  <2> HIDE DEF n
  <2>2. (r + 1) * n = r * n + n /\ r * n \in Nat
    BY <1>4
  <2>3. Len(read) > 0
    BY <1>4, <2>1, <2>2
  <2>4. QED
    BY <2>1, <2>2, <2>3
<1>6. call.d.len = ELEM_BYTES /\ call.digest.len # 0
  BY <1>1 DEF IInv, WellShapedCall
<1>7. ok <=> call.d.val \in Scalar
  <2>1. call.d \in Slices(ELEM_BYTES)
    BY <1>4, <1>6, CallIsShaped DEF IsSlice
  <2>2. FromBE(call.d) = call.d.val /\ call.d.val \in Nat
    BY <1>6, <2>1, RangeOfSecret, OctetsAssumption DEF FromBE
  <2>3. QED
    BY <2>2, CurveSizes DEF InRange, Scalar
<1>8. \A m \in 1 .. (r + 1) - 1 : CandidateIn(oracle, h, read, m) \notin Scalar
  BY <1>2 DEF At
<1>9. FirstInRange(oracle, rec)
  <2>1. /\ rec.call.hlen = h /\ rec.read = read /\ rec.out = out /\ rec.call = call
        /\ (rec.ok <=> ok)
    OBVIOUS
  <2>2. r + 1 \in Nat \ {0}
    OBVIOUS
  <2> HIDE DEF rec, ok
  <2>3. /\ Len(rec.read) = (r + 1) * Blocks(rec.call.hlen)
        /\ \A m \in 1 .. (r + 1) - 1 : CandidateIn(oracle, rec.call.hlen, rec.read, m) \notin Scalar
        /\ CandidateIn(oracle, rec.call.hlen, rec.read, r + 1) \in Scalar
        /\ rec.out = ToBE(CandidateIn(oracle, rec.call.hlen, rec.read, r + 1), ELEM_BYTES)
    BY <1>2, <1>3, <1>5, <1>8, <2>1
  <2>4. QED
    BY <1>5, <1>6, <1>7, <2>1, <2>2, <2>3 DEF FirstInRange
<1>10. ok \in BOOLEAN /\ out \in Strings
  <2>1. out \in Slices(ELEM_BYTES)
    BY <1>2, OctetsAssumption, ToBEType
  <2>2. IsSlice(out)
    BY <2>1, OctetsAssumption DEF IsSlice, Slices
  <2>3. QED
    BY <2>2, SlicesAreStrings DEF InRange
<1>11. QED
  BY <1>1, <1>9, <1>10, ReturnStep

\* An update of K and V, where the RFC has one.
LEMMA UpdateStep ==
  ASSUME IInv, NEW tail \in Strings, UpdateKV(tail), UNCHANGED <<call, read, done>>,
         Question(call.hlen, K, V, tail) = Expected(call, asked, Len(asked) + 1),
         \A x \in Nat : Question(call.hlen, x, V, Empty)
                         = Expected(call, Append(asked, x), Len(asked) + 2),
         Len(asked) = 0 \/ asked[Len(asked)] = V
  PROVE  /\ TableOK(oracle') /\ IsWider(oracle', oracle)
         /\ Derivation(oracle', call', asked', read')
         /\ \A j \in DOMAIN done' : RecordOK(oracle', done'[j])
         /\ K' \in 0 .. Len(oracle') /\ V' \in 0 .. Len(oracle')
         /\ Len(asked) \in Nat /\ Len(asked') = Len(asked) + 2
         /\ \A i \in 1 .. Len(asked) : asked'[i] = asked[i]
         /\ asked'[Len(asked) + 1] = K' /\ asked'[Len(asked) + 2] = V'
<1>1. /\ TableOK(oracle) /\ call \in Calls /\ call.hlen \in Nat \ {0} /\ call.hlen \in Nat
      /\ K \in 0 .. Len(oracle) /\ V \in 0 .. Len(oracle)
      /\ Derivation(oracle, call, asked, read)
  BY CallIsShaped DEF IInv, Shapes
<1>2. /\ TableOK(oracle') /\ IsWider(oracle', oracle)
      /\ K' \in DOMAIN oracle' /\ V' \in DOMAIN oracle'
      /\ oracle'[K'].question = Question(call.hlen, K, V, tail)
      /\ oracle'[V'].question = Question(call.hlen, K', V, Empty)
      /\ V < K' /\ K' < V' /\ K' \in Nat /\ V' \in Nat
      /\ asked' = asked \o <<K', V'>>
  BY <1>1, UpdateKVGrows
<1>3. Derivation(oracle', call, asked, read)
  BY <1>1, <1>2, DerivationStays
<1>4. /\ oracle'[K'].question = Expected(call, asked, Len(asked) + 1)
      /\ oracle'[V'].question = Expected(call, Append(asked, K'), Len(asked) + 2)
      /\ Len(asked) = 0 \/ asked[Len(asked)] < K'
  BY <1>2
<1>5. /\ Derivation(oracle', call, asked', read)
      /\ Len(asked) \in Nat /\ Len(asked') = Len(asked) + 2
      /\ \A i \in 1 .. Len(asked) : asked'[i] = asked[i]
      /\ asked'[Len(asked) + 1] = K' /\ asked'[Len(asked) + 2] = V'
  <2> DEFINE x == K'
             y == V'
             table == oracle'
             w == asked \o <<x, y>>
  <2>0. /\ x \in Nat /\ y \in Nat /\ x \in DOMAIN table /\ y \in DOMAIN table /\ x < y
        /\ table[x].question = Expected(call, asked, Len(asked) + 1)
        /\ table[y].question = Expected(call, Append(asked, x), Len(asked) + 2)
        /\ Len(asked) = 0 \/ asked[Len(asked)] < x
        /\ Derivation(table, call, asked, read) /\ asked' = w
    BY <1>2, <1>3, <1>4
  <2> HIDE DEF x, y, table
  <2>1. /\ Derivation(table, call, w, read)
        /\ Len(asked) \in Nat /\ Len(w) = Len(asked) + 2
        /\ \A i \in 1 .. Len(asked) : w[i] = asked[i]
        /\ w[Len(asked) + 1] = x /\ w[Len(asked) + 2] = y
    BY <1>1, <2>0, DerivationTwo
  <2> HIDE DEF w
  <2>2. QED
    BY <2>0, <2>1 DEF x, y, table
<1>6. \A j \in DOMAIN done' : RecordOK(oracle', done'[j])
  <2>1. ASSUME NEW j \in DOMAIN done PROVE RecordOK(oracle', done[j])
    BY <1>2, RecordStays DEF IInv
  <2>2. QED
    BY <2>1
<1>7. K' \in 0 .. Len(oracle') /\ V' \in 0 .. Len(oracle')
  BY <1>2 DEF TableOK
<1>8. QED
  BY <1>2, <1>5, <1>6, <1>7

LEMMA Seed0Step == IInv /\ Seed0 => IInv'
<1> SUFFICES ASSUME IInv, Seed0 PROVE IInv'
  OBVIOUS
<1> DEFINE tail == SeedOctets(0)
<1>1. /\ pc = "entry" /\ asked = <<>> /\ read = <<>> /\ K = Initial /\ V = Initial
      /\ WellShapedCall /\ call.hlen <= MAX_HLEN /\ UpdateKV(tail)
      /\ pc' = "seed1" /\ UNCHANGED <<call, t, read, done>>
      /\ Len(done) < MaxCalls /\ call \in Calls
  BY DEF Seed0, IInv, Shapes
<1>2. tail \in Strings /\ tail = SeedOf(0, call)
  BY <1>1, SeedIs DEF WellShapedCall
<1> HIDE DEF tail
<1>3. Len(asked) = 0
  BY <1>1
<1>4. Question(call.hlen, K, V, tail) = Expected(call, asked, Len(asked) + 1)
  BY <1>1, <1>2, <1>3, FirstQuestions
<1>5. ASSUME NEW x \in Nat
      PROVE  Question(call.hlen, x, V, Empty) = Expected(call, Append(asked, x), Len(asked) + 2)
  <2>1. Append(asked, x)[1] = x
    BY <1>1
  <2>2. QED
    BY <1>1, <1>3, <2>1, FirstQuestions
<1>6. /\ TableOK(oracle') /\ Derivation(oracle', call', asked', read')
      /\ \A j \in DOMAIN done' : RecordOK(oracle', done'[j])
      /\ K' \in 0 .. Len(oracle') /\ V' \in 0 .. Len(oracle')
      /\ Len(asked') = 2 /\ asked'[1] = K' /\ asked'[2] = V'
  BY <1>1, <1>2, <1>3, <1>4, <1>5, UpdateStep
<1>7. Shapes'
  BY <1>1, <1>6 DEF IInv, Shapes
<1>8. WellShapedCall' /\ call'.hlen <= MAX_HLEN
  BY <1>1 DEF WellShapedCall
<1>9. QED
  BY <1>1, <1>6, <1>7, <1>8 DEF IInv

LEMMA Seed1Step == IInv /\ Seed1 => IInv'
<1> SUFFICES ASSUME IInv, Seed1 PROVE IInv'
  OBVIOUS
<1> DEFINE tail == SeedOctets(1)
           n == Blocks(call.hlen)
<1>1. /\ pc = "seed1" /\ Len(asked) = 2 /\ read = <<>> /\ K = asked[1] /\ V = asked[2]
      /\ WellShapedCall /\ call.hlen <= MAX_HLEN /\ UpdateKV(tail)
      /\ pc' = "fill" /\ t' = Empty /\ UNCHANGED <<call, read, done>>
      /\ Len(done) < MaxCalls /\ call \in Calls /\ asked \in Seq(Nat)
  BY DEF Seed1, IInv, Shapes, Derivation, Follows
<1>2. tail \in Strings /\ tail = SeedOf(1, call)
  BY <1>1, SeedIs DEF WellShapedCall
<1> HIDE DEF tail
<1>4. Question(call.hlen, K, V, tail) = Expected(call, asked, Len(asked) + 1)
  BY <1>1, <1>2, FirstQuestions
<1>5. ASSUME NEW x \in Nat
      PROVE  Question(call.hlen, x, V, Empty) = Expected(call, Append(asked, x), Len(asked) + 2)
  <2>1. asked \in Seq(Nat)
    BY <1>1
  <2> DEFINE u == Append(asked, x)
             k == Len(asked)
  <2>4. u[k + 1] = x /\ \A i \in 1 .. k : u[i] = asked[i]
    BY <2>1, AppendIs
  <2>5. k + 1 = 3 /\ 2 \in 1 .. k /\ k + 2 = 4
    BY <1>1
  <2> HIDE DEF u, k
  <2>3. Append(asked, x)[3] = x /\ Append(asked, x)[2] = asked[2] /\ Len(asked) + 2 = 4
    BY <2>4, <2>5 DEF u, k
  <2>2. QED
    BY <1>1, <2>3, FirstQuestions
<1>6. /\ TableOK(oracle') /\ Derivation(oracle', call', asked', read')
      /\ \A j \in DOMAIN done' : RecordOK(oracle', done'[j])
      /\ K' \in 0 .. Len(oracle') /\ V' \in 0 .. Len(oracle')
      /\ Len(asked') = 4 /\ asked'[3] = K' /\ asked'[4] = V'
  BY <1>1, <1>2, <1>4, <1>5, UpdateStep
<1>7. Shapes'
  BY <1>1, <1>6, EmptyIsSlice, OctetsAssumption DEF IInv, Shapes
<1>8. WellShapedCall' /\ call'.hlen <= MAX_HLEN
  BY <1>1 DEF WellShapedCall
<1>9. n \in Nat \ {0} /\ call.hlen \in Nat \ {0} /\ 0 * n = 0 /\ 0 * (n + 2) = 0
      /\ 0 \in 0 .. n - 1 /\ 0 * call.hlen = 0
  BY <1>1, CallIsShaped
<1> HIDE DEF n
<1>10. Filling'
  <2>1. At(0, 0)'
    BY <1>1, <1>6, <1>9 DEF At, n
  <2>2. t' = Stream(oracle', call'.hlen, read', 0 + 1)[0]
    BY <1>1, <1>9, StreamStart
  <2>3. t' \in Slices(0 * call'.hlen)
    BY <1>1, <1>9, EmptyIsSlice
  <2>4. QED
    BY <1>1, <1>9, <2>1, <2>2, <2>3 DEF Filling, n
<1>11. QED
  BY <1>1, <1>6, <1>7, <1>8, <1>10 DEF IInv

LEMMA ReseedStep == IInv /\ Reseed => IInv'
<1> SUFFICES ASSUME IInv, Reseed PROVE IInv'
  OBVIOUS
<1> DEFINE tail == Octet(0)
           h == call.hlen
           n == Blocks(h)
           s == Len(asked)
<1>1. /\ pc = "test" /\ ~InRange(Cand) /\ Testing
      /\ WellShapedCall /\ h <= MAX_HLEN /\ UpdateKV(tail)
      /\ pc' = "fill" /\ t' = Empty /\ UNCHANGED <<call, read, done>>
      /\ Len(done) < MaxCalls /\ call \in Calls /\ asked \in Seq(Nat) /\ read \in Seq(Nat)
  BY DEF Reseed, IInv, Shapes, Derivation, Follows, Reads
<1>2. tail \in Strings
  <2>1. 0 \in Nat
    OBVIOUS
  <2>2. QED
    BY <2>1, SlicesAreStrings
<1> HIDE DEF tail
<1>3. PICK r \in Nat :
        /\ At(r, n) /\ Cand = CandidateIn(oracle, h, read, r + 1) /\ Cand \in Nat
  BY <1>1 DEF Testing
<1> DEFINE b == r * (n + 2)
<1>4. /\ h \in Nat \ {0} /\ n \in Nat \ {0} /\ b \in Nat /\ r * n \in Nat
      /\ (r + 1) * n = r * n + n /\ (r + 1) * (n + 2) = b + n + 2
      /\ 0 \in 0 .. n - 1 /\ n \in 0 .. n + 1 /\ n + 1 \in 0 .. n + 1 /\ 0 * h = 0
  <2>1. h \in Nat \ {0} /\ n \in Nat \ {0}
    BY <1>1, CallIsShaped
  <2> HIDE DEF h, n
  <2>2. QED
    BY <2>1
<1>5. /\ Len(read) = r * n + n /\ s = 4 + b + n
      /\ K = asked[3 + b] /\ V = asked[s]
      /\ \A m \in 1 .. r : CandidateIn(oracle, h, read, m) \notin Scalar
  BY <1>3 DEF At
<1>6. /\ Expected(call, asked, 5 + b + n) = Question(h, asked[3 + b], asked[4 + b + n], tail)
      /\ \A a : Expected(call, a, 6 + b + n) = Question(h, a[5 + b + n], a[4 + b + n], Empty)
  BY <1>4, QuestionsOfARun DEF tail
<1> HIDE DEF h, n, b, s
<1>7. /\ s \in Nat /\ 5 + b + n = s + 1 /\ 4 + b + n = s /\ 6 + b + n = s + 2
      /\ s + 1 = 3 + (r + 1) * (n + 2) /\ s + 2 = 4 + (r + 1) * (n + 2) + 0
      /\ Len(read) = (r + 1) * n + 0 /\ (r + 1) * n <= Len(read) /\ s # 0
  BY <1>4, <1>5
<1>8. Question(h, K, V, tail) = Expected(call, asked, s + 1)
  BY <1>5, <1>6, <1>7
<1>9. ASSUME NEW x \in Nat
      PROVE  Question(h, x, V, Empty) = Expected(call, Append(asked, x), s + 2)
  <2>1. Append(asked, x)[s + 1] = x /\ Append(asked, x)[s] = asked[s]
    BY <1>1, <1>7 DEF s
  <2>2. QED
    BY <1>5, <1>6, <1>7, <2>1
<1>10. /\ TableOK(oracle') /\ IsWider(oracle', oracle)
       /\ Derivation(oracle', call', asked', read')
       /\ \A j \in DOMAIN done' : RecordOK(oracle', done'[j])
       /\ K' \in 0 .. Len(oracle') /\ V' \in 0 .. Len(oracle')
       /\ Len(asked') = s + 2 /\ asked'[s + 1] = K' /\ asked'[s + 2] = V'
  BY <1>1, <1>2, <1>5, <1>8, <1>9, UpdateStep DEF h, s
<1>11. Shapes'
  BY <1>1, <1>10, EmptyIsSlice, OctetsAssumption DEF IInv, Shapes
<1>12. WellShapedCall' /\ call'.hlen <= MAX_HLEN
  BY <1>1 DEF WellShapedCall, h
<1>13. ASSUME NEW m \in 1 .. r + 1
       PROVE  CandidateIn(oracle', h, read, m) \notin Scalar
  <2>1. \A i \in DOMAIN read : read[i] \in DOMAIN oracle
    BY ReadIsInTable DEF IInv
  <2>2. HasRuns(oracle, h, read, r + 1) /\ r + 1 \in Nat
    BY <1>4, <1>7, <2>1 DEF n, HasRuns
  <2>3. CandidateIn(oracle', h, read, m) = CandidateIn(oracle, h, read, m)
    BY <1>1, <1>4, <1>10, <2>2, RunsStay
  <2>4. CASE m = r + 1
    <3>1. Cand \notin Scalar
      BY <1>1, <1>3, CurveSizes DEF InRange, Scalar
    <3>2. QED
      BY <1>3, <2>3, <2>4, <3>1
  <2>5. CASE m \in 1 .. r
    BY <1>5, <2>3, <2>5
  <2>6. QED
    BY <2>4, <2>5
<1>14. Filling'
  <2>1. At(r + 1, 0)'
    <3>1. /\ Len(read') = (r + 1) * n + 0 /\ Len(asked') = 4 + (r + 1) * (n + 2) + 0
          /\ K' = asked'[3 + (r + 1) * (n + 2)] /\ V' = asked'[Len(asked')]
          /\ \A m \in 1 .. r + 1 : CandidateIn(oracle', h, read', m) \notin Scalar
      BY <1>1, <1>7, <1>10, <1>13
    <3>2. QED
      BY <1>1, <3>1 DEF At, n, h
  <2>2. t' = Stream(oracle', call'.hlen, read', (r + 1) + 1)[0]
    BY <1>1, <1>4, StreamStart DEF h
  <2>3. t' \in Slices(0 * call'.hlen)
    BY <1>1, <1>4, EmptyIsSlice DEF h
  <2>4. r + 1 \in Nat /\ 0 \in 0 .. Blocks(call'.hlen) - 1
    BY <1>1, <1>4 DEF n, h
  <2>5. QED
    BY <2>1, <2>2, <2>3, <2>4 DEF Filling
<1>15. QED
  BY <1>1, <1>10, <1>11, <1>12, <1>14 DEF IInv

\* One pass of the loop asks the next question and reads its output.
LEMMA FillAsks ==
  ASSUME IInv, Fill, NEW r \in Nat, NEW f \in 0 .. Blocks(call.hlen) - 1, At(r, f)
  PROVE  /\ TableOK(oracle') /\ IsWider(oracle', oracle)
         /\ V' \in DOMAIN oracle' /\ oracle'[V'].octets \in Slices(call.hlen)
         /\ Derivation(oracle', call, asked', read')
         /\ asked' = Append(asked, V') /\ read' = Append(read, V') /\ V' \in Nat
<1> DEFINE h == call.hlen
           n == Blocks(h)
           b == r * (n + 2)
           q == Question(h, K, V, Empty)
<1>1. /\ TableOK(oracle) /\ call \in Calls /\ h \in Nat \ {0}
      /\ K \in 0 .. Len(oracle) /\ V \in 0 .. Len(oracle)
      /\ Derivation(oracle, call, asked, read)
      /\ asked \in Seq(Nat) /\ read \in Seq(Nat)
  BY CallIsShaped DEF IInv, Shapes, Derivation, Follows, Reads
<1>2. /\ Len(read) = r * n + f /\ Len(asked) = 4 + b + f
      /\ K = asked[3 + b] /\ V = asked[Len(asked)]
  BY DEF At
<1>3. PICK octets \in Outputs[h] :
        /\ oracle' = Ask(oracle, q, octets) /\ V' = Name(oracle', q)
        /\ oracle' = oracle => octets = oracle[V'].octets
  BY DEF Fill
<1>4. asked' = Append(asked, V') /\ read' = Append(read, V')
  BY DEF Fill
<1>5. octets \in Slices(h) /\ octets \in Strings
  <2>1. Outputs[h] \subseteq Slices(h)
    BY <1>1, CallIsShaped DEF CallShape
  <2>2. octets \in Slices(h) /\ h \in Nat
    BY <1>1, <2>1
  <2>3. octets.len \in Nat /\ octets.val \in Nat /\ octets = [len |-> octets.len, val |-> octets.val]
    BY <2>2 DEF Slices
  <2>4. QED
    BY <2>2, <2>3 DEF Strings
<1>6. /\ q \in Questions /\ q.key = K /\ q.v = V /\ q.key <= Len(oracle) /\ q.v <= Len(oracle)
  BY <1>1, SlicesAreStrings DEF Question, Questions, TableOK
<1>7. /\ TableOK(oracle') /\ IsWider(oracle', oracle)
      /\ V' \in DOMAIN oracle' /\ oracle'[V'].question = q
      /\ V < V' /\ V' \in Nat
      /\ oracle' # oracle => oracle'[V'].octets = octets
  <2> DEFINE wider == Ask(oracle, q, octets)
             x == Name(wider, q)
  <2>1. /\ TableOK(wider) /\ IsWider(wider, oracle)
        /\ x \in DOMAIN wider /\ wider[x].question = q /\ q.v < x /\ x \in Nat \ {0}
        /\ wider # oracle => wider[x].octets = octets
    <3> HIDE DEF q
    <3>1. QED
      BY <1>1, <1>5, <1>6, AskGrows
  <2> HIDE DEF wider
  <2>2. oracle' = wider /\ V' = x
    BY <1>3 DEF wider
  <2> HIDE DEF x, q
  <2>3. QED
    BY <1>6, <2>1, <2>2
<1>8. oracle'[V'].octets \in Slices(h)
  <2>1. CASE oracle' # oracle
    BY <1>5, <1>7, <2>1
  <2>2. CASE oracle' = oracle
    BY <1>3, <1>5, <2>2
  <2>3. QED
    BY <2>1, <2>2
<1>9. n \in Nat \ {0} /\ b \in Nat /\ r * n \in Nat /\ f \in 0 .. n - 1
  <2>1. n \in Nat \ {0}
    BY <1>1, CallIsShaped
  <2> HIDE DEF n
  <2>2. r * n \in Nat /\ r * (n + 2) \in Nat
    BY <2>1
  <2>3. QED
    BY <2>1, <2>2 DEF n
<1>10. oracle'[V'].question = Expected(call, asked, Len(asked) + 1)
  <2>1. Expected(call, asked, 5 + b + f) = Question(h, asked[3 + b], asked[4 + b + f], Empty)
    BY <1>1, QuestionsOfARun
  <2>2. Question(h, asked[3 + b], asked[4 + b + f], Empty) = q
    BY <1>2
  <2> HIDE DEF b, q, h, n
  <2>3. 5 + b + f = Len(asked) + 1
    BY <1>2, <1>9
  <2>4. QED
    BY <1>7, <2>1, <2>2, <2>3
<1>11. Place(h, Len(read) + 1) = Len(asked) + 1
  <2>1. Place(h, r * n + f + 1) = 5 + b + f
    BY <1>1, PlaceOf
  <2> HIDE DEF b, n, h
  <2>2. r * n + f + 1 = Len(read) + 1 /\ 5 + b + f = Len(asked) + 1
    BY <1>2, <1>9
  <2>3. QED
    BY <2>1, <2>2
<1>12. asked[Len(asked)] < V'
  BY <1>2, <1>7
<1>13. Derivation(oracle', call, asked, read)
  BY <1>1, <1>7, DerivationStays
<1>14. Derivation(oracle', call, asked', read')
  <2> DEFINE table == oracle'
             x == V'
  <2>1. /\ Derivation(table, call, asked, read) /\ x \in Nat /\ x \in DOMAIN table
        /\ table[x].question = Expected(call, asked, Len(asked) + 1)
        /\ asked[Len(asked)] < x
    BY <1>7, <1>10, <1>12, <1>13
  <2> HIDE DEF table, x
  <2>2. Derivation(table, call, Append(asked, x), Append(read, x))
    BY <1>1, <1>11, <2>1, DerivationRead
  <2>3. QED
    BY <1>4, <2>2 DEF table, x
<1>15. QED
  BY <1>4, <1>7, <1>8, <1>14

\* The run so far is what it was, with one output more.
LEMMA RunGrows ==
  ASSUME NEW table, NEW wider, IsWider(wider, table), NEW h \in Nat \ {0},
         NEW o \in Seq(Nat), NEW x \in Nat, NEW r \in Nat, NEW f \in 0 .. Blocks(h) - 1,
         Len(o) = r * Blocks(h) + f, \A i \in DOMAIN o : o[i] \in DOMAIN table,
         NEW m, m = r + 1, NEW g, g = f + 1
  PROVE  Stream(wider, h, Append(o, x), m)[g]
           = Concat(Stream(table, h, o, m)[f], wider[x].octets)
<1> DEFINE c == Blocks(h)
           o2 == Append(o, x)
           S == Stream(wider, h, o2, r + 1)
<1>1. c \in Nat \ {0} /\ Len(o) \in Nat
  BY BlocksOf
<1>2. /\ f \in 0 .. c /\ f + 1 \in 1 .. c /\ (f + 1) - 1 = f /\ r * c \in Nat
      /\ ((r + 1) - 1) * c = r * c /\ f \in Nat
  <2> HIDE DEF c
  <2>1. f \in 0 .. c - 1
    BY DEF c
  <2>2. QED
    BY <1>1, <2>1
<1>3. /\ DOMAIN o = 1 .. Len(o) /\ \A i \in 1 .. Len(o) : o2[i] = o[i]
      /\ o2[Len(o) + 1] = x
  BY AppendIs
<1>4. /\ \A j : Output(wider, h, o2, r + 1, j) = wider[o2[r * c + j]].octets
      /\ \A j : Output(table, h, o, r + 1, j) = table[o[r * c + j]].octets
  BY <1>2 DEF Output
<1>5. S[f + 1] = Concat(S[f], Output(wider, h, o2, r + 1, f + 1))
  BY <1>2, StreamIsGrown
<1> HIDE DEF o2, S, c
<1>6. ASSUME NEW j \in 1 .. f
      PROVE  Output(wider, h, o2, r + 1, j) = Output(table, h, o, r + 1, j)
  <2> DEFINE i == r * c + j
  <2>1. i \in 1 .. Len(o)
    BY <1>2 DEF c
  <2>2. /\ Output(wider, h, o2, r + 1, j) = wider[o2[i]].octets
        /\ Output(table, h, o, r + 1, j) = table[o[i]].octets
    BY <1>4
  <2> HIDE DEF i
  <2>3. QED
    BY <1>3, <2>1, <2>2 DEF IsWider
<1>7. S[f] = Stream(table, h, o, r + 1)[f]
  <2>1. f \in 0 .. Blocks(h)
    BY <1>2 DEF c
  <2>2. QED
    BY <1>6, <2>1, StreamsAgree DEF S
<1>8. Output(wider, h, o2, r + 1, f + 1) = wider[x].octets
  <2>1. r * c + (f + 1) = Len(o) + 1
    BY <1>2 DEF c
  <2>2. QED
    BY <1>3, <1>4, <2>1
<1>9. QED
  BY <1>5, <1>7, <1>8 DEF S, o2

LEMMA FillStep == IInv /\ Fill => IInv'
<1> SUFFICES ASSUME IInv, Fill PROVE IInv'
  OBVIOUS
<1> DEFINE h == call.hlen
           n == Blocks(h)
           O == oracle'[V'].octets
<1>1. /\ pc = "fill" /\ Filling /\ call' = call /\ K' = K /\ done' = done
      /\ t' = Concat(t, Prefix(O, Take))
      /\ pc' = IF t'.len < ELEM_BYTES THEN "fill" ELSE "test"
      /\ WellShapedCall /\ h <= MAX_HLEN /\ Len(done) < MaxCalls /\ call \in Calls
      /\ asked \in Seq(Nat) /\ read \in Seq(Nat)
  BY DEF Fill, IInv, Shapes, Derivation, Follows, Reads
<1>2. PICK r \in Nat, f \in 0 .. n - 1 :
        At(r, f) /\ t = Stream(oracle, h, read, r + 1)[f] /\ t \in Slices(f * h)
  BY <1>1 DEF Filling
<1> DEFINE S == Stream(oracle', h, read', r + 1)
<1>3. /\ TableOK(oracle') /\ IsWider(oracle', oracle)
      /\ V' \in DOMAIN oracle' /\ O \in Slices(h)
      /\ Derivation(oracle', call', asked', read')
      /\ asked' = Append(asked, V') /\ read' = Append(read, V') /\ V' \in Nat
  BY <1>1, <1>2, FillAsks
<1>4. \A i \in DOMAIN read : read[i] \in DOMAIN oracle
  BY ReadIsInTable DEF IInv
<1>5. h \in Nat \ {0} /\ n \in Nat \ {0} /\ ELEM_BYTES <= n * h /\ n * h < ELEM_BYTES + h
  BY <1>1, CallIsShaped, BlocksOf
<1>6. Len(read) = r * n + f
  BY <1>2 DEF At
<1>7. S[f + 1] = Concat(t, O)
  <2> DEFINE wider == oracle'
             x == V'
  <2>1. /\ IsWider(wider, oracle) /\ x \in Nat /\ read' = Append(read, x)
        /\ O = wider[x].octets
    BY <1>3
  <2> DEFINE m == r + 1
             g == f + 1
  <2>2. /\ m = r + 1 /\ g = f + 1 /\ f \in 0 .. Blocks(h) - 1
        /\ Len(read) = r * Blocks(h) + f
    BY <1>6
  <2> HIDE DEF wider, x, O, m, g, h
  <2>3. read \in Seq(Nat) /\ h \in Nat \ {0} /\ IsWider(wider, oracle) /\ x \in Nat
    BY <1>1, <1>5, <2>1
  <2>4. Stream(wider, h, Append(read, x), m)[g]
          = Concat(Stream(oracle, h, read, m)[f], wider[x].octets)
    BY <1>4, <2>2, <2>3, RunGrows
  <2>5. QED
    BY <1>2, <2>1, <2>4 DEF wider, m, g
<1>8. At(r, f + 1)'
  <2> DEFINE b == r * (n + 2)
             s == Len(asked)
  <2>1. /\ s = 4 + b + f /\ K = asked[3 + b]
        /\ \A m \in 1 .. r : CandidateIn(oracle, h, read, m) \notin Scalar
    BY <1>2 DEF At
  <2>2. b \in Nat /\ r * n \in Nat
    <3> HIDE DEF n
    <3>1. QED
      BY <1>5
  <2>3. /\ Len(asked') = s + 1 /\ s \in Nat /\ \A i \in 1 .. s : asked'[i] = asked[i]
        /\ asked'[s + 1] = V'
    BY <1>1, <1>3, AppendIs
  <2>4. /\ Len(read') = Len(read) + 1 /\ DOMAIN read = 1 .. Len(read)
        /\ DOMAIN read' = 1 .. Len(read) + 1 /\ Len(read) \in Nat
        /\ \A i \in 1 .. Len(read) : read'[i] = read[i]
        /\ read' \in Seq(Nat)
    BY <1>1, <1>3, AppendIs
  <2>5. ASSUME NEW m \in 1 .. r
        PROVE  CandidateIn(oracle', h, read', m) \notin Scalar
    <3>1. r * Blocks(h) <= Len(read)
      <4> HIDE DEF h
      <4>1. QED
        BY <1>6, <2>2
    <3>2. \A i \in DOMAIN read : read[i] \in DOMAIN oracle /\ i \in DOMAIN read' /\ read'[i] = read[i]
      BY <1>4, <2>4
    <3>3. CandidateIn(oracle', h, read', m) = CandidateIn(oracle, h, read, m)
      <4> DEFINE wider == oracle'
                 o2 == read'
      <4>1. /\ IsWider(wider, oracle) /\ o2 \in Seq(Nat)
            /\ GoesOn(oracle, h, read, o2, r)
        BY <1>3, <2>4, <3>1, <3>2 DEF GoesOn
      <4> HIDE DEF wider, o2, h
      <4>2. \A l \in 1 .. r : CandidateIn(wider, h, o2, l) = CandidateIn(oracle, h, read, l)
        <5>1. read \in Seq(Nat) /\ h \in Nat \ {0} /\ r \in Nat
          BY <1>1, <1>5
        <5>2. QED
          BY <4>1, <5>1, CandidateStays
      <4>3. QED
        BY <4>2 DEF wider, o2
    <3>4. QED
      BY <2>1, <3>3
  <2> HIDE DEF b, n, s
  <2>6. 3 + b \in 1 .. s /\ s + 1 = 4 + b + (f + 1) /\ Len(read) + 1 = r * n + (f + 1)
    BY <1>6, <2>1, <2>2
  <2>7. /\ Len(read') = r * n + (f + 1) /\ Len(asked') = 4 + b + (f + 1)
        /\ K' = asked'[3 + b] /\ V' = asked'[Len(asked')]
    BY <1>1, <2>1, <2>3, <2>4, <2>6
  <2>8. QED
    BY <1>1, <2>5, <2>7 DEF At, n, b
<1>9. /\ f \in Nat /\ f * h \in Nat /\ (f + 1) * h = f * h + h /\ (f + 1) * h \in Nat
      /\ f + 1 <= n /\ f + 1 \in Nat
      /\ t.len = f * h /\ h \in Nat /\ O.len = h
      /\ n * h + 0 <= SLICE_BYTES /\ SLICE_BYTES \in Nat /\ ELEM_BYTES \in Nat \ {0}
  <2>1. t.len = f * h /\ O.len = h
    BY <1>2, <1>3 DEF Slices
  <2>2. ELEM_BYTES + h <= SLICE_BYTES /\ SLICE_BYTES \in Nat /\ ELEM_BYTES \in Nat \ {0}
    BY <1>1, <1>5, OctetsAssumption, RfcAssumption
  <2> HIDE DEF h, n, O
  <2>3. f \in Nat /\ f * h \in Nat /\ (f + 1) * h = f * h + h /\ (f + 1) * h \in Nat /\ n * h \in Nat
    BY <1>5
  <2>4. f \in 0 .. n - 1
    BY <1>2
  <2>5. QED
    BY <1>5, <2>1, <2>2, <2>3, <2>4
<1>10. (f + 1) * h <= n * h /\ (f + 1 < n => (f + 1) * h < ELEM_BYTES)
  <2> HIDE DEF h, n
  <2>1. (f + 1) * h <= n * h
    BY <1>5, <1>9
  <2>2. ASSUME f + 1 < n PROVE (f + 1) * h < ELEM_BYTES
    <3>1. (f + 2) * h <= n * h /\ (f + 2) * h = (f + 1) * h + h
      BY <1>5, <1>9, <2>2
    <3>2. QED
      BY <1>5, <1>9, <3>1
  <2>3. QED
    BY <2>1, <2>2
<1>11. \A j \in DOMAIN done' : RecordOK(oracle', done'[j])
  <2>1. ASSUME NEW j \in DOMAIN done PROVE RecordOK(oracle', done[j])
    BY <1>3, RecordStays DEF IInv
  <2>2. QED
    BY <1>1, <2>1
<1>12. V' \in 0 .. Len(oracle') /\ K' \in 0 .. Len(oracle')
  <2>1. V' \in 0 .. Len(oracle')
    BY <1>3 DEF TableOK
  <2>2. K \in Nat /\ K < Len(oracle') + 1
    <3>1. K \in 0 .. Len(oracle) /\ Len(oracle) \in Nat /\ DOMAIN oracle = 1 .. Len(oracle)
      BY DEF IInv, Shapes, TableOK
    <3>2. Len(oracle') \in Nat /\ DOMAIN oracle' = 1 .. Len(oracle')
      BY <1>3 DEF TableOK
    <3>3. K = 0 \/ K \in DOMAIN oracle'
      BY <1>3, <3>1 DEF IsWider
    <3>4. QED
      BY <3>1, <3>2, <3>3
  <2>3. Len(oracle') \in Nat
    BY <1>3 DEF TableOK
  <2>4. QED
    BY <1>1, <2>1, <2>2, <2>3
<1> DEFINE take == Take
<1>13. take = IF h < ELEM_BYTES - f * h THEN h ELSE ELEM_BYTES - f * h
  BY <1>9 DEF Take
<1>14. WellShapedCall' /\ call'.hlen <= MAX_HLEN
  BY <1>1 DEF WellShapedCall
<1>15. CASE f + 1 < n
  <2>1. take = h
    <3> HIDE DEF h, n, take
    <3>1. QED
      BY <1>9, <1>10, <1>13, <1>15
  <2>2. Prefix(O, h) = O
    <3>0. h <= SLICE_BYTES
      BY <1>1, <1>9, RfcAssumption
    <3> HIDE DEF O, h
    <3>1. h \in 0 .. SLICE_BYTES /\ h \in 0 .. h
      BY <1>9, <3>0
    <3>2. QED
      BY <1>3, <3>1, PrefixOfSlice
  <2>3. t' = S[f + 1]
    BY <1>1, <1>7, <2>1, <2>2
  <2>4. t' \in Slices((f + 1) * h) /\ t'.len = (f + 1) * h
    <3>1. f * h + h <= SLICE_BYTES
      <4> HIDE DEF h, n
      <4>1. QED
        BY <1>5, <1>9, <1>10
    <3>2. Concat(t, O) \in Slices(f * h + h) /\ Concat(t, O).len = f * h + h
      <4> HIDE DEF h, O
      <4>1. QED
        BY <1>2, <1>3, <1>9, <3>1, ConcatOfSlices DEF h, O
    <3>3. QED
      BY <1>7, <1>9, <2>3, <3>2
  <2>5. pc' = "fill"
    BY <1>1, <1>10, <1>15, <2>4
  <2>6. Filling'
    <3>1. f + 1 \in 0 .. n - 1
      <4> HIDE DEF n
      <4>1. QED
        BY <1>5, <1>9, <1>15
    <3>2. QED
      BY <1>1, <1>8, <2>3, <2>4, <3>1 DEF Filling
  <2>7. IsSlice(t') /\ t'.len <= ELEM_BYTES
    <3>1. (f + 1) * h \in 0 .. SLICE_BYTES /\ (f + 1) * h <= ELEM_BYTES
      <4> HIDE DEF h, n
      <4>1. QED
        BY <1>5, <1>9, <1>10, <1>15, OctetsAssumption
    <3>2. QED
      BY <2>4, <3>1 DEF IsSlice
  <2>8. Shapes'
    BY <1>1, <1>12, <2>5, <2>7 DEF IInv, Shapes
  <2>9. QED
    BY <1>1, <1>3, <1>11, <1>14, <2>5, <2>6, <2>8 DEF IInv
<1>16. CASE f + 1 = n
  <2> DEFINE m == n * h
  <2>1. /\ take \in 0 .. h /\ f * h + take = ELEM_BYTES
        /\ m = f * h + h /\ m \in 0 .. SLICE_BYTES /\ ELEM_BYTES <= m
    <3> HIDE DEF h, n, take
    <3>1. m = (f + 1) * h /\ m = f * h + h
      BY <1>9, <1>16
    <3> HIDE DEF m
    <3>2. f * h < ELEM_BYTES
      BY <1>5, <1>9, <3>1 DEF m
    <3>3. m \in Nat /\ m <= SLICE_BYTES /\ ELEM_BYTES <= m
      BY <1>5, <1>9, <3>1 DEF m
    <3>4. QED
      BY <1>9, <1>13, <3>1, <3>2, <3>3
  <2>2. t' = Prefix(S[f + 1], ELEM_BYTES)
    <3>1. Concat(t, Prefix(O, take)) = Prefix(Concat(t, O), f * h + take)
      <4> DEFINE k == f * h
      <4> HIDE DEF h, O, take, m
      <4>1. /\ k \in Nat /\ h \in Nat /\ k + h <= SLICE_BYTES /\ take \in 0 .. h
            /\ t \in Slices(k) /\ O \in Slices(h)
        BY <1>2, <1>3, <1>9, <2>1
      <4> HIDE DEF k
      <4>2. Concat(t, Prefix(O, take)) = Prefix(Concat(t, O), k + take)
        BY <4>1, TakeIsACut
      <4>3. QED
        BY <4>2 DEF k
    <3>2. QED
      BY <1>1, <1>7, <2>1, <3>1
  <2>3. S[f + 1] \in Slices(m)
    <3>1. Concat(t, O) \in Slices(f * h + h)
      <4> DEFINE k == f * h
      <4> HIDE DEF h, O, m
      <4>1. /\ k \in Nat /\ h \in Nat /\ k + h <= SLICE_BYTES
            /\ t \in Slices(k) /\ O \in Slices(h)
        BY <1>2, <1>3, <1>9, <2>1
      <4> HIDE DEF k
      <4>2. Concat(t, O) \in Slices(k + h)
        BY <4>1, ConcatOfSlices
      <4>3. QED
        BY <4>2 DEF k
    <3>2. QED
      BY <1>7, <2>1, <3>1
  <2> HIDE DEF m, S
  <2>4. t' \in Slices(ELEM_BYTES) /\ t'.len = ELEM_BYTES
    <3>1. ELEM_BYTES \in 0 .. m
      BY <1>9, <2>1
    <3>2. Prefix(S[f + 1], ELEM_BYTES) \in Slices(ELEM_BYTES)
      BY <2>1, <2>3, <3>1, PrefixOfSlice
    <3>3. QED
      BY <2>2, <3>2 DEF Slices
  <2>5. IsSlice(t') /\ t'.len # 0 /\ t'.len <= ELEM_BYTES
    <3>1. ELEM_BYTES \in 0 .. SLICE_BYTES
      BY OctetsAssumption
    <3>2. QED
      BY <1>9, <2>4, <3>1 DEF IsSlice
  <2>6. Cand' = CandidateIn(oracle', h, read', r + 1) /\ Cand' \in Nat
    <3> DEFINE w == t'
    <3>1. IsSlice(w) /\ w.len # 0 /\ w = Prefix(S[f + 1], ELEM_BYTES)
      BY <2>2, <2>5
    <3> HIDE DEF w
    <3>2. HashToScalar(w, NBits) = LeftmostBits(w, NBits) /\ LeftmostBits(w, NBits) \in Nat
      BY <3>1, LeftmostBitsOfDigest
    <3>3. LeftmostBits(w, NBits) = LeftmostBits(S[f + 1], NBits)
      BY <2>1, <2>3, <3>1, LeftmostBitsOfPrefix
    <3>4. CandidateIn(oracle', h, read', r + 1) = LeftmostBits(S[f + 1], NBits)
      BY <1>16 DEF CandidateIn, S
    <3>5. Cand' = HashToScalar(w, NBits)
      BY DEF Cand, w
    <3>6. QED
      BY <3>2, <3>3, <3>4, <3>5
  <2>7. pc' = "test"
    BY <1>1, <1>9, <2>4
  <2>8. Testing'
    BY <1>1, <1>8, <1>16, <2>4, <2>6 DEF Testing
  <2>9. Shapes'
    BY <1>1, <1>12, <2>5, <2>7 DEF IInv, Shapes
  <2>10. QED
    BY <1>1, <1>3, <1>11, <1>14, <2>7, <2>8, <2>9 DEF IInv
<1>17. f + 1 < n \/ f + 1 = n
  BY <1>5, <1>9
<1>18. QED
  BY <1>15, <1>16, <1>17

LEMMA NextIInv == IInv /\ [Next]_vars => IInv'
<1> SUFFICES ASSUME IInv, [Next]_vars PROVE IInv'
  OBVIOUS
<1>1. CASE UNCHANGED vars
  <2>1. UNCHANGED <<pc, call, K, V, t, asked, read, oracle, done>>
    BY <1>1 DEF vars
  <2>2. Shapes' /\ WellShapedCall' = WellShapedCall
    BY <2>1 DEF IInv, Shapes, WellShapedCall
  <2>3. (Filling' <=> Filling) /\ (Testing' <=> Testing)
    BY <2>1 DEF Filling, Testing, At, Cand
  <2>4. QED
    BY <2>1, <2>2, <2>3 DEF IInv
<1>2. CASE Over
  BY <1>1, <1>2 DEF Over
<1>3. QED
  BY <1>1, <1>2, BeginStep, RejectStep, Seed0Step, Seed1Step, FillStep, AcceptStep, ReseedStep
  DEF Next

\* The table asks each question once, every call so far asked it the questions of
\* the RFC, and the call that runs is where its questions say.
THEOREM Invariance == Spec => []IInv
<1>1. Init => IInv
  BY InitIInv
<1>2. IInv /\ [Next]_vars => IInv'
  BY NextIInv
<1>3. QED
  BY <1>1, <1>2, PTL DEF Spec

-----------------------------------------------------------------------------
(* What follows                                                            *)

\* The state names outputs of the HMAC that were asked for, and the candidate that
\* rfc6979_nonce assembles never outgrows an element.
THEOREM TypeCorrect == Spec => []TypeOK
<1>1. IInv => TypeOK
  <2> SUFFICES ASSUME IInv PROVE TypeOK
    OBVIOUS
  <2>1. \A j \in DOMAIN asked : asked[j] \in DOMAIN oracle
    BY DEF IInv, Derivation, Follows
  <2>2. \A j \in DOMAIN read : read[j] \in DOMAIN oracle
    BY ReadIsInTable DEF IInv
  <2>3. t.len \in 0 .. ELEM_BYTES /\ t.val \in 0 .. Width(t.len) - 1
    <3>1. t.len \in 0 .. SLICE_BYTES /\ t.len <= ELEM_BYTES /\ t \in Slices(t.len)
      BY DEF IInv, Shapes, IsSlice
    <3>2. QED
      BY <3>1, OctetsAssumption DEF Slices
  <2>4. QED
    BY <2>1, <2>2, <2>3 DEF IInv, Shapes, TypeOK
<1>2. QED
  BY <1>1, Invariance, PTL

LEMMA EachQuestionOnce ==
  ASSUME NEW table, NEW c, NEW a, Follows(table, c, a)
  PROVE  \A m, l \in DOMAIN a : a[m] = a[l] => m = l
<1>1. a \in Seq(Nat) /\ \A m \in DOMAIN a : a[m] \in Nat
  BY DEF Follows
<1>2. ASSUME NEW m \in DOMAIN a, NEW l \in DOMAIN a, a[m] = a[l] PROVE m = l
  <2>1. m \in Nat /\ l \in Nat
    BY <1>1
  <2>2. ~(m < l) /\ ~(l < m)
    BY <1>1, <1>2 DEF Follows
  <2>3. QED
    BY <2>1, <2>2
<1>3. QED
  BY <1>2

\* The questions update_kv and the loop of rfc6979_nonce ask are those of RFC 6979,
\* in its order, and none comes twice, for every hash length, width and order.
THEOREM FollowsTheRfcAlways == Spec => []FollowsTheRfc
<1>1. IInv => FollowsTheRfc
  <2> SUFFICES ASSUME IInv PROVE FollowsTheRfc
    OBVIOUS
  <2>1. Follows(oracle, call, asked)
    BY DEF IInv, Derivation
  <2>2. \A m, l \in DOMAIN asked : asked[m] = asked[l] => m = l
    BY <2>1, EachQuestionOnce
  <2>3. QED
    BY <2>1, <2>2 DEF Follows, FollowsTheRfc
<1>2. QED
  BY <1>1, Invariance, PTL

LEMMA CandidateIs ==
  ASSUME NEW h, NEW o, NEW m
  PROVE  Candidate(h, o, m) = CandidateIn(oracle, h, o, m)
BY DEF Candidate, CandidateIn

LEMMA TriesOf ==
  ASSUME NEW n \in Nat, NEW c \in Nat \ {0}
  PROVE  (n * c) \div c = n
<1> DEFINE x == n * c
<1>1. x = c * n + 0 /\ x \in Int /\ 0 \in 0 .. c - 1
  OBVIOUS
<1> HIDE DEF x
<1>2. x \div c = n
  BY <1>1, DivModUnique
<1>3. QED
  BY <1>2 DEF x

\* rfc6979_nonce returns the first candidate in [1, n - 1] and nothing else, and
\* derive_nonce_rfc6979_ct_added writes nothing when it refuses.
THEOREM FirstGoodCandidateAlways == Spec => []FirstGoodCandidate
<1>1. IInv => FirstGoodCandidate
  <2> SUFFICES ASSUME IInv, NEW j \in DOMAIN done
               PROVE  LET r == done[j]
                          c == Blocks(r.call.hlen)
                          tries == Len(r.read) \div c
                      IN  IF r.read = <<>> THEN ~r.ok /\ r.out = r.call.out
                          ELSE /\ Len(r.read) = tries * c
                               /\ \A m \in 1 .. tries - 1 :
                                    Candidate(r.call.hlen, r.read, m) \notin Scalar
                               /\ Candidate(r.call.hlen, r.read, tries) \in Scalar
                               /\ r.out = ToBE(Candidate(r.call.hlen, r.read, tries), ELEM_BYTES)
                               /\ r.ok <=> r.call.d.val \in Scalar
    BY DEF FirstGoodCandidate
  <2> DEFINE r == done[j]
             h == r.call.hlen
             c == Blocks(h)
             tries == Len(r.read) \div c
  <2>1. RecordOK(oracle, r)
    BY DEF IInv
  <2>2. CASE r.read = <<>>
    BY <2>1, <2>2 DEF RecordOK, Nothing, FirstInRange
  <2>3. CASE r.read # <<>>
    <3>1. FirstInRange(oracle, r) /\ r \in Records
      BY <2>1, <2>3 DEF RecordOK, Nothing
    <3>2. (r.ok <=> r.call.d.val \in Scalar)
      BY <3>1 DEF FirstInRange
    <3>3. PICK n \in Nat \ {0} :
            /\ Len(r.read) = n * c
            /\ \A m \in 1 .. n - 1 : CandidateIn(oracle, h, r.read, m) \notin Scalar
            /\ CandidateIn(oracle, h, r.read, n) \in Scalar
            /\ r.out = ToBE(CandidateIn(oracle, h, r.read, n), ELEM_BYTES)
      BY <3>1 DEF FirstInRange
    <3>4. tries = n
      <4>1. c \in Nat \ {0} /\ n \in Nat
        BY <3>1, CallIsShaped DEF Records
      <4> HIDE DEF c
      <4>2. QED
        BY <3>3, <4>1, TriesOf
    <3> HIDE DEF tries, r, h, c
    <3>5. /\ Len(r.read) = tries * c
          /\ \A m \in 1 .. tries - 1 : Candidate(h, r.read, m) \notin Scalar
          /\ Candidate(h, r.read, tries) \in Scalar
          /\ r.out = ToBE(Candidate(h, r.read, tries), ELEM_BYTES)
      BY <3>3, <3>4, CandidateIs
    <3>6. QED
      BY <2>3, <3>2, <3>5 DEF tries, r, h, c
  <2>4. QED
    BY <2>2, <2>3
<1>2. QED
  BY <1>1, Invariance, PTL

-----------------------------------------------------------------------------
(* Two calls                                                               *)

LEMMA LastOctets ==
  ASSUME NEW x1 \in Strings, NEW x2 \in Strings, x1.len = x2.len,
         NEW y1, NEW y2, IsSlice(y1), IsSlice(y2), Concat(x1, y1) = Concat(x2, y2)
  PROVE  x1 = x2 /\ y1 = y2
<1> DEFINE m == y1.len
<1>1. /\ m \in 0 .. SLICE_BYTES /\ SLICE_BYTES \in Nat
      /\ x1.len \in Nat /\ x1.val \in Nat /\ x2.val \in Nat /\ y2.len \in Nat
      /\ x1 = [len |-> x1.len, val |-> x1.val] /\ x2 = [len |-> x2.len, val |-> x2.val]
  BY OctetsAssumption DEF IsSlice, Strings
<1>2. y2.len = m
  <2>1. x1.len + y1.len = x2.len + y2.len
    BY DEF Concat
  <2>2. QED
    BY <1>1, <2>1
<1> DEFINE w == Width(m)
<1>3. /\ y1.val \in 0 .. w - 1 /\ y2.val \in 0 .. w - 1
      /\ y1 = [len |-> m, val |-> y1.val] /\ y2 = [len |-> m, val |-> y2.val]
  BY <1>2 DEF IsSlice, Slices
<1>4. x1.val * w + y1.val = x2.val * w + y2.val
  BY <1>2 DEF Concat
<1>5. w \in Nat \ {0}
  BY <1>1, WidthType
<1> HIDE DEF w, m
<1> DEFINE v == x1.val * w + y1.val
<1>6. v = w * x1.val + y1.val /\ v = w * x2.val + y2.val /\ v \in Int
  <2>1. x1.val * w = w * x1.val /\ x2.val * w = w * x2.val /\ w * x1.val \in Int
    BY <1>1, <1>5
  <2>2. QED
    BY <1>3, <1>4, <2>1
<1> HIDE DEF v
<1>7. v \div w = x1.val /\ v % w = y1.val
  BY <1>1, <1>3, <1>5, <1>6, DivModUnique
<1>8. v \div w = x2.val /\ v % w = y2.val
  BY <1>1, <1>3, <1>5, <1>6, DivModUnique
<1>9. QED
  BY <1>1, <1>3, <1>7, <1>8

\* What is hashed into the state says what the inputs were.
LEMMA SeedsTellInputsApart ==
  ASSUME NEW c1 \in Calls, NEW c2 \in Calls,
         c1.d.len = ELEM_BYTES, c1.digest.len # 0, c2.d.len = ELEM_BYTES, c2.digest.len # 0,
         SeedOf(0, c1) = SeedOf(0, c2)
  PROVE  SameInputs(c1, c2)
<1> DEFINE X(c) == Concat(Octet(0), c.d)
           H(c) == ToBE(E(c.digest), ELEM_BYTES)
           Y(c) == Concat(X(c), H(c))
<1>1. ASSUME NEW c \in Calls, c.d.len = ELEM_BYTES, c.digest.len # 0
      PROVE  /\ IsSlice(c.d) /\ IsSlice(c.added) /\ IsSlice(H(c)) /\ H(c).val = E(c.digest)
             /\ Octet(0) \in Strings /\ X(c) \in Strings /\ Y(c) \in Strings
             /\ X(c).len = 1 + ELEM_BYTES /\ Y(c).len = 1 + ELEM_BYTES + ELEM_BYTES
  <2>1. /\ IsSlice(c.d) /\ IsSlice(c.digest) /\ IsSlice(c.added)
        /\ ELEM_BYTES \in 0 .. SLICE_BYTES /\ ELEM_BYTES \in Nat
    BY CallIsShaped, OctetsAssumption
  <2>2. E(c.digest) \in 0 .. N - 1
    BY <1>1, <2>1, LeftmostBitsOfDigest DEF E
  <2> DEFINE e == E(c.digest)
  <2>3. e \in Nat /\ e < Width(ELEM_BYTES) /\ e \in Int
    <3> HIDE DEF e
    <3>1. e \in 0 .. N - 1
      BY <2>2 DEF e
    <3>2. Width(ELEM_BYTES) \in Nat
      BY <2>1, WidthType
    <3>3. QED
      BY <3>1, <3>2, CurveSizes
  <2> HIDE DEF e
  <2>4. ToBE(e, ELEM_BYTES) \in Slices(ELEM_BYTES) /\ ToBE(e, ELEM_BYTES).val = e
    BY <2>1, <2>3, ToBEType, ToBEExact
  <2>5. IsSlice(H(c)) /\ H(c).val = E(c.digest) /\ H(c).len = ELEM_BYTES
    BY <2>1, <2>4 DEF IsSlice, Slices, e
  <2> HIDE DEF H
  <2>6. /\ c.d \in Strings /\ H(c) \in Strings /\ Octet(0) \in Strings
        /\ c.d.len <= SLICE_BYTES /\ H(c).len <= SLICE_BYTES
    <3>1. 0 \in Nat
      OBVIOUS
    <3>2. QED
      BY <1>1, <2>1, <2>5, <3>1, SlicesAreStrings
  <2>7. X(c) \in Strings /\ X(c).len = 1 + ELEM_BYTES
    BY <1>1, <2>6, SlicesAreStrings DEF Concat, Octet
  <2> HIDE DEF X
  <2>8. Y(c) \in Strings /\ Y(c).len = 1 + ELEM_BYTES + ELEM_BYTES
    BY <2>5, <2>6, <2>7, SlicesAreStrings DEF Concat
  <2>9. QED
    BY <2>1, <2>5, <2>6, <2>7, <2>8
<1>2. Concat(Y(c1), c1.added) = Concat(Y(c2), c2.added)
  BY DEF SeedOf
<1> HIDE DEF Y
<1>3. Y(c1) = Y(c2) /\ c1.added = c2.added
  <2>1. /\ Y(c1) \in Strings /\ Y(c2) \in Strings /\ Y(c1).len = Y(c2).len
        /\ IsSlice(c1.added) /\ IsSlice(c2.added)
    BY <1>1
  <2>2. QED
    BY <1>2, <2>1, LastOctets
<1> HIDE DEF X, H
<1>4. X(c1) = X(c2) /\ H(c1) = H(c2)
  <2>1. /\ X(c1) \in Strings /\ X(c2) \in Strings /\ X(c1).len = X(c2).len
        /\ IsSlice(H(c1)) /\ IsSlice(H(c2))
    BY <1>1
  <2>2. Concat(X(c1), H(c1)) = Concat(X(c2), H(c2))
    BY <1>3 DEF Y
  <2>3. QED
    BY <2>1, <2>2, LastOctets
<1>5. c1.d = c2.d
  <2> DEFINE o == Octet(0)
  <2>1. o \in Strings /\ IsSlice(c1.d) /\ IsSlice(c2.d) /\ o.len = o.len
    BY <1>1
  <2>2. Concat(o, c1.d) = Concat(o, c2.d)
    BY <1>4 DEF X
  <2> HIDE DEF o
  <2>3. QED
    BY <2>1, <2>2, LastOctets
<1>6. E(c1.digest) = E(c2.digest)
  <2>1. E(c1.digest) = H(c1).val /\ E(c2.digest) = H(c2).val
    BY <1>1
  <2>2. QED
    BY <1>4, <2>1
<1>7. QED
  BY <1>3, <1>5, <1>6 DEF SameInputs

Higher(q) == IF q.key > q.v THEN q.key ELSE q.v

\* Every question but the first is about the output before it, and nothing later.
LEMMA AboutTheLast ==
  ASSUME NEW table, TableOK(table), NEW c, c.hlen \in Nat \ {0}, NEW a, Follows(table, c, a),
         NEW m \in DOMAIN a
  PROVE  /\ m = 1 => Higher(Expected(c, a, m)) = 0
         /\ m # 1 => m - 1 \in DOMAIN a /\ Higher(Expected(c, a, m)) = a[m - 1]
<1>1. /\ a \in Seq(Nat) /\ Len(a) \in Nat /\ DOMAIN a = 1 .. Len(a) /\ m \in 1 .. Len(a)
      /\ \A i \in 1 .. Len(a) : a[i] \in Nat \ {0}
      /\ \A i, j \in 1 .. Len(a) : i < j => a[i] < a[j]
  BY DEF Follows, TableOK
<1>2. ASSUME NEW h, NEW key, NEW v, NEW tail
      PROVE  Question(h, key, v, tail).key = key /\ Question(h, key, v, tail).v = v
  BY DEF Question
<1>3. CASE m = 1
  BY <1>2, <1>3, FirstQuestions DEF Higher, Initial
<1>4. CASE m = 2
  <2>1. 1 \in 1 .. Len(a) /\ m - 1 = 1 /\ a[1] \in Nat \ {0}
    BY <1>1, <1>4
  <2>2. Expected(c, a, m).key = a[1] /\ Expected(c, a, m).v = 0
    BY <1>2, <1>4, FirstQuestions DEF Initial
  <2>3. QED
    BY <1>1, <1>4, <2>1, <2>2 DEF Higher
<1>5. CASE m = 3
  <2>1. 1 \in 1 .. Len(a) /\ 2 \in 1 .. Len(a) /\ m - 1 = 2
    BY <1>1, <1>5
  <2>2. Expected(c, a, m).key = a[1] /\ Expected(c, a, m).v = a[2]
    BY <1>2, <1>5, FirstQuestions
  <2>3. a[1] < a[2] /\ a[1] \in Nat /\ a[2] \in Nat
    BY <1>1, <2>1
  <2>4. QED
    BY <1>1, <1>5, <2>1, <2>2, <2>3 DEF Higher
<1>6. CASE m = 4
  <2>1. 2 \in 1 .. Len(a) /\ 3 \in 1 .. Len(a) /\ m - 1 = 3
    BY <1>1, <1>6
  <2>2. Expected(c, a, m).key = a[3] /\ Expected(c, a, m).v = a[2]
    BY <1>2, <1>6, FirstQuestions
  <2>3. a[2] < a[3] /\ a[2] \in Nat /\ a[3] \in Nat
    BY <1>1, <2>1
  <2>4. QED
    BY <1>1, <1>6, <2>1, <2>2, <2>3 DEF Higher
<1>7. CASE m > 4
  <2> DEFINE h == c.hlen
             n == Blocks(h)
  <2>1. PICK r \in Nat, f \in 0 .. n + 1 : m = 5 + r * (n + 2) + f
    <3>1. h \in Nat \ {0} /\ m \in Nat
      BY <1>1
    <3> HIDE DEF h
    <3>2. \E r \in Nat, f \in 0 .. Blocks(h) + 1 : m = 5 + r * (Blocks(h) + 2) + f
      BY <1>7, <3>1, LaterIndex
    <3>3. QED
      BY <3>2
  <2> DEFINE b == r * (n + 2)
  <2>2. n \in Nat \ {0} /\ b \in Nat
    <3>1. n \in Nat \ {0}
      BY BlocksOf
    <3> HIDE DEF n
    <3>2. QED
      BY <3>1
  <2>3. /\ \A g \in 0 .. n - 1 :
             Expected(c, a, 5 + b + g) = Question(h, a[3 + b], a[4 + b + g], Empty)
        /\ Expected(c, a, 5 + b + n) = Question(h, a[3 + b], a[4 + b + n], Octet(0))
        /\ Expected(c, a, 6 + b + n) = Question(h, a[5 + b + n], a[4 + b + n], Empty)
    BY QuestionsOfARun
  <2>4. m = 5 + b + f /\ f \in 0 .. n + 1
    BY <2>1
  <2> HIDE DEF h, n, b
  <2>5. CASE f \in 0 .. n
    <3>1. 3 + b \in 1 .. Len(a) /\ m - 1 \in 1 .. Len(a) /\ 3 + b < m - 1 /\ m - 1 = 4 + b + f
      BY <1>1, <2>2, <2>4, <2>5
    <3>2. Expected(c, a, m).key = a[3 + b] /\ Expected(c, a, m).v = a[m - 1]
      <4>1. CASE f \in 0 .. n - 1
        BY <1>2, <2>3, <2>4, <3>1, <4>1
      <4>2. CASE f = n
        BY <1>2, <2>3, <2>4, <3>1, <4>2
      <4>3. QED
        BY <2>2, <2>5, <4>1, <4>2
    <3>3. a[3 + b] < a[m - 1] /\ a[3 + b] \in Nat /\ a[m - 1] \in Nat
      BY <1>1, <3>1
    <3>4. QED
      BY <1>1, <1>7, <3>1, <3>2, <3>3 DEF Higher
  <2>6. CASE f = n + 1
    <3>1. /\ m - 1 \in 1 .. Len(a) /\ m - 2 \in 1 .. Len(a) /\ m - 2 < m - 1
          /\ m = 6 + b + n /\ m - 1 = 5 + b + n /\ m - 2 = 4 + b + n
      BY <1>1, <2>2, <2>4, <2>6
    <3>2. Expected(c, a, m).key = a[m - 1] /\ Expected(c, a, m).v = a[m - 2]
      BY <1>2, <2>3, <3>1
    <3>3. a[m - 2] < a[m - 1] /\ a[m - 2] \in Nat /\ a[m - 1] \in Nat
      BY <1>1, <3>1
    <3>4. QED
      BY <1>1, <1>7, <3>1, <3>2, <3>3 DEF Higher
  <2>7. QED
    BY <2>2, <2>4, <2>5, <2>6
<1>8. QED
  BY <1>1, <1>3, <1>4, <1>5, <1>6, <1>7

\* Two calls that meet have been together from their first question on.
LEMMA Lineage ==
  ASSUME NEW table, TableOK(table),
         NEW c1, c1.hlen \in Nat \ {0}, NEW a, Follows(table, c1, a),
         NEW c2, c2.hlen \in Nat \ {0}, NEW b, Follows(table, c2, b)
  PROVE  \A m \in DOMAIN a, l \in DOMAIN b : a[m] = b[l] => \A i \in 1 .. m : a[i] = b[i]
<1> DEFINE Together(m, l) == m = l /\ \A i \in 1 .. m : a[i] = b[i]
           T == {m \in Nat : m \in DOMAIN a => \A l \in DOMAIN b : a[m] = b[l] => Together(m, l)}
<1>1. /\ DOMAIN a = 1 .. Len(a) /\ Len(a) \in Nat
      /\ DOMAIN b = 1 .. Len(b) /\ Len(b) \in Nat
      /\ \A i \in DOMAIN a : a[i] # 0
      /\ \A i \in DOMAIN b : b[i] # 0
  BY DEF Follows, TableOK
<1>2. 0 \in T
  BY <1>1
<1>3. ASSUME NEW k \in T PROVE k + 1 \in T
  <2> DEFINE m == k + 1
  <2> SUFFICES ASSUME m \in DOMAIN a, NEW l \in DOMAIN b, a[m] = b[l] PROVE Together(m, l)
    OBVIOUS
  <2>1. Expected(c1, a, m) = Expected(c2, b, l)
    BY DEF Follows
  <2>2. /\ m = 1 => Higher(Expected(c1, a, m)) = 0
        /\ m # 1 => m - 1 \in DOMAIN a /\ Higher(Expected(c1, a, m)) = a[m - 1]
    <3> HIDE DEF m
    <3>1. QED
      BY AboutTheLast
  <2>3. /\ l = 1 => Higher(Expected(c2, b, l)) = 0
        /\ l # 1 => l - 1 \in DOMAIN b /\ Higher(Expected(c2, b, l)) = b[l - 1]
    BY AboutTheLast
  <2>4. CASE m = 1
    <3>1. l = 1
      BY <1>1, <2>1, <2>2, <2>3, <2>4
    <3>2. QED
      BY <2>4, <3>1
  <2>5. CASE m # 1
    <3>1. l # 1
      BY <1>1, <2>1, <2>2, <2>3, <2>5
    <3>2. m - 1 = k /\ k \in DOMAIN a /\ l - 1 \in DOMAIN b /\ a[k] = b[l - 1]
      BY <2>1, <2>2, <2>3, <2>5, <3>1
    <3>3. Together(k, l - 1)
      BY <3>2
    <3>4. k = l - 1 /\ l \in Nat /\ \A i \in 1 .. k : a[i] = b[i]
      BY <1>1, <3>3
    <3>5. \A i \in 1 .. m : i \in 1 .. k \/ i = m
      OBVIOUS
    <3>6. QED
      BY <3>4, <3>5
  <2>6. QED
    BY <2>4, <2>5
<1> HIDE DEF T
<1>4. T = Nat
  <2>1. T \in SUBSET Nat
    BY DEF T
  <2>2. QED
    BY <2>1, <1>2, <1>3, NatInductionSet
<1>5. ASSUME NEW m \in DOMAIN a, NEW l \in DOMAIN b, a[m] = b[l]
      PROVE  \A i \in 1 .. m : a[i] = b[i]
  <2>1. m \in T
    BY <1>1, <1>4
  <2>2. QED
    BY <1>5, <2>1 DEF T
<1>6. QED
  BY <1>5

\* Two calls with the same inputs ask the same.
LEMMA SameSeedsSameQuestions ==
  ASSUME NEW table, TableOK(table),
         NEW c1, c1.hlen \in Nat \ {0}, NEW a, Follows(table, c1, a),
         NEW c2, c2.hlen = c1.hlen, NEW b, Follows(table, c2, b), SameSeeds(c1, c2)
  PROVE  \A m \in Nat : m \in DOMAIN a /\ m \in DOMAIN b => a[m] = b[m]
<1> DEFINE T == {m \in Nat : \A i \in 1 .. m : i \in DOMAIN a /\ i \in DOMAIN b => a[i] = b[i]}
<1>1. /\ DOMAIN a = 1 .. Len(a) /\ Len(a) \in Nat
      /\ DOMAIN b = 1 .. Len(b) /\ Len(b) \in Nat
  BY DEF Follows
<1>2. 0 \in T
  OBVIOUS
<1>3. ASSUME NEW k \in T PROVE k + 1 \in T
  <2> DEFINE m == k + 1
  <2>1. ASSUME m \in DOMAIN a, m \in DOMAIN b PROVE a[m] = b[m]
    <3>1. m \in Nat \ {0} /\ \A i \in 1 .. m - 1 : i \in 1 .. k /\ i \in DOMAIN a /\ i \in DOMAIN b
      BY <1>1, <2>1
    <3>2. \A i \in 1 .. m - 1 : a[i] = b[i]
      BY <3>1
    <3> HIDE DEF m
    <3>3. Expected(c1, a, m) = Expected(c2, b, m)
      BY <3>1, <3>2, ExpectedAgrees
    <3>4. /\ a[m] \in DOMAIN table /\ table[a[m]].question = Expected(c1, a, m)
          /\ b[m] \in DOMAIN table /\ table[b[m]].question = Expected(c2, b, m)
      BY <2>1 DEF Follows
    <3>5. QED
      BY <3>3, <3>4 DEF TableOK
  <2>2. \A i \in 1 .. m : i \in 1 .. k \/ i = m
    OBVIOUS
  <2>3. QED
    BY <2>1, <2>2
<1> HIDE DEF T
<1>4. T = Nat
  <2>1. T \in SUBSET Nat
    BY DEF T
  <2>2. QED
    BY <2>1, <1>2, <1>3, NatInductionSet
<1>5. ASSUME NEW m \in Nat, m \in DOMAIN a, m \in DOMAIN b PROVE a[m] = b[m]
  <2>1. m \in T /\ m \in 1 .. m
    BY <1>1, <1>4, <1>5
  <2>2. QED
    BY <1>5, <2>1 DEF T
<1>6. QED
  BY <1>5

\* As far as both go.
Agree(o1, o2) == \A i \in Nat : i \in DOMAIN o1 /\ i \in DOMAIN o2 => o1[i] = o2[i]

\* And read the same.
LEMMA SameSeedsSameReads ==
  ASSUME NEW table, TableOK(table),
         NEW c1, c1.hlen \in Nat \ {0}, NEW a, NEW o1, Derivation(table, c1, a, o1),
         NEW c2, c2.hlen = c1.hlen, NEW b, NEW o2, Derivation(table, c2, b, o2),
         SameSeeds(c1, c2)
  PROVE  Agree(o1, o2)
<1> SUFFICES ASSUME NEW i \in Nat, i \in DOMAIN o1, i \in DOMAIN o2 PROVE o1[i] = o2[i]
  BY DEF Agree
<1> DEFINE p == Place(c1.hlen, i)
<1>1. p \in DOMAIN a /\ p \in DOMAIN b /\ o1[i] = a[p] /\ o2[i] = b[p]
  BY DEF Derivation, Reads
<1>2. p \in Nat
  <2>1. a \in Seq(Nat)
    BY DEF Derivation, Follows
  <2> HIDE DEF p
  <2>2. QED
    BY <1>1, <2>1
<1> HIDE DEF p
<1>3. \A m \in Nat : m \in DOMAIN a /\ m \in DOMAIN b => a[m] = b[m]
  BY SameSeedsSameQuestions DEF Derivation
<1>4. QED
  BY <1>1, <1>2, <1>3

LEMMA RunsAgree ==
  ASSUME NEW table, NEW h \in Nat \ {0}, NEW o1 \in Seq(Nat), NEW o2 \in Seq(Nat),
         NEW n \in Nat, GoesOn(table, h, o1, o2, n)
  PROVE  \A m \in 1 .. n : CandidateIn(table, h, o2, m) = CandidateIn(table, h, o1, m)
<1> DEFINE wider == table
<1>1. IsWider(wider, table)
  BY DEF IsWider
<1> HIDE DEF wider
<1>2. \A m \in 1 .. n : CandidateIn(wider, h, o2, m) = CandidateIn(table, h, o1, m)
  BY <1>1, CandidateStays
<1>3. QED
  BY <1>2 DEF wider

\* The n-th candidate is the first in range, and the last.
FirstAt(table, h, o, n) ==
  /\ Len(o) = n * Blocks(h) /\ \A i \in DOMAIN o : o[i] \in DOMAIN table
  /\ \A m \in 1 .. n - 1 : CandidateIn(table, h, o, m) \notin Scalar
  /\ CandidateIn(table, h, o, n) \in Scalar

\* Of two runs over the same outputs, neither goes past the other's candidate.
LEMMA NoneGoesPast ==
  ASSUME NEW table, NEW h \in Nat \ {0}, NEW o1 \in Seq(Nat), NEW o2 \in Seq(Nat),
         NEW n1 \in Nat \ {0}, NEW n2 \in Nat \ {0}, n1 <= n2, Agree(o1, o2),
         FirstAt(table, h, o1, n1), FirstAt(table, h, o2, n2)
  PROVE  n1 = n2 /\ CandidateIn(table, h, o1, n1) = CandidateIn(table, h, o2, n2)
<1> DEFINE c == Blocks(h)
<1>1. c \in Nat \ {0}
  BY BlocksOf
<1> HIDE DEF c
<1>2. n1 * c <= n2 * c /\ n1 * c \in Nat /\ n2 * c \in Nat
  BY <1>1
<1>3. DOMAIN o1 = 1 .. Len(o1) /\ DOMAIN o2 = 1 .. Len(o2)
  OBVIOUS
<1>4. GoesOn(table, h, o1, o2, n1) /\ n1 \in Nat
  <2>1. \A i \in 1 .. Len(o1) : i \in Nat /\ i \in DOMAIN o1 /\ i \in DOMAIN o2
    BY <1>2, <1>3 DEF FirstAt, c
  <2>2. QED
    BY <1>2, <1>3, <2>1 DEF c, GoesOn, FirstAt, Agree
<1>6. \A m \in 1 .. n1 : CandidateIn(table, h, o2, m) = CandidateIn(table, h, o1, m)
  BY <1>4, RunsAgree
<1>7. n1 \in 1 .. n1 /\ (n1 < n2 => n1 \in 1 .. n2 - 1)
  OBVIOUS
<1>8. n1 = n2
  BY <1>6, <1>7 DEF FirstAt
<1>9. QED
  BY <1>6, <1>7, <1>8

\* What a call that returned a nonce was.
Returned(table, rec) == RecordOK(table, rec) /\ rec.read # <<>>

LEMMA ReturnedIs ==
  ASSUME NEW table, NEW rec, Returned(table, rec)
  PROVE  /\ rec.call \in Calls /\ rec.call.hlen \in Nat \ {0} /\ rec.read \in Seq(Nat)
         /\ Derivation(table, rec.call, rec.asked, rec.read)
         /\ Follows(table, rec.call, rec.asked)
         /\ rec.call.d.len = ELEM_BYTES /\ rec.call.digest.len # 0
         /\ FirstInRange(table, rec) /\ 1 \in DOMAIN rec.read
<1>1. /\ rec.call \in Calls /\ rec.read \in Seq(Nat) /\ FirstInRange(table, rec)
      /\ Derivation(table, rec.call, rec.asked, rec.read)
  BY DEF Returned, RecordOK, Records, Nothing
<1>2. rec.call.hlen \in Nat \ {0}
  BY <1>1, CallIsShaped
<1>3. 1 \in DOMAIN rec.read
  <2> DEFINE o == rec.read
  <2>1. o \in Seq(Nat) /\ o # <<>>
    BY <1>1 DEF Returned
  <2> HIDE DEF o
  <2>2. 1 \in DOMAIN o
    BY <2>1
  <2>3. QED
    BY <2>2 DEF o
<1>4. QED
  BY <1>1, <1>2, <1>3 DEF FirstInRange, Derivation

LEMMA SharedMeansSame ==
  ASSUME NEW table, TableOK(table), NEW r, Returned(table, r), NEW s, Returned(table, s),
         NEW j \in DOMAIN r.read, NEW l \in DOMAIN s.read, r.read[j] = s.read[l]
  PROVE  SameInputs(r.call, s.call)
<1> DEFINE a == r.asked
           b == s.asked
           m == Place(r.call.hlen, j)
           k == Place(s.call.hlen, l)
<1>1. /\ r.call \in Calls /\ r.call.hlen \in Nat \ {0} /\ Follows(table, r.call, a)
      /\ Derivation(table, r.call, a, r.read)
      /\ s.call \in Calls /\ s.call.hlen \in Nat \ {0} /\ Follows(table, s.call, b)
      /\ Derivation(table, s.call, b, s.read)
  BY ReturnedIs
<1>2. m \in DOMAIN a /\ k \in DOMAIN b /\ a[m] = b[k]
  BY <1>1 DEF Derivation, Reads
<1> DEFINE c1 == r.call
           c2 == s.call
<1> HIDE DEF a, b, m, k, c1, c2
<1>3. \A i \in 1 .. m : a[i] = b[i]
  <2>1. /\ c1.hlen \in Nat \ {0} /\ Follows(table, c1, a)
        /\ c2.hlen \in Nat \ {0} /\ Follows(table, c2, b)
    BY <1>1 DEF c1, c2
  <2>2. QED
    BY <1>2, <2>1, Lineage
<1>4. 1 \in DOMAIN a /\ 1 \in DOMAIN b /\ a[1] = b[1]
  <2>1. /\ DOMAIN a = 1 .. Len(a) /\ Len(a) \in Nat
        /\ DOMAIN b = 1 .. Len(b) /\ Len(b) \in Nat
    BY <1>1 DEF Follows
  <2>2. 1 \in 1 .. m /\ 1 \in DOMAIN a /\ 1 \in DOMAIN b
    BY <1>2, <2>1
  <2>3. QED
    BY <1>3, <2>2
<1>5. Expected(c1, a, 1) = Expected(c2, b, 1)
  BY <1>1, <1>4 DEF Follows, c1, c2
<1>6. SeedOf(0, c1) = SeedOf(0, c2)
  BY <1>5, FirstQuestions DEF Question
<1>7. /\ c1 \in Calls /\ c1.d.len = ELEM_BYTES /\ c1.digest.len # 0
      /\ c2 \in Calls /\ c2.d.len = ELEM_BYTES /\ c2.digest.len # 0
  BY ReturnedIs DEF c1, c2
<1>8. SameInputs(c1, c2)
  BY <1>6, <1>7, SeedsTellInputsApart
<1>9. QED
  BY <1>8 DEF c1, c2

LEMMA SameMeansShared ==
  ASSUME NEW table, TableOK(table), NEW r, Returned(table, r), NEW s, Returned(table, s),
         r.call.hlen = s.call.hlen, SameInputs(r.call, s.call)
  PROVE  /\ 1 \in DOMAIN r.read /\ 1 \in DOMAIN s.read /\ r.read[1] = s.read[1]
         /\ r.out = s.out
<1> DEFINE c1 == r.call
           c2 == s.call
           h == c1.hlen
           a == r.asked
           b == s.asked
           o1 == r.read
           o2 == s.read
<1>1. /\ Derivation(table, c1, a, o1) /\ Derivation(table, c2, b, o2)
      /\ h \in Nat \ {0} /\ c1.hlen = h /\ c2.hlen = h
      /\ 1 \in DOMAIN o1 /\ 1 \in DOMAIN o2 /\ o1 \in Seq(Nat) /\ o2 \in Seq(Nat)
      /\ FirstInRange(table, r) /\ FirstInRange(table, s)
  BY ReturnedIs
<1>2. SameSeeds(c1, c2)
  BY DEF SameInputs, SameSeeds, SeedOf
<1>3. PICK n1 \in Nat \ {0} :
        /\ Len(o1) = n1 * Blocks(h)
        /\ \A m \in 1 .. n1 - 1 : CandidateIn(table, h, o1, m) \notin Scalar
        /\ CandidateIn(table, h, o1, n1) \in Scalar
        /\ r.out = ToBE(CandidateIn(table, h, o1, n1), ELEM_BYTES)
  BY <1>1 DEF FirstInRange
<1>4. PICK n2 \in Nat \ {0} :
        /\ Len(o2) = n2 * Blocks(h)
        /\ \A m \in 1 .. n2 - 1 : CandidateIn(table, h, o2, m) \notin Scalar
        /\ CandidateIn(table, h, o2, n2) \in Scalar
        /\ s.out = ToBE(CandidateIn(table, h, o2, n2), ELEM_BYTES)
  BY <1>1 DEF FirstInRange
<1>5. /\ \A i \in DOMAIN o1 : o1[i] \in DOMAIN table
      /\ \A i \in DOMAIN o2 : o2[i] \in DOMAIN table
  BY <1>1, ReadIsInTable
<1> HIDE DEF c1, c2, h, a, b, o1, o2
<1>6. Agree(o1, o2)
  <2>1. c1.hlen \in Nat \ {0} /\ c2.hlen = c1.hlen
    BY <1>1
  <2>2. Derivation(table, c1, a, o1) /\ Derivation(table, c2, b, o2)
    BY <1>1
  <2>3. QED
    BY <1>2, <2>1, <2>2, SameSeedsSameReads
<1>7. Agree(o2, o1)
  BY <1>6 DEF Agree
<1>8. FirstAt(table, h, o1, n1) /\ FirstAt(table, h, o2, n2)
  BY <1>3, <1>4, <1>5 DEF FirstAt
<1>9. h \in Nat \ {0} /\ o1 \in Seq(Nat) /\ o2 \in Seq(Nat)
  BY <1>1
<1>10. CandidateIn(table, h, o1, n1) = CandidateIn(table, h, o2, n2)
  <2>1. CASE n1 <= n2
    BY <1>6, <1>8, <1>9, <2>1, NoneGoesPast
  <2>2. CASE n2 <= n1
    BY <1>7, <1>8, <1>9, <2>2, NoneGoesPast
  <2>3. QED
    BY <2>1, <2>2
<1>11. r.out = s.out
  BY <1>3, <1>4, <1>10
<1>12. o1[1] = o2[1]
  BY <1>1, <1>6 DEF Agree
<1>13. QED
  BY <1>1, <1>11, <1>12 DEF o1, o2

\* Two calls of the generator with one hash, over all the calls ever made, share an
\* output of the HMAC only when key, digest mod n and added data agree, and then
\* they return the same nonce.
THEOREM NoncesAreApartAlways == Spec => []NoncesAreApart
<1>1. IInv => NoncesAreApart
  <2> SUFFICES ASSUME IInv,
                      NEW i \in DOMAIN done, done[i].read # <<>>,
                      NEW k \in DOMAIN done, done[k].read # <<>>,
                      done[i].call.hlen = done[k].call.hlen
               PROVE  LET r == done[i]
                          s == done[k]
                          shared == \E j \in DOMAIN r.read, l \in DOMAIN s.read :
                                      r.read[j] = s.read[l]
                      IN  /\ shared <=> SameInputs(r.call, s.call)
                          /\ shared => r.out = s.out
    BY DEF NoncesAreApart
  <2> DEFINE r == done[i]
             s == done[k]
  <2>1. TableOK(oracle) /\ Returned(oracle, r) /\ Returned(oracle, s)
    BY DEF IInv, Returned
  <2>2. r.call.hlen = s.call.hlen
    OBVIOUS
  <2> HIDE DEF r, s
  <2>3. ASSUME NEW j \in DOMAIN r.read, NEW l \in DOMAIN s.read, r.read[j] = s.read[l]
        PROVE  SameInputs(r.call, s.call)
    BY <2>1, <2>3, SharedMeansSame
  <2>4. ASSUME SameInputs(r.call, s.call)
        PROVE  /\ 1 \in DOMAIN r.read /\ 1 \in DOMAIN s.read /\ r.read[1] = s.read[1]
               /\ r.out = s.out
    BY <2>1, <2>2, <2>4, SameMeansShared
  <2>5. QED
    BY <2>3, <2>4 DEF r, s
<1>2. QED
  BY <1>1, Invariance, PTL
=============================================================================
