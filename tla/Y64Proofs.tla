----------------------------- MODULE Y64Proofs -----------------------------
(***************************************************************************)
(* Theorems about the assembler and the simulator, for any width of a      *)
(* long, any memory and any program.                                       *)
(***************************************************************************)
EXTENDS Y64run, TLAPS, NatLemmas, SequenceTheorems

----------------------------------------------------------------------------
(* Powers, longs and their bytes. *)

\* Powers of two are positive, and grow from those of an int to those of a long.
LEMMA PowersOfTwo ==
  \A k \in 0..8 * LongBytes :
    /\ 2 ^ k \in Nat \ {0}
    /\ k >= 4 * LongBytes - 1 => 2 ^ (4 * LongBytes - 1) <= 2 ^ k
<1> DEFINE int == 4 * LongBytes - 1
           S   == {k \in Nat : k <= 8 * LongBytes =>
                                 /\ 2 ^ k \in Nat \ {0}
                                 /\ k >= int => 2 ^ int \in Nat /\ 2 ^ int <= 2 ^ k}
<1>1. LongBytes \in Nat /\ LongBytes > 0 /\ int \in Nat /\ int > 0
  BY LongBytesAssumption
<1> HIDE DEF int
<1>2. 0 \in S
  <2>1. 2 ^ 0 = 1
    OBVIOUS
  <2>2. ~(0 >= int)
    BY <1>1
  <2>3. 2 ^ 0 \in Nat \ {0}
    BY <2>1
  <2> QED
    BY <2>2, <2>3
<1>3. ASSUME NEW n \in Nat, n \in S
      PROVE  n + 1 \in S
  <2> SUFFICES ASSUME n + 1 <= 8 * LongBytes
               PROVE  /\ 2 ^ (n + 1) \in Nat \ {0}
                      /\ n + 1 >= int => 2 ^ int \in Nat /\ 2 ^ int <= 2 ^ (n + 1)
    OBVIOUS
  <2>1. n + 1 \in 1..8 * LongBytes /\ n + 1 - 1 = n
    BY <1>1
  <2>2. 2 ^ n \in Nat \ {0} /\ (n >= int => 2 ^ int \in Nat /\ 2 ^ int <= 2 ^ n)
    BY <1>1, <1>3
  <2>3. 2 ^ (n + 1) = 2 * 2 ^ n
    BY <2>1, PowersAssumption
  <2>4. CASE n >= int
    BY <1>1, <2>2, <2>3, <2>4
  <2>5. CASE n + 1 = int
    BY <1>1, <2>2, <2>3, <2>5
  <2> QED
    BY <1>1, <2>2, <2>3, <2>4, <2>5
<1> HIDE DEF S
<1>4. \A n \in Nat : n \in S
  BY <1>2, <1>3, NatInduct
<1> QED
  BY <1>1, <1>4 DEF S, int

\* The words are even in number, and an int fits in a long.
LEMMA Width ==
  /\ Words \in Nat /\ Words % 2 = 0
  /\ 2 ^ (4 * LongBytes - 1) \in 1..Words \div 2
<1> DEFINE n == 8 * LongBytes
<1>1. LongBytes \in Nat /\ n \in 1..n /\ n - 1 \in 0..n /\ n \in 0..n
      /\ 4 * LongBytes - 1 \in 0..n /\ n - 1 >= 4 * LongBytes - 1
  BY LongBytesAssumption
<1>2. Words = 2 * 2 ^ (n - 1) /\ Words = 2 ^ n
  BY <1>1, PowersAssumption DEF Words
<1>3. /\ 2 ^ n \in Nat \ {0} /\ 2 ^ (n - 1) \in Nat \ {0}
      /\ 2 ^ (4 * LongBytes - 1) \in Nat \ {0}
      /\ 2 ^ (4 * LongBytes - 1) <= 2 ^ (n - 1)
  BY <1>1, PowersOfTwo
<1> QED
  BY <1>2, <1>3

\* The powers that the code of a word is made of
LEMMA PowersOf256 ==
  ASSUME NEW n \in Nat, n <= LongBytes \/ n <= 3
  PROVE  256 ^ n \in Nat \ {0}
<1> DEFINE S == {k \in Nat : k <= LongBytes \/ k <= 3 => 256 ^ k \in Nat \ {0}}
<1>1. LongBytes \in Nat
  BY LongBytesAssumption
<1>2. 0 \in S
  <2>1. 256 ^ 0 = 1
    OBVIOUS
  <2> QED
    BY <2>1
<1>3. ASSUME NEW k \in Nat, k \in S
      PROVE  k + 1 \in S
  <2> SUFFICES ASSUME k + 1 <= LongBytes \/ k + 1 <= 3
               PROVE  256 ^ (k + 1) \in Nat \ {0}
    OBVIOUS
  <2>1. k + 1 \in 1..LongBytes \cup 1..3 /\ k + 1 - 1 = k
    BY <1>1
  <2>2. 256 ^ k \in Nat \ {0}
    BY <1>1, <1>3
  <2>3. 256 ^ (k + 1) = 256 * 256 ^ k
    BY <2>1, PowersAssumption
  <2> QED
    BY <2>2, <2>3
<1> HIDE DEF S
<1>4. \A k \in Nat : k \in S
  BY <1>2, <1>3, NatInduct
<1> QED
  BY <1>4 DEF S

----------------------------------------------------------------------------
\* A long is the number of its range with the same remainder.
LEMMA SignedIs ==
  ASSUME NEW v \in Int
  PROVE  /\ Signed(v) \in Long
         /\ Signed(v % Words) = Signed(v)
<1> DEFINE half == Words \div 2
           u    == v % Words
<1>1. Words \in Nat /\ half \in Nat /\ half > 0 /\ Words = 2 * half /\ Words > 0
  BY Width
<1>2. u \in 0..Words - 1
  BY <1>1
<1>3. u % Words = u
  <2> HIDE DEF u
  <2> QED
    BY <1>1, <1>2, SmallRemainder
<1>4. Signed(v) = (IF u >= half THEN u - Words ELSE u)
  BY DEF Signed
<1>5. Signed(u) = (IF u % Words >= half THEN (u % Words) - Words ELSE u % Words)
  BY DEF Signed
<1>6. Long = -half..half - 1
  BY DEF Long
<1> HIDE DEF half, u
<1>7. Signed(v) \in Long /\ Signed(u) = Signed(v)
  BY <1>1, <1>2, <1>3, <1>4, <1>5, <1>6
<1> QED
  BY <1>7 DEF u
\* A number with the sign bit and the other bits of v: itself, if it fits.
LEMMA SignedFits ==
  ASSUME NEW v \in Long
  PROVE  Signed(v) = v
<1> DEFINE half == Words \div 2
<1>1. Words \in Nat /\ half \in Nat /\ half > 0 /\ Words = 2 * half
  BY Width
<1>2. v \in Int /\ -half <= v /\ v < half
  BY <1>1 DEF Long
<1> HIDE DEF half
<1>3. CASE v >= 0
  <2>1. v % Words = v
    BY <1>1, <1>2, <1>3
  <2> QED
    BY <1>1, <1>2, <2>1 DEF Signed, half
<1>4. CASE v < 0
  <2>1. v % Words = v + Words
    BY <1>1, <1>2, <1>4, ModNegative
  <2> QED
    BY <1>1, <1>2, <2>1, <1>4 DEF Signed, half
<1> QED
  BY <1>2, <1>3, <1>4

\* The sums of a sequence of numbers
Sums(g, w, n) == g = [k \in 0..n |-> IF k = 0 THEN 0 ELSE g[k - 1] + w[k]]

\* They exist, and FromBytes and FromBits name them.
LEMMA SumsExist ==
  ASSUME NEW w, NEW N \in Nat, \A k \in 1..N : w[k] \in Int
  PROVE  \E g \in [0..N -> Int] : Sums(g, w, N)
<1> DEFINE S == {n \in Nat : n <= N => \E g \in [0..n -> Int] : Sums(g, w, n)}
<1>1. 0 \in S
  <2> DEFINE g == [k \in 0..0 |-> 0]
  <2>1. g \in [0..0 -> Int] /\ Sums(g, w, 0)
    BY DEF Sums
  <2> QED
    BY <2>1
<1>2. ASSUME NEW n \in Nat, n \in S
      PROVE  n + 1 \in S
  <2> SUFFICES ASSUME n + 1 <= N
               PROVE  \E g \in [0..n + 1 -> Int] : Sums(g, w, n + 1)
    OBVIOUS
  <2>1. PICK g \in [0..n -> Int] : Sums(g, w, n)
    BY <1>2
  <2> DEFINE h == [k \in 0..n + 1 |-> IF k = n + 1 THEN g[n] + w[n + 1] ELSE g[k]]
  <2>2. g[n] \in Int /\ w[n + 1] \in Int /\ \A k \in 0..n : g[k] \in Int
    OBVIOUS
  <2>3. h \in [0..n + 1 -> Int]
    BY <2>2
  <2>4. \A k \in 0..n : h[k] = g[k]
    OBVIOUS
  <2>5. h[n + 1] = g[n] + w[n + 1]
    OBVIOUS
  <2>6. \A k \in 0..n : g[k] = IF k = 0 THEN 0 ELSE g[k - 1] + w[k]
    BY <2>1 DEF Sums
  <2>7. ASSUME NEW k \in 0..n + 1
        PROVE  h[k] = IF k = 0 THEN 0 ELSE h[k - 1] + w[k]
    <3> HIDE DEF h
    <3>1. CASE k = n + 1
      BY <2>4, <2>5, <3>1
    <3>2. CASE k \in 0..n
      BY <2>4, <2>6, <3>2
    <3> QED
      BY <3>1, <3>2
  <2>8. Sums(h, w, n + 1)
    <3>1. h = [k \in 0..n + 1 |-> h[k]]
      BY <2>3
    <3> HIDE DEF h
    <3> QED
      BY <2>7, <3>1 DEF Sums
  <2> QED
    BY <2>3, <2>8
<1> HIDE DEF S
<1>3. \A n \in Nat : n \in S
  BY <1>1, <1>2, NatInduct
<1> QED
  BY <1>3 DEF S

\* There is only one.
LEMMA SumsAre ==
  ASSUME NEW w, NEW N \in Nat, NEW g, Sums(g, w, N), NEW h, Sums(h, w, N), NEW n \in 0..N
  PROVE  g[n] = h[n]
<1> DEFINE S == {k \in Nat : k <= N => g[k] = h[k]}
<1>1. \A k \in 0..N : /\ g[k] = IF k = 0 THEN 0 ELSE g[k - 1] + w[k]
                      /\ h[k] = IF k = 0 THEN 0 ELSE h[k - 1] + w[k]
  BY DEF Sums
<1>2. 0 \in S
  BY <1>1
<1>3. \A k \in Nat : k \in S => k + 1 \in S
  <2> SUFFICES ASSUME NEW k \in Nat, k \in S, k + 1 <= N
               PROVE  g[k + 1] = h[k + 1]
    OBVIOUS
  <2>1. k + 1 \in 0..N /\ k + 1 # 0 /\ k + 1 - 1 = k /\ g[k] = h[k]
    OBVIOUS
  <2> QED
    BY <1>1, <2>1
<1> HIDE DEF S
<1>4. \A k \in Nat : k \in S
  BY <1>2, <1>3, NatInduct
<1> QED
  BY <1>4 DEF S

\* The long in some bytes is what any sum of them says.
LEMMA FromBytesIs ==
  ASSUME NEW f, NEW a \in Int, \A k \in 1..LongBytes : f[a + k - 1] \in Int,
         NEW w, w = [k \in 1..LongBytes |-> f[a + k - 1] * (256 ^ (k - 1))],
         NEW g, Sums(g, w, LongBytes)
  PROVE  FromBytes(f, a) = Signed(g[LongBytes])
<1> DEFINE P(sum) == sum = [k \in 0..LongBytes |->
                              IF k = 0 THEN 0 ELSE sum[k - 1] + f[a + k - 1] * (256 ^ (k - 1))]
           sum == CHOOSE s : P(s)
<1>1. LongBytes \in Nat
  BY LongBytesAssumption
<1>2. \A s : P(s) <=> Sums(s, w, LongBytes)
  <2>1. \A k \in 0..LongBytes : k # 0 => w[k] = f[a + k - 1] * (256 ^ (k - 1))
    BY <1>1
  <2> TAKE s
  <2>2. [k \in 0..LongBytes |-> IF k = 0 THEN 0 ELSE s[k - 1] + f[a + k - 1] * (256 ^ (k - 1))]
          = [k \in 0..LongBytes |-> IF k = 0 THEN 0 ELSE s[k - 1] + w[k]]
    BY <2>1
  <2> QED
    BY <2>2 DEF Sums
<1>3. FromBytes(f, a) = Signed(sum[LongBytes])
  BY DEF FromBytes
<1> HIDE DEF P
<1>4. P(sum)
  BY <1>2
<1> HIDE DEF sum
<1>5. sum[LongBytes] = g[LongBytes]
  <2>1. Sums(sum, w, LongBytes)
    BY <1>2, <1>4
  <2>2. LongBytes \in 0..LongBytes
    BY <1>1
  <2> QED
    BY <1>1, <2>1, <2>2, SumsAre
<1> QED
  BY <1>3, <1>5

\* Any bytes are those of a long.
LEMMA FromBytesType ==
  ASSUME NEW f, NEW a \in Int, \A k \in 1..LongBytes : f[a + k - 1] \in Int
  PROVE  FromBytes(f, a) \in Long
<1> DEFINE w == [k \in 1..LongBytes |-> f[a + k - 1] * (256 ^ (k - 1))]
<1>1. LongBytes \in Nat
  BY LongBytesAssumption
<1>2. \A k \in 1..LongBytes : w[k] \in Int
  <2> TAKE k \in 1..LongBytes
  <2>1. k - 1 \in Nat /\ k - 1 <= LongBytes
    BY <1>1
  <2>2. 256 ^ (k - 1) \in Nat
    BY <2>1, PowersOf256
  <2> QED
    BY <2>2
<1> HIDE DEF w
<1>3. PICK g \in [0..LongBytes -> Int] : Sums(g, w, LongBytes)
  BY <1>1, <1>2, SumsExist
<1>4. FromBytes(f, a) = Signed(g[LongBytes])
  BY <1>3, FromBytesIs DEF w
<1> QED
  BY <1>1, <1>3, <1>4, SignedIs

\* The lowest n + 1 bytes of a number are the lowest n and the next one.
LEMMA NextByte ==
  ASSUME NEW v \in Int, NEW B \in Nat, B > 0
  PROVE  v % (256 * B) = (v % B) + ((v \div B) % 256) * B
<1> DEFINE q == v \div B
           s == v % B
           p == q \div 256
           t == q % 256
<1>1. q \in Int /\ s \in 0..B - 1 /\ v = B * q + s
  OBVIOUS
<1> HIDE DEF q, s
<1>2. p \in Int /\ t \in 0..255 /\ q = 256 * p + t
  BY <1>1
<1> HIDE DEF p, t
<1>3. v = (256 * B) * p + (B * t + s)
  <2>1. B * (256 * p + t) = (256 * B) * p + B * t
    BY <1>2
  <2> QED
    BY <1>1, <1>2, <2>1
<1>4. B * t + s \in 0..256 * B - 1
  <2>1. B * t >= 0 /\ B * t <= B * 255 /\ B * t \in Int
    BY <1>2
  <2> QED
    BY <1>1, <2>1
<1>5. ((256 * B) * p + (B * t + s)) % (256 * B) = B * t + s
  <2> DEFINE H == 256 * B
             e == B * t + s
  <2>1. H \in Nat /\ H > 0 /\ e \in 0..H - 1
    BY <1>4
  <2> HIDE DEF H, e
  <2>2. (H * p + e) % H = e
    BY <1>2, <2>1, DivisionIsUnique
  <2> QED
    BY <2>2 DEF H, e
<1>6. v % (256 * B) = s + t * B
  <2>1. B * t = t * B
    BY <1>2
  <2> QED
    BY <1>1, <1>2, <1>3, <1>5, <2>1
<1> QED
  BY <1>6 DEF s, t, q

\* memcpy of a long, there and back
LEMMA FromToBytes ==
  ASSUME NEW f, NEW a \in Int, NEW v \in Long,
         \A k \in 1..LongBytes : f[a + k - 1] = ToBytes(v, LongBytes)[k]
  PROVE  FromBytes(f, a) = v
<1> DEFINE w == [k \in 1..LongBytes |-> f[a + k - 1] * (256 ^ (k - 1))]
           g == [k \in 0..LongBytes |-> v % (256 ^ k)]
<1>1. LongBytes \in Nat /\ v \in Int
  BY LongBytesAssumption, Width DEF Long
<1>2. \A k \in 0..LongBytes : 256 ^ k \in Nat \ {0}
  BY <1>1, PowersOf256
<1>3. \A k \in 1..LongBytes : f[a + k - 1] = (v \div (256 ^ (k - 1))) % 256
  BY DEF ToBytes
<1>4. ASSUME NEW k \in 0..LongBytes
      PROVE  g[k] = IF k = 0 THEN 0 ELSE g[k - 1] + w[k]
  <2>1. CASE k = 0
    <3>1. 256 ^ 0 = 1 /\ v % 1 = 0
      BY <1>1
    <3> QED
      BY <2>1, <3>1
  <2>2. CASE k # 0
    <3>1. k \in 1..LongBytes /\ k - 1 \in 0..LongBytes
      BY <1>1, <2>2
    <3>2. 256 ^ k = 256 * 256 ^ (k - 1) /\ 256 ^ (k - 1) \in Nat \ {0}
      BY <1>2, <3>1, PowersAssumption
    <3>3. v % (256 ^ k) = (v % (256 ^ (k - 1))) + ((v \div (256 ^ (k - 1))) % 256) * 256 ^ (k - 1)
      <4> DEFINE B == 256 ^ (k - 1)
      <4>1. B \in Nat /\ B > 0
        BY <3>2
      <4> HIDE DEF B
      <4>2. v % (256 * B) = (v % B) + ((v \div B) % 256) * B
        BY <1>1, <4>1, NextByte
      <4> QED
        BY <3>2, <4>2 DEF B
    <3>4. w[k] = ((v \div (256 ^ (k - 1))) % 256) * (256 ^ (k - 1))
      BY <1>3, <3>1
    <3>5. g[k] = v % (256 ^ k) /\ g[k - 1] = v % (256 ^ (k - 1))
      BY <3>1
    <3> QED
      BY <2>2, <3>3, <3>4, <3>5
  <2> QED
    BY <2>1, <2>2
<1>5. Sums(g, w, LongBytes)
  <2>1. g = [k \in 0..LongBytes |-> g[k]]
    OBVIOUS
  <2> HIDE DEF g, w
  <2> QED
    BY <1>4, <2>1 DEF Sums
<1>6. \A k \in 1..LongBytes : f[a + k - 1] \in Int
  <2> TAKE k \in 1..LongBytes
  <2>1. k - 1 \in 0..LongBytes
    BY <1>1
  <2>2. 256 ^ (k - 1) \in Nat \ {0}
    BY <1>2, <2>1
  <2>3. v \div (256 ^ (k - 1)) \in Int
    BY <1>1, <2>2
  <2>4. f[a + k - 1] = (v \div (256 ^ (k - 1))) % 256
    BY <1>3
  <2> QED
    BY <2>3, <2>4
<1>7. g[LongBytes] = v % Words
  BY <1>1, PowersAssumption
<1> HIDE DEF g
<1>8. FromBytes(f, a) = Signed(v % Words)
  BY <1>5, <1>6, <1>7, FromBytesIs
<1> QED
  BY <1>1, <1>8, SignedIs, SignedFits

\* The bytes of a number
LEMMA ToBytesIs ==
  ASSUME NEW v \in Int, NEW n \in 0..LongBytes \cup 0..4
  PROVE  /\ ToBytes(v, n) \in Seq(Byte) /\ Len(ToBytes(v, n)) = n
         /\ \A k \in 1..n : ToBytes(v, n)[k] \in Byte
<1>1. LongBytes \in Nat /\ n \in Nat
  BY LongBytesAssumption
<1>2. ASSUME NEW k \in 1..n
      PROVE  (v \div (256 ^ (k - 1))) % 256 \in Byte
  <2>1. k - 1 \in Nat /\ (k - 1 <= LongBytes \/ k - 1 <= 3)
    BY <1>1
  <2>2. 256 ^ (k - 1) \in Nat \ {0}
    BY <2>1, PowersOf256
  <2>3. v \div (256 ^ (k - 1)) \in Int
    BY <2>2
  <2> QED
    BY <2>3 DEF Byte
<1> QED
  BY <1>1, <1>2 DEF ToBytes

\* Any bits are those of a long.
LEMMA FromBitsType ==
  ASSUME NEW b, \A k \in 0..8 * LongBytes - 1 : b[k] \in Int
  PROVE  FromBits(b) \in Long
<1> DEFINE N == 8 * LongBytes
           w == [k \in 1..N |-> b[k - 1] * (2 ^ (k - 1))]
           P(sum) == sum = [k \in 0..8 * LongBytes |->
                              IF k = 0 THEN 0 ELSE sum[k - 1] + b[k - 1] * (2 ^ (k - 1))]
           sum == CHOOSE s : P(s)
<1>1. N \in Nat
  BY LongBytesAssumption
<1>2. \A k \in 1..N : w[k] \in Int
  <2> TAKE k \in 1..N
  <2>1. k - 1 \in 0..8 * LongBytes /\ k - 1 \in 0..8 * LongBytes - 1
    BY <1>1
  <2>2. 2 ^ (k - 1) \in Nat
    BY <2>1, PowersOfTwo
  <2> QED
    BY <2>1, <2>2
<1>3. \A s : P(s) <=> Sums(s, w, N)
  <2>1. \A k \in 0..N : k # 0 => w[k] = b[k - 1] * (2 ^ (k - 1))
    BY <1>1
  <2> TAKE s
  <2>2. [k \in 0..N |-> IF k = 0 THEN 0 ELSE s[k - 1] + b[k - 1] * (2 ^ (k - 1))]
          = [k \in 0..N |-> IF k = 0 THEN 0 ELSE s[k - 1] + w[k]]
    BY <2>1
  <2> QED
    BY <2>2 DEF Sums
<1>4. FromBits(b) = Signed(sum[N])
  BY DEF FromBits
<1> HIDE DEF P, w, N
<1>5. PICK g \in [0..N -> Int] : Sums(g, w, N)
  BY <1>1, <1>2, SumsExist
<1>6. P(sum)
  BY <1>3, <1>5
<1> HIDE DEF sum
<1>7. sum[N] = g[N]
  <2>1. N \in 0..N /\ Sums(sum, w, N)
    BY <1>1, <1>3, <1>6
  <2> QED
    BY <1>1, <1>5, <2>1, SumsAre
<1> QED
  BY <1>1, <1>4, <1>5, <1>7, SignedIs

----------------------------------------------------------------------------
(* Stopping, and the conditions. *)

\* An instruction that stops has changed nothing, but for %rsp in a push.
Untouched ==
  /\ UNCHANGED <<pc, m, cc>>
  /\ r' # r => Code \in {icode.call, icode.pushq}
               /\ r' = [r EXCEPT ![REG_RSP] = Signed(@ - LongBytes)]

\* A push that faults has moved %rsp and nothing else.
LEMMA PushFaults ==
  ASSUME NEW v, NEW target, Push(v, target), stat' # stat,
         Code \in {icode.call, icode.pushq}
  PROVE  Untouched
<1>1. /\ r' = [r EXCEPT ![REG_RSP] = Signed(r[REG_RSP] - LongBytes)]
      /\ UNCHANGED <<pc, m, cc>>
  BY DEF Push
<1> QED
  BY <1>1 DEF Untouched

\* So does every instruction but call and pushq.
LEMMA InstructionFaults ==
  ASSUME nexti, stat' # stat
  PROVE  Untouched
<1>1. CASE BadFetch \/ BadCode \/ Halt
  BY <1>1 DEF BadFetch, BadCode, Halt, Stop, Untouched
<1>2. CASE Nop \/ Rrmovq \/ Irmovq \/ Alu \/ Jmp
  BY <1>2 DEF Nop, Rrmovq, Irmovq, Alu, Jmp, Stop, Untouched
<1>3. CASE Rmmovq \/ Mrmovq
  BY <1>3 DEF Rmmovq, Mrmovq, Refused, Stop, Untouched
<1>4. CASE Ret \/ Popq
  BY <1>4 DEF Ret, Popq, Refused, Stop, Untouched
<1>5. CASE Call
  BY <1>5, PushFaults DEF Call, Is
<1>6. CASE Pushq
  BY <1>6, PushFaults DEF Pushq, Is
<1> QED
  BY <1>1, <1>2, <1>3, <1>4, <1>5, <1>6 DEF nexti

(***************************************************************************)
(* An instruction that stops the program leaves its state as it was, but   *)
(* for the %rsp of call and pushq (y64sim.c:466-474, 487-496).             *)
(***************************************************************************)
THEOREM Faults == Spec => FaultsKeepState
<1>1. ASSUME [Next]_<<asmVars, simVars>>, stat = "AOK", stat' # "AOK"
      PROVE  Untouched
  <2>1. nexti
    BY <1>1 DEF Next, simVars, Load
  <2> QED
    BY <1>1, <2>1, InstructionFaults
<1> QED
  BY <1>1, PTL DEF Spec, FaultsKeepState, Untouched

----------------------------------------------------------------------------
(* Longs, and the conditions. *)

\* The sign that compute_cc sees, that of an int, is the sign of an int.
LEMMA SignOfInt ==
  ASSUME NEW v \in Int32
  PROVE  /\ v \in Int /\ v \in Long
         /\ NegativeInt(v) <=> v < 0
<1> DEFINE half == 2 ^ (4 * LongBytes - 1)
<1>1. half \in Nat /\ half > 0 /\ half <= Words \div 2 /\ Words \div 2 \in Nat
  BY Width
<1> HIDE DEF half
<1>2. v \in Int /\ -half <= v /\ v < half
  BY <1>1 DEF Int32, half
<1>3. v \in Long
  BY <1>1, <1>2 DEF Long
<1>4. NegativeInt(v) <=> (v \div half) % 2 = 1
  BY DEF NegativeInt, Bit, half
<1>5. CASE v >= 0
  <2>1. v \div half = 0
    BY <1>1, <1>2, <1>5
  <2> QED
    BY <1>2, <1>3, <1>4, <1>5, <2>1
<1>6. CASE v < 0
  <2>1. v \div half = -1
    BY <1>1, <1>2, <1>6
  <2>2. (v \div half) % 2 = (v \div half) + 2
    BY <2>1, ModNegative
  <2> QED
    BY <1>2, <1>3, <1>4, <1>6, <2>1, <2>2
<1> QED
  BY <1>2, <1>5, <1>6

\* After b - a, every condition compares b and a.
LEMMA ConditionsCompare ==
  ASSUME NEW a \in Int32, NEW b \in Int32, b - a \in Int32,
         NEW c, c = compute_cc(A_SUB, a, b, Signed(b - a))
  PROVE  /\ cond_doit(c, C_L)  = (b < a)
         /\ cond_doit(c, C_LE) = (b <= a)
         /\ cond_doit(c, C_E)  = (b = a)
         /\ cond_doit(c, C_NE) = (b # a)
         /\ cond_doit(c, C_GE) = (b >= a)
         /\ cond_doit(c, C_G)  = (b > a)
<1>1. a \in Int /\ b \in Int /\ Signed(b - a) = b - a
  BY SignOfInt, SignedFits
<1>2. c.zf = (b = a) /\ c.sf = (b < a) /\ c.of = FALSE
  <2>1. c.zf = (b - a = 0) /\ c.sf = NegativeInt(b - a)
    BY <1>1 DEF compute_cc
  <2>2. c.of = \/ A_SUB = A_AND /\ (a > 0) = (b > 0) /\ (a > 0) # (b - a > 0)
               \/ A_SUB = A_SUB /\ (a > 0) # (b > 0) /\ (a > 0) = (b - a > 0)
    BY <1>1 DEF compute_cc
  <2>3. NegativeInt(b - a) = (b < a)
    <3>1. NegativeInt(b - a) <=> b - a < 0
      BY SignOfInt
    <3>2. NegativeInt(b - a) \in BOOLEAN
      BY DEF NegativeInt
    <3> QED
      BY <1>1, <3>1, <3>2
  <2>4. c.of = FALSE
    <3>1. A_SUB # A_AND
      BY DEF A_SUB, A_AND
    <3> DEFINE pa == a > 0
               pb == b > 0
               pd == b - a > 0
    <3>2. /\ pa \in BOOLEAN /\ pb \in BOOLEAN /\ pd \in BOOLEAN
          /\ pa => pb \/ ~pd
          /\ ~pa => ~pb \/ pd
      BY <1>1
    <3>3. c.of = ((A_SUB = A_AND /\ pa = pb /\ pa # pd) \/ (pa # pb /\ pa = pd))
      BY <2>2
    <3> HIDE DEF pa, pb, pd
    <3>4. ~(pa # pb /\ pa = pd)
      BY <3>2
    <3> QED
      BY <3>1, <3>3, <3>4
  <2> QED
    BY <1>1, <2>1, <2>3, <2>4
<1>3. /\ cond_doit(c, C_L)  = (c.sf # c.of)
      /\ cond_doit(c, C_LE) = (c.zf \/ c.sf # c.of)
      /\ cond_doit(c, C_E)  = c.zf
      /\ cond_doit(c, C_NE) = ~c.zf
      /\ cond_doit(c, C_GE) = (c.sf = c.of)
      /\ cond_doit(c, C_G)  = (~c.zf /\ c.sf = c.of)
  BY DEF cond_doit, C_YES, C_LE, C_L, C_E, C_NE, C_GE, C_G
<1>4. /\ (b < a) \in BOOLEAN /\ (b = a) \in BOOLEAN
      /\ (b <= a) = ((b = a) \/ (b < a))
      /\ (b # a) = ~(b = a)
      /\ (b >= a) = ~(b < a)
      /\ (b > a) = (~(b = a) /\ ~(b < a))
  BY <1>1
<1> DEFINE lt == b < a
           eq == b = a
<1>5. c.zf = eq /\ c.sf = lt /\ c.of = FALSE /\ lt \in BOOLEAN /\ eq \in BOOLEAN
  BY <1>2, <1>4
<1>6. /\ (b <= a) = (eq \/ lt) /\ (b # a) = ~eq
      /\ (b >= a) = ~lt /\ (b > a) = (~eq /\ ~lt)
  BY <1>4
<1> HIDE DEF lt, eq
<1>7. /\ cond_doit(c, C_L)  = lt
      /\ cond_doit(c, C_LE) = (eq \/ lt)
      /\ cond_doit(c, C_E)  = eq
      /\ cond_doit(c, C_NE) = ~eq
      /\ cond_doit(c, C_GE) = ~lt
      /\ cond_doit(c, C_G)  = (~eq /\ ~lt)
  BY <1>3, <1>5
<1> QED
  BY <1>6, <1>7 DEF lt, eq

----------------------------------------------------------------------------
\* The simulator has a file only when the assembler has finished it.
Assembled == stat # "off" => asm = "done"

\* The assembler makes no step once it is done.
LEMMA AsmOver == AsmNext => asm \in {"reading", "relocating"} /\ asm # "done"
BY DEF AsmNext, ReadLine, EndOfFile, Relocate, Binfile

\* The simulator has not moved before the assembler is done.
LEMMA AssembledInv == Spec => []Assembled
<1>1. Init => Assembled
  BY DEF Init, SimInit, Assembled
<1>2. Assembled /\ [Next]_<<asmVars, simVars>> => Assembled'
  <2>1. SUFFICES ASSUME Assembled, [Next]_<<asmVars, simVars>> PROVE Assembled'
    OBVIOUS
  <2>2. CASE AsmNext /\ UNCHANGED simVars
    BY <2>1, <2>2, AsmOver DEF simVars, Assembled
  <2>3. CASE asm = "done" /\ Load(image) /\ UNCHANGED asmVars
    BY <2>3 DEF asmVars, Assembled
  <2>4. CASE nexti /\ UNCHANGED asmVars
    BY <2>1, <2>4 DEF asmVars, Assembled, nexti
  <2>5. CASE UNCHANGED <<asmVars, simVars>>
    BY <2>1, <2>5 DEF asmVars, simVars, Assembled
  <2> QED
    BY <2>1, <2>2, <2>3, <2>4, <2>5 DEF Next
<1> QED
  BY <1>1, <1>2, PTL DEF Spec

\* The instruction at pc is the one that is executed.
LEMMA OnlySubq ==
  ASSUME Is(icode.alu), Fun = A_SUB, nexti
  PROVE  cc' = compute_cc(A_SUB, Reg(Ra), Reg(Rb), Signed(Reg(Rb) - Reg(Ra)))
<1>1. Code = 6 /\ Fetched /\ icode.alu = 6
  BY DEF Is, icode
<1>2. Alu
  <2>1. ~(BadFetch \/ BadCode \/ Halt \/ Nop \/ Rrmovq \/ Irmovq)
    BY <1>1 DEF BadFetch, BadCode, Halt, Nop, Rrmovq, Irmovq, Is, icode
  <2>2. ~(Rmmovq \/ Mrmovq \/ Jmp \/ Call \/ Ret \/ Pushq \/ Popq)
    BY <1>1 DEF Rmmovq, Mrmovq, Jmp, Call, Ret, Pushq, Popq, Is, icode
  <2> QED
    BY <2>1, <2>2 DEF nexti
<1>3. ~(Fun > A_XOR)
  BY DEF A_SUB, A_XOR
<1>4. cc' = compute_cc(Fun, Reg(Ra), Reg(Rb), compute_alu(Fun, Reg(Ra), Reg(Rb)))
  BY <1>2, <1>3 DEF Alu
<1>5. compute_alu(A_SUB, Reg(Ra), Reg(Rb)) = Signed(Reg(Rb) - Reg(Ra))
  BY DEF compute_alu, A_ADD, A_SUB, A_AND, A_XOR
<1> QED
  BY <1>4, <1>5

(***************************************************************************)
(* After a subtraction of ints whose result is an int, every condition     *)
(* compares the operands (cond_doit, y64sim.c:304-344), although the       *)
(* overflow flag tests the wrong operation and the sign flag half a long.  *)
(***************************************************************************)
THEOREM Branches == Spec => BranchesAgree
<1>1. ASSUME Assembled, Next, SUBQ,
             {Reg(Ra), Reg(Rb), Reg(Rb) - Reg(Ra)} \subseteq Int32
      PROVE  LET a == Reg(Ra)
                 b == Reg(Rb)
             IN  /\ cond_doit(cc', C_L)  = (b < a)
                 /\ cond_doit(cc', C_LE) = (b <= a)
                 /\ cond_doit(cc', C_E)  = (b = a)
                 /\ cond_doit(cc', C_NE) = (b # a)
                 /\ cond_doit(cc', C_GE) = (b >= a)
                 /\ cond_doit(cc', C_G)  = (b > a)
  <2>1. stat = "AOK" /\ Is(icode.alu) /\ Fun = A_SUB
    BY <1>1 DEF SUBQ
  <2>2. nexti
    BY <1>1, <2>1, AsmOver DEF Next, Assembled, Load
  <2>3. cc' = compute_cc(A_SUB, Reg(Ra), Reg(Rb), Signed(Reg(Rb) - Reg(Ra)))
    BY <2>1, <2>2, OnlySubq
  <2> QED
    BY <1>1, <2>3, ConditionsCompare
<1> QED
  BY <1>1, AssembledInv, PTL DEF Spec, BranchesAgree

----------------------------------------------------------------------------
(* The simulator keeps its types. *)

\* The simulator's part of TypeOK
Machine ==
  /\ pc \in Long /\ r \in [Regs -> Long] /\ m \in [0..MemSize - 1 -> Byte]
  /\ cc \in [zf : BOOLEAN, sf : BOOLEAN, of : BOOLEAN]
  /\ stat \in {"off", "too large", "AOK", "HLT", "ADR", "INS", "crash"}
  /\ steps \in 0..MaxSteps

\* Every address of the memory is a long.
LEMMA MemoryFits ==
  /\ MemSize \in Nat /\ MemSize > 0 /\ MaxSteps \in Nat
  /\ \A a \in 0..MemSize : a \in Long
  /\ \A v \in Long : v \in Int
  /\ 0 \in Long /\ LongBytes \in Nat /\ LongBytes > 0
<1>1. LongBytes \in Nat /\ LongBytes > 0
  BY LongBytesAssumption
<1> DEFINE half == Words \div 2
<1>2. half \in Nat /\ MemSize \in 1..half - 1 /\ Long = -half..half - 1 /\ MaxSteps \in Nat
  BY Width, SimAssumption DEF Long
<1> HIDE DEF half
<1> QED
  BY <1>1, <1>2

\* What the types of the simulator's variables say
LEMMA Parts ==
  ASSUME Machine
  PROVE  /\ pc \in Long /\ pc \in Int
         /\ DOMAIN m = 0..MemSize - 1
         /\ \A a \in 0..MemSize - 1 : m[a] \in Byte /\ m[a] \in Int
         /\ r \in [Regs -> Long] /\ \A id \in Regs : r[id] \in Long /\ r[id] \in Int
         /\ REG_RSP \in Regs
<1>1. pc \in Long /\ r \in [Regs -> Long] /\ m \in [0..MemSize - 1 -> Byte]
  BY DEF Machine
<1>2. \A a \in 0..MemSize - 1 : m[a] \in Byte
  BY <1>1
<1>3. \A id \in Regs : r[id] \in Long
  BY <1>1
<1>4. REG_RSP \in Regs
  BY DEF REG_RSP, Regs
<1>5. \A b \in Byte : b \in Int
  BY DEF Byte
<1> QED
  BY <1>1, <1>2, <1>3, <1>4, <1>5, MemoryFits

\* What memory gives and takes
LEMMA GetType ==
  ASSUME Machine, NEW a \in Int, HasLong(a)
  PROVE  Get(a) \in Long
<1>1. ASSUME NEW k \in 1..LongBytes
      PROVE  m[a + k - 1] \in Int
  <2>1. a + k - 1 \in 0..MemSize - 1
    BY MemoryFits DEF HasLong
  <2> QED
    BY <2>1, Parts
<1> QED
  BY <1>1, FromBytesType DEF Get

\* A long in memory; what has been put is read.
LEMMA PutType ==
  ASSUME Machine, NEW a \in Int, HasLong(a), NEW v \in Long
  PROVE  /\ Put(a, v) \in [0..MemSize - 1 -> Byte]
         /\ FromBytes(Put(a, v), a) = v
<1>1. DOMAIN m = 0..MemSize - 1 /\ \A b \in 0..MemSize - 1 : m[b] \in Byte
  BY Parts
<1>2. \A k \in 1..LongBytes : ToBytes(v, LongBytes)[k] \in Byte
  <2>1. v \in Int /\ LongBytes \in 0..LongBytes \cup 0..4
    BY MemoryFits
  <2> QED
    BY <2>1, ToBytesIs
<1>3. \A b \in a..a + LongBytes - 1 : ToBytes(v, LongBytes)[b - a + 1] \in Byte
  <2> TAKE b \in a..a + LongBytes - 1
  <2>1. b - a + 1 \in 1..LongBytes
    BY MemoryFits
  <2> QED
    BY <1>2, <2>1
<1>4. Put(a, v) \in [0..MemSize - 1 -> Byte]
  BY <1>1, <1>3 DEF Put
<1>5. ASSUME NEW k \in 1..LongBytes
      PROVE  Put(a, v)[a + k - 1] = ToBytes(v, LongBytes)[k]
  <2>1. a + k - 1 \in 0..MemSize - 1 /\ a + k - 1 \in a..a + LongBytes - 1 /\ a + k - 1 - a + 1 = k
    BY MemoryFits DEF HasLong
  <2> QED
    BY <1>1, <2>1 DEF Put
<1> QED
  BY <1>4, <1>5, FromToBytes

\* Registers are read and written as longs.
LEMMA RegType ==
  ASSUME Machine, NEW id \in 0..15
  PROVE  Reg(id) \in Long
<1>1. id = REG_NONE \/ id \in Regs
  BY DEF REG_NONE, Regs
<1> QED
  BY <1>1, MemoryFits, Parts DEF Reg

\* A write to a register, or to none
LEMMA WithType ==
  ASSUME NEW f \in [Regs -> Long], NEW id \in 0..15, NEW v \in Long
  PROVE  With(f, id, v) \in [Regs -> Long]
BY DEF With, REG_NONE, Regs

\* Sums of longs
LEMMA SignedSum ==
  ASSUME NEW a \in Int, NEW b \in Int
  PROVE  Signed(a + b) \in Long /\ Signed(a - b) \in Long
<1>1. a + b \in Int /\ a - b \in Int
  OBVIOUS
<1> QED
  BY <1>1, SignedIs

\* What fetching an instruction yields
LEMMA FetchType ==
  ASSUME Machine, Fetched
  PROVE  /\ pc \in 0..MemSize - 1 /\ pc \in Int
         /\ Code \in 0..15 /\ Fun \in 0..15
         /\ HasRegs => Ra \in 0..15 /\ Rb \in 0..15
         /\ HasImm => Imm \in Long
         /\ NextPc \in Long /\ NextPc \in Int
<1>1. pc \in Int
  BY MemoryFits DEF Machine
<1>2. pc \in 0..MemSize - 1
  BY <1>1, MemoryFits DEF Fetched, HasByte
<1>3. \A b \in Byte : HIGH(b) \in 0..15 /\ LOW(b) \in 0..15
  BY DEF Byte, HIGH, LOW
<1>4. Code \in 0..15 /\ Fun \in 0..15
  BY <1>2, <1>3 DEF Code, Fun, Machine
<1>5. ASSUME HasRegs
      PROVE  Ra \in 0..15 /\ Rb \in 0..15 /\ pc + 1 \in 0..MemSize - 1
  <2>1. pc + 1 \in 0..MemSize - 1
    BY <1>1, <1>2, <1>5, MemoryFits DEF Fetched, HasByte
  <2> QED
    BY <1>3, <2>1 DEF Ra, Rb, Machine
<1>6. ImmAt = pc + 1 + (IF HasRegs THEN 1 ELSE 0) /\ ImmAt \in Int /\ ImmAt \in 0..MemSize
  BY <1>1, <1>2, <1>5, MemoryFits DEF ImmAt
<1>7. HasImm => Imm \in Long
  BY <1>6, GetType DEF Fetched, Imm
<1>8. NextPc \in 0..MemSize
  BY <1>6, MemoryFits DEF NextPc, Fetched, HasLong
<1> QED
  BY <1>1, <1>2, <1>4, <1>5, <1>7, <1>8, MemoryFits

\* Codes of instructions, as numbers
LEMMA CodeIs ==
  /\ icode.halt = 0 /\ icode.nop = 1 /\ icode.rrmovq = 2 /\ icode.irmovq = 3
  /\ icode.rmmovq = 4 /\ icode.mrmovq = 5 /\ icode.alu = 6 /\ icode.jmp = 7
  /\ icode.call = 8 /\ icode.ret = 9 /\ icode.pushq = 10 /\ icode.popq = 11
  /\ icode.directive = 12
BY DEF icode

\* An instruction keeps the types, whatever it is.
LEMMA PushType ==
  ASSUME Machine, NEW v \in Long, NEW target \in Long, Push(v, target), steps' \in 0..MaxSteps
  PROVE  Machine'
<1> DEFINE top == Signed(r[REG_RSP] - LongBytes)
<1>1. top \in Long /\ top \in Int
  <2>1. r[REG_RSP] \in Int /\ LongBytes \in Int
    BY Parts, MemoryFits
  <2>2. top \in Long
    BY <2>1, SignedSum
  <2> QED
    BY <2>2, MemoryFits
<1>2. r' = [r EXCEPT ![REG_RSP] = top]
  BY DEF Push
<1>3. \/ HasLong(top) /\ m' = Put(top, v) /\ pc' = target /\ UNCHANGED <<stat, cc>>
      \/ stat' \in {"ADR", "crash"} /\ UNCHANGED <<pc, m, cc>>
  BY DEF Push
<1> HIDE DEF top
<1>4. r' \in [Regs -> Long]
  BY <1>1, <1>2 DEF Machine
<1>5. m' \in [0..MemSize - 1 -> Byte] /\ pc' \in Long
  BY <1>1, <1>3, PutType DEF Machine
<1> QED
  BY <1>3, <1>4, <1>5 DEF Machine

\* What the instructions that may stop without a push do then
LEMMA StopType ==
  ASSUME Machine, NEW s \in {"HLT", "ADR", "INS", "crash"}, Stop(s), steps' \in 0..MaxSteps
  PROVE  Machine'
BY DEF Machine, Stop

\* The results of the arithmetic are longs, and the conditions are Booleans.
LEMMA AluType ==
  ASSUME NEW op \in 0..3, NEW a \in Long, NEW b \in Long
  PROVE  /\ compute_alu(op, a, b) \in Long
         /\ compute_cc(op, a, b, compute_alu(op, a, b)) \in [zf : BOOLEAN, sf : BOOLEAN, of : BOOLEAN]
<1>1. a \in Int /\ b \in Int
  BY MemoryFits
<1>2. \A v \in Int : \A k \in 0..8 * LongBytes - 1 : Bit(v, k) \in Int
  <2> TAKE v \in Int
  <2> TAKE k \in 0..8 * LongBytes - 1
  <2>1. k \in 0..8 * LongBytes
    BY MemoryFits
  <2>2. 2 ^ k \in Nat \ {0}
    BY <2>1, PowersOfTwo
  <2>3. v \div (2 ^ k) \in Int
    BY <2>2
  <2> QED
    BY <2>3 DEF Bit
<1>3. FromBits([k \in 0..8 * LongBytes - 1 |-> Bit(a, k) * Bit(b, k)]) \in Long
  <2> DEFINE f == [k \in 0..8 * LongBytes - 1 |-> Bit(a, k) * Bit(b, k)]
  <2>1. \A k \in 0..8 * LongBytes - 1 : f[k] \in Int
    BY <1>1, <1>2
  <2> HIDE DEF f
  <2>2. FromBits(f) \in Long
    BY <2>1, FromBitsType
  <2> QED
    BY <2>2 DEF f
<1>4. FromBits([k \in 0..8 * LongBytes - 1 |-> (Bit(a, k) + Bit(b, k)) % 2]) \in Long
  <2> DEFINE f == [k \in 0..8 * LongBytes - 1 |-> (Bit(a, k) + Bit(b, k)) % 2]
  <2>1. \A k \in 0..8 * LongBytes - 1 : f[k] \in Int
    BY <1>1, <1>2
  <2> HIDE DEF f
  <2>2. FromBits(f) \in Long
    BY <2>1, FromBitsType
  <2> QED
    BY <2>2 DEF f
<1>5. Signed(b + a) \in Long /\ Signed(b - a) \in Long
  BY <1>1, SignedSum
<1>6. compute_alu(op, a, b) \in Long
  <2>1. op = 0 \/ op = 1 \/ op = 2 \/ op = 3
    OBVIOUS
  <2>2. /\ compute_alu(0, a, b) = Signed(b + a)
        /\ compute_alu(1, a, b) = Signed(b - a)
        /\ compute_alu(2, a, b) = FromBits([k \in 0..8 * LongBytes - 1 |-> Bit(a, k) * Bit(b, k)])
        /\ compute_alu(3, a, b) = FromBits([k \in 0..8 * LongBytes - 1 |-> (Bit(a, k) + Bit(b, k)) % 2])
    BY DEF compute_alu, A_ADD, A_SUB, A_AND, A_XOR
  <2> QED
    BY <1>3, <1>4, <1>5, <2>1, <2>2
<1> DEFINE val == compute_alu(op, a, b)
<1> HIDE DEF val
<1>7. compute_cc(op, a, b, val) \in [zf : BOOLEAN, sf : BOOLEAN, of : BOOLEAN]
  <2>1. (val = 0) \in BOOLEAN /\ NegativeInt(val) \in BOOLEAN
    BY DEF NegativeInt
  <2>2. (\/ op = A_AND /\ (a > 0) = (b > 0) /\ (a > 0) # (val > 0)
         \/ op = A_SUB /\ (a > 0) # (b > 0) /\ (a > 0) = (val > 0)) \in BOOLEAN
    OBVIOUS
  <2> QED
    BY <2>1, <2>2 DEF compute_cc
<1> QED
  BY <1>6, <1>7 DEF val

\* A step of the simulator
LEMMA NextiType ==
  ASSUME Machine, nexti
  PROVE  Machine'
<1>1. steps' \in 0..MaxSteps
  BY MemoryFits DEF nexti, Machine
<1>2. Fetched => /\ Code \in 0..15 /\ Fun \in 0..15 /\ NextPc \in Long
                 /\ HasImm => Imm \in Long
                 /\ HasRegs => /\ Ra \in 0..15 /\ Rb \in 0..15
                              /\ Reg(Ra) \in Long /\ Reg(Rb) \in Long
                              /\ Reg(Ra) \in Int /\ Reg(Rb) \in Int
  BY FetchType, RegType, MemoryFits
<1>3. /\ Code \in {2, 3, 4, 5, 6, 10, 11} => HasRegs
      /\ Code \in {3, 4, 5, 7, 8} => HasImm
  BY CodeIs DEF HasRegs, HasImm
<1>4. r \in [Regs -> Long] /\ REG_RSP \in Regs /\ r[REG_RSP] \in Long /\ r[REG_RSP] \in Int
  BY Parts
<1>5. ASSUME NEW a \in Int, Refused(a)
      PROVE  Machine'
  BY <1>1, <1>5, StopType DEF Refused
<1>6. CASE BadFetch \/ BadCode \/ Halt
  BY <1>1, <1>6, StopType DEF BadFetch, BadCode, Halt
<1>7. CASE Nop
  BY <1>1, <1>2, <1>7 DEF Nop, Is, Machine
<1>8. CASE Rrmovq
  <2>1. Fetched /\ Code = 2
    BY <1>8, CodeIs DEF Rrmovq, Is
  <2>2. CASE Stop("INS")
    BY <1>1, <2>2, StopType
  <2>3. CASE /\ r' = IF cond_doit(cc, Fun) THEN With(r, Rb, Reg(Ra)) ELSE r
             /\ pc' = NextPc /\ UNCHANGED <<m, cc, stat>>
    <3>1. r' \in [Regs -> Long]
      BY <1>2, <1>3, <1>4, <2>1, <2>3, WithType
    <3> QED
      BY <1>1, <1>2, <2>1, <2>3, <3>1 DEF Machine
  <2> QED
    BY <1>8, <2>2, <2>3 DEF Rrmovq
<1>9. CASE Irmovq
  <2>1. Fetched /\ Code = 3
    BY <1>9, CodeIs DEF Irmovq, Is
  <2>2. r' \in [Regs -> Long]
    BY <1>2, <1>3, <1>4, <1>9, <2>1, WithType DEF Irmovq
  <2> QED
    BY <1>1, <1>2, <1>9, <2>1, <2>2 DEF Machine, Irmovq
<1>10. CASE Rmmovq
  <2> DEFINE a == Signed(Reg(Rb) + Imm)
  <2>1. Fetched /\ Code = 4
    BY <1>10, CodeIs DEF Rmmovq, Is
  <2>2. a \in Int
    BY <1>2, <1>3, <2>1, SignedSum, MemoryFits
  <2>3. CASE Refused(a)
    BY <1>5, <2>2, <2>3
  <2>4. CASE HasLong(a) /\ m' = Put(a, Reg(Ra)) /\ pc' = NextPc /\ UNCHANGED <<r, cc, stat>>
    <3>1. m' \in [0..MemSize - 1 -> Byte]
      <4> HIDE DEF a
      <4> QED
        BY <1>2, <1>3, <2>1, <2>2, <2>4, PutType
    <3> QED
      BY <1>1, <1>2, <2>1, <2>4, <3>1 DEF Machine
  <2> QED
    BY <1>10, <2>3, <2>4 DEF Rmmovq
<1>11. CASE Mrmovq
  <2> DEFINE a == Signed(Reg(Rb) + Imm)
  <2>1. Fetched /\ Code = 5
    BY <1>11, CodeIs DEF Mrmovq, Is
  <2>2. a \in Int
    BY <1>2, <1>3, <2>1, SignedSum, MemoryFits
  <2>3. CASE Refused(a)
    BY <1>5, <2>2, <2>3
  <2>4. CASE HasLong(a) /\ r' = With(r, Ra, Get(a)) /\ pc' = NextPc /\ UNCHANGED <<m, cc, stat>>
    <3>1. r' \in [Regs -> Long]
      <4> HIDE DEF a
      <4> QED
        BY <1>2, <1>3, <1>4, <2>1, <2>2, <2>4, GetType, WithType
    <3> QED
      BY <1>1, <1>2, <2>1, <2>4, <3>1 DEF Machine
  <2> QED
    BY <1>11, <2>3, <2>4 DEF Mrmovq
<1>12. CASE Alu
  <2> DEFINE val == compute_alu(Fun, Reg(Ra), Reg(Rb))
  <2>1. Fetched /\ Code = 6
    BY <1>12, CodeIs DEF Alu, Is
  <2>2. CASE Stop("INS")
    BY <1>1, <2>2, StopType
  <2>3. CASE /\ Fun <= A_XOR /\ r' = With(r, Rb, val)
             /\ cc' = compute_cc(Fun, Reg(Ra), Reg(Rb), val)
             /\ pc' = NextPc /\ UNCHANGED <<m, stat>>
    <3>1. Fun \in 0..3
      BY <1>2, <2>1, <2>3 DEF A_XOR
    <3>2. val \in Long /\ cc' \in [zf : BOOLEAN, sf : BOOLEAN, of : BOOLEAN]
      BY <1>2, <1>3, <2>1, <2>3, <3>1, AluType
    <3> HIDE DEF val
    <3>3. r' \in [Regs -> Long]
      BY <1>2, <1>3, <1>4, <2>1, <2>3, <3>2, WithType
    <3> QED
      BY <1>1, <1>2, <2>1, <2>3, <3>2, <3>3 DEF Machine
  <2> QED
    BY <1>12, <2>2, <2>3 DEF Alu
<1>13. CASE Jmp
  <2>1. Fetched /\ Code = 7
    BY <1>13, CodeIs DEF Jmp, Is
  <2>2. CASE Stop("INS")
    BY <1>1, <2>2, StopType
  <2>3. CASE /\ pc' = IF cond_doit(cc, Fun) THEN Imm ELSE NextPc
             /\ UNCHANGED <<r, m, cc, stat>>
    BY <1>1, <1>2, <1>3, <2>1, <2>3 DEF Machine
  <2> QED
    BY <1>13, <2>2, <2>3 DEF Jmp
<1>14. CASE Call
  BY <1>1, <1>2, <1>3, <1>14, CodeIs, PushType DEF Call, Is
<1>15. CASE Pushq
  BY <1>1, <1>2, <1>3, <1>15, CodeIs, PushType DEF Pushq, Is
<1>16. CASE Ret \/ Popq
  <2> DEFINE up == Signed(r[REG_RSP] + LongBytes)
  <2>1. up \in Long
    BY <1>4, SignedSum, MemoryFits
  <2>2. CASE Refused(r[REG_RSP])
    BY <1>4, <1>5, <2>2
  <2> HIDE DEF up
  <2>3. [r EXCEPT ![REG_RSP] = up] \in [Regs -> Long]
    BY <1>4, <2>1
  <2>4. CASE /\ Is(icode.ret) /\ HasLong(r[REG_RSP]) /\ r' = [r EXCEPT ![REG_RSP] = up]
             /\ pc' = Get(r[REG_RSP]) /\ UNCHANGED <<m, cc, stat>>
    <3>1. Get(r[REG_RSP]) \in Long
      BY <1>4, <2>4, GetType
    <3> QED
      BY <1>1, <2>3, <2>4, <3>1 DEF Machine
  <2>5. CASE /\ Is(icode.popq) /\ HasLong(r[REG_RSP])
             /\ r' = With([r EXCEPT ![REG_RSP] = up], Ra, Get(r[REG_RSP]))
             /\ pc' = NextPc /\ UNCHANGED <<m, cc, stat>>
    <3>1. Get(r[REG_RSP]) \in Long
      BY <1>4, <2>5, GetType
    <3>2. Fetched /\ Code = 11
      BY <2>5, CodeIs DEF Is
    <3>3. r' \in [Regs -> Long]
      BY <1>2, <1>3, <2>3, <2>5, <3>1, <3>2, WithType
    <3> QED
      BY <1>1, <1>2, <2>5, <3>2, <3>3 DEF Machine
  <2> QED
    BY <1>16, <2>2, <2>4, <2>5 DEF Ret, Popq, up
<1> QED
  BY <1>6, <1>7, <1>8, <1>9, <1>10, <1>11, <1>12, <1>13, <1>14, <1>15, <1>16 DEF nexti

----------------------------------------------------------------------------
(* The bytes of a line. *)

\* The texts are read as they are meant, each by itself.
ParserReads ==
  \A text \in Source : \/ Parse[text] = Says[text]
                       \/ Parse[text].kind = "bad" /\ Says[text].kind = "bad"

\* Instructions with registers, and those with a long
RegOps == {2, 3, 4, 5, 6, 10, 11}
ImmOps == {3, 4, 5, 7, 8}

\* The bytes before the long: the code, then the registers if there are any
Head1(l) == HPACK(l.op, l.fun)
Head2(l) == CASE l.op \in {2, 4, 6} -> HPACK(l.ra, l.rb)
              [] l.op = 3 -> HPACK(15, l.rb)
              [] l.op = 5 -> HPACK(l.rb, l.ra)
              [] OTHER -> HPACK(l.ra, 15)
Heads(l) == IF l.op \in RegOps THEN <<Head1(l), Head2(l)>> ELSE <<Head1(l)>>

\* The bytes of an instruction of a text
LEMMA CodesAre ==
  ASSUME NEW l, l.op \in 0..11
  PROVE  Codes(l) = IF l.op \in ImmOps
                    THEN Heads(l) \o ToBytes(IF l.op \in {7, 8} THEN 0 ELSE l.imm, LongBytes)
                    ELSE Heads(l)
<1>1. l.op \in {0, 1, 2, 3, 4, 5, 6, 7, 8, 9, 10, 11}
  OBVIOUS
<1>2. REG_NONE = 15
  BY DEF REG_NONE
<1>3. CASE l.op \in {0, 1, 9}
  BY <1>3, CodeIs DEF Codes, Heads, Head1, RegOps, ImmOps
<1>4. CASE l.op \in {2, 6, 10, 11}
  <2>1. Codes(l) = <<Head1(l)>> \o <<Head2(l)>>
    <3>1. CASE l.op \in {2, 6}
      BY <3>1, CodeIs DEF Codes, Head1, Head2
    <3>2. CASE l.op \in {10, 11}
      BY <1>2, <3>2, CodeIs DEF Codes, Head1, Head2
    <3> QED
      BY <1>4, <3>1, <3>2
  <2>2. <<Head1(l)>> \o <<Head2(l)>> = Heads(l)
    BY <1>4 DEF Heads, RegOps
  <2>3. l.op \notin ImmOps
    BY <1>4 DEF ImmOps
  <2> QED
    BY <2>1, <2>2, <2>3
<1>6. CASE l.op \in {3, 4, 5}
  <2>1. Codes(l) = <<Head1(l)>> \o <<Head2(l)>> \o ToBytes(l.imm, LongBytes)
    <3>1. CASE l.op = 3
      BY <1>2, <3>1, CodeIs DEF Codes, Head1, Head2
    <3>2. CASE l.op = 4
      BY <3>2, CodeIs DEF Codes, Head1, Head2
    <3>3. CASE l.op = 5
      BY <3>3, CodeIs DEF Codes, Head1, Head2
    <3> QED
      BY <1>6, <3>1, <3>2, <3>3
  <2>2. <<Head1(l)>> \o <<Head2(l)>> = Heads(l)
    BY <1>6 DEF Heads, RegOps
  <2>3. l.op \in ImmOps /\ l.op \notin {7, 8}
    BY <1>6 DEF ImmOps
  <2> QED
    BY <2>1, <2>2, <2>3
<1>9. CASE l.op \in {7, 8}
  BY <1>9, CodeIs DEF Codes, Heads, Head1, RegOps, ImmOps
<1> QED
  BY <1>1, <1>3, <1>4, <1>6, <1>9

\* A byte of two halves
LEMMA Halves ==
  ASSUME NEW a \in 0..15, NEW b \in 0..15
  PROVE  /\ HPACK(a, b) \in Byte
         /\ HIGH(HPACK(a, b)) = a /\ LOW(HPACK(a, b)) = b
BY DEF HPACK, HIGH, LOW, Byte

\* What InLanguage says of a line with bytes
LEMMA CodeLine ==
  ASSUME NEW l, InLanguage(l), l.kind = "code"
  PROVE  /\ l.op \in 0..12 /\ l.fun \in 0..15 /\ l.ra \in 0..14 /\ l.rb \in 0..14
         /\ l.imm \in Long /\ l.imm \in Int
         /\ l.label \in Labels \cup {None} /\ l.sym \in Labels \cup {None}
         /\ l.op = 12 => l.size \in 1..LongBytes \cup 1..4
         /\ l.op \in {7, 8} => l.sym # None
         /\ l.sym # None => l.op \in {3, 7, 8, 12}
<1>1. l.op = 12 => l.size \in 1..LongBytes \cup 1..4
  BY MemoryFits, CodeIs DEF InLanguage
<1> QED
  BY <1>1, MemoryFits, CodeIs DEF InLanguage, Regs

\* They are one or two bytes.
LEMMA HeadsAre ==
  ASSUME NEW l, InLanguage(l), l.kind = "code", l.op \in 0..11
  PROVE  /\ Heads(l) \in Seq(Byte)
         /\ Len(Heads(l)) = IF l.op \in RegOps THEN 2 ELSE 1
         /\ Heads(l)[1] = Head1(l)
         /\ l.op \in RegOps => Heads(l)[2] = Head2(l)
<1>1. Head1(l) \in Byte
  BY CodeLine, Halves DEF Head1
<1>2. Head2(l) \in Byte
  BY CodeLine, Halves DEF Head2
<1> QED
  BY <1>1, <1>2 DEF Heads

\* The bytes of a line, and how much of them a reference takes
LEMMA CodesType ==
  ASSUME NEW l, InLanguage(l), l.kind = "code"
  PROVE  /\ Codes(l) \in Seq(Byte) /\ Codes(l) # <<>>
         /\ l.sym # None => RefBytes(l) \in 1..Len(Codes(l)) /\ RefBytes(l) \in 0..LongBytes \cup 0..4
<1>1. CASE l.op = 12
  <2>1. l.size \in 1..LongBytes \cup 1..4 /\ l.size - 1 \in 0..LongBytes \cup 0..4
        /\ l.size \in 0..LongBytes \cup 0..4 /\ l.size \in Nat /\ l.imm \in Int /\ l.fun \in 0..15
    BY <1>1, CodeLine, MemoryFits
  <2>2. CASE l.sym = None
    <3>1. Codes(l) = ToBytes(l.imm, l.size)
      BY <1>1, <2>2, CodeIs DEF Codes
    <3>2. Codes(l) \in Seq(Byte) /\ Len(Codes(l)) = l.size
      BY <2>1, <3>1, ToBytesIs
    <3>3. Codes(l) # <<>>
      BY <2>1, <3>2
    <3> QED
      BY <2>2, <3>2, <3>3
  <2>3. CASE l.sym # None
    <3> DEFINE rest == ToBytes(0, l.size - 1)
    <3>1. Codes(l) = <<HPACK(l.op, l.fun)>> \o rest
      BY <1>1, <2>3, CodeIs DEF Codes
    <3>2. rest \in Seq(Byte) /\ Len(rest) = l.size - 1
      <4>1. PICK n \in 0..LongBytes \cup 0..4 : n = l.size - 1
        BY <2>1
      <4>2. ToBytes(0, n) \in Seq(Byte) /\ Len(ToBytes(0, n)) = n
        BY ToBytesIs
      <4> QED
        BY <4>1, <4>2
    <3>3. <<HPACK(l.op, l.fun)>> \in Seq(Byte) /\ Len(<<HPACK(l.op, l.fun)>>) = 1
      BY <1>1, <2>1, Halves
    <3> HIDE DEF rest
    <3>4. Codes(l) \in Seq(Byte) /\ Len(Codes(l)) = l.size
      BY <2>1, <3>1, <3>2, <3>3, ConcatProperties
    <3>5. RefBytes(l) = l.size
      BY <1>1, CodeIs DEF RefBytes
    <3>6. Codes(l) # <<>>
      BY <2>1, <3>4
    <3> QED
      BY <2>1, <3>4, <3>5, <3>6
  <2> QED
    BY <2>2, <2>3
<1>2. CASE l.op \in 0..11
  <2> DEFINE h == Heads(l)
             v == IF l.op \in {7, 8} THEN 0 ELSE l.imm
             rest == ToBytes(v, LongBytes)
  <2>1. h \in Seq(Byte) /\ Len(h) \in {1, 2}
    BY <1>2, HeadsAre
  <2>2. rest \in Seq(Byte) /\ Len(rest) = LongBytes
    <3>1. v \in Int /\ LongBytes \in 0..LongBytes \cup 0..4
      BY CodeLine, MemoryFits
    <3> HIDE DEF v
    <3> QED
      BY <3>1, ToBytesIs
  <2>3. Codes(l) = IF l.op \in ImmOps THEN h \o rest ELSE h
    BY <1>2, CodesAre
  <2> DEFINE all == h \o rest
  <2>4. all \in Seq(Byte) /\ Len(all) = Len(h) + Len(rest)
    <3> HIDE DEF h, rest
    <3> QED
      BY <2>1, <2>2, ConcatProperties
  <2>5. l.sym # None => l.op \in ImmOps /\ RefBytes(l) = LongBytes
    BY <1>2, CodeLine, CodeIs DEF ImmOps, RefBytes
  <2> HIDE DEF h, rest, all
  <2>6. Codes(l) \in Seq(Byte) /\ Len(Codes(l)) > 0
    <3>1. Codes(l) = all \/ Codes(l) = h
      BY <2>3 DEF all
    <3>2. LongBytes \in Nat
      BY MemoryFits
    <3>3. Len(h) > 0 /\ Len(all) > 0
      <4>1. PICK a, b : a = Len(h) /\ b = Len(rest)
        OBVIOUS
      <4>2. a \in {1, 2} /\ b \in Nat
        BY <2>1, <2>2, <3>2, <4>1
      <4>3. Len(h) = a /\ Len(all) = a + b
        BY <2>4, <4>1
      <4> QED
        BY <4>2, <4>3
    <3> QED
      BY <2>1, <2>4, <3>1, <3>3
  <2>7. l.sym # None => LongBytes \in 1..Len(Codes(l)) /\ LongBytes \in 0..LongBytes \cup 0..4
    BY <2>1, <2>2, <2>3, <2>4, <2>5, MemoryFits DEF all
  <2> QED
    BY <2>5, <2>6, <2>7
<1>3. l.op = 12 \/ l.op \in 0..11
  BY CodeLine
<1> QED
  BY <1>1, <1>2, <1>3

\* A reference takes the place of the last bytes.
LEMMA FilledIs ==
  ASSUME NEW l, InLanguage(l), l.kind = "code", l.sym # None, NEW addr \in Int
  PROVE  LET c == Filled(Codes(l), l, addr)
             n == RefBytes(l)
             p == Len(Codes(l)) - n
         IN  /\ c \in Seq(Byte) /\ Len(c) = Len(Codes(l)) /\ p \in Nat /\ n \in Nat
             /\ \A k \in 1..p : c[k] = Codes(l)[k]
             /\ \A k \in 1..n : c[p + k] = ToBytes(addr, n)[k]
<1> DEFINE s == Codes(l)
           n == RefBytes(l)
           p == Len(s) - n
           t == ToBytes(addr, n)
           h == SubSeq(s, 1, p)
<1>1. s \in Seq(Byte) /\ n \in 1..Len(s) /\ n \in 0..LongBytes \cup 0..4 /\ n \in Nat
  BY CodesType, MemoryFits
<1>2. t \in Seq(Byte) /\ Len(t) = n
  <2> HIDE DEF n
  <2> QED
    BY <1>1, ToBytesIs
<1>3. Filled(s, l, addr) = h \o t
  BY DEF Filled
<1> HIDE DEF s, n, t
<1>4. p \in 0..Len(s) /\ p \in Nat /\ Len(s) = p + n /\ \A k \in 1..p : s[k] \in Byte
  BY <1>1, LenProperties, ElementOfSeq
<1> HIDE DEF p
<1>5. h \in Seq(Byte) /\ Len(h) = p /\ \A k \in 1..p : h[k] = s[k]
  <2>1. h = [k \in 1..p |-> s[k]]
    BY <1>4
  <2> HIDE DEF h
  <2> QED
    BY <1>4, <2>1
<1> HIDE DEF h
<1>6. /\ h \o t \in Seq(Byte) /\ Len(h \o t) = Len(h) + Len(t)
      /\ \A i \in 1..Len(h) + Len(t) : (h \o t)[i] = IF i <= Len(h) THEN h[i] ELSE t[i - Len(h)]
  BY <1>2, <1>5, ConcatProperties
<1> DEFINE c == h \o t
<1> HIDE DEF c
<1>7. /\ c \in Seq(Byte) /\ Len(c) = p + n
      /\ \A i \in 1..p + n : c[i] = IF i <= p THEN h[i] ELSE t[i - p]
  BY <1>2, <1>5, <1>6 DEF c
<1>8. \A k \in 1..p : c[k] = s[k]
  <2> TAKE k \in 1..p
  <2>1. k \in 1..p + n /\ k <= p
    BY <1>1, <1>4
  <2> QED
    BY <1>5, <1>7, <2>1
<1>9. \A k \in 1..n : c[p + k] = t[k]
  <2> TAKE k \in 1..n
  <2>1. PICK i : i = p + k
    OBVIOUS
  <2>2. i \in 1..p + n /\ ~(i <= p) /\ i - p = k
    BY <1>1, <1>4, <2>1
  <2>3. c[i] = t[i - p]
    BY <1>7, <2>2
  <2> QED
    BY <2>1, <2>2, <2>3
<1> QED
  BY <1>1, <1>3, <1>4, <1>7, <1>8, <1>9 DEF c, t, n, s, p

----------------------------------------------------------------------------
(* The assembler's list, tables and image: the invariant and its steps. *)

\* The last line of a set, and where the lines of a list before line i end
Latest(S)       == CHOOSE j \in S : \A k \in S : k <= j
Before(list, i) == {j \in 1..i - 1 : Says[list[j].src].kind # "comment"}
EndIn(list, j)  == list[j].addr + Len(list[j].codes)
ReachedIn(list, i) ==
  IF Before(list, i) = {} THEN 0 ELSE EndIn(list, Latest(Before(list, i)))

\* Line i of a list as the parser reads it
ReadIn(list, i) == Parse[list[i].src]

\* Only the last line can be one that was refused: because it does not parse or
\* has the label of another.
Refusal(a, list) ==
  LET n == Len(list) IN
  /\ \A i \in 1..n : a # "refused" \/ i < n => ReadIn(list, i).kind # "bad"
  /\ a = "refused" =>
       /\ n > 0
       /\ \/ ReadIn(list, n).kind = "bad"
          \/ \E i \in 1..n - 1 : /\ ReadIn(list, n).label # None
                                 /\ ReadIn(list, i).label = ReadIn(list, n).label

\* Each label is that of one line, and its address is where the lines before end.
Symbols(list, tab, addr) ==
  LET n == Len(list) IN
  /\ \A i \in 1..n : ReadIn(list, i).label # None => tab[ReadIn(list, i).label] # None
  /\ \A i, j \in 1..n :
       ReadIn(list, i).label # None /\ ReadIn(list, i).label = ReadIn(list, j).label => i = j
  /\ \A name \in Labels : tab[name] # None =>
       /\ tab[name] \in Long
       /\ \E j \in 1..n : ReadIn(list, j).label = name /\ tab[name] = ReachedIn(list, j)
  /\ addr = ReachedIn(list, n + 1)

\* What is pending is references of the lines, each once, and while the text is
\* read all of them.
Pending(rel, i) == \E k \in 1..Len(rel) : rel[k].at = i

References(a, list, tab, rel) ==
  /\ \A k \in 1..Len(rel) : rel[k].name = ReadIn(list, rel[k].at).sym
  /\ \A j, k \in 1..Len(rel) : rel[j].at = rel[k].at => j = k
  /\ \A i \in 1..Len(list) :
       LET name == ReadIn(list, i).sym IN
       name # None /\ (a = "reading" \/ tab[name] = None) => Pending(rel, i)

\* The bytes of a line: a reference is filled in unless it is pending.
BytesOf(l, tab, pending) ==
  IF l.kind # "code" THEN <<>>
  ELSE IF l.sym = None \/ pending THEN Codes(l)
  ELSE Filled(Codes(l), l, tab[l.sym])

Coded(list, tab, rel) ==
  \A i \in 1..Len(list) :
    list[i].codes = BytesOf(ReadIn(list, i), tab, Pending(rel, i))

\* The image is that of all lines.
Imaged ==
  asm = "done" => /\ reltab = <<>>
                  /\ image = [k \in 1..FileSize |-> ByteAt(k - 1)]
                  /\ \A i \in CodeLines : End(i) <= FileSize

LineType == [src : Source, addr : Nat, codes : Seq(Byte)]
RefType  == [at : Nat, name : Labels]

AsmTypes ==
  /\ asm \in {"reading", "relocating", "done", "refused", "unresolved", "undefined"}
  /\ lines \in Seq(LineType) /\ Len(lines) <= MaxLines
  /\ vmaddr \in Nat /\ vmaddr \in Long
  /\ symtab \in [Labels -> Nat \cup {None}]
  /\ reltab \in Seq(RefType)
  /\ \A k \in 1..Len(reltab) : reltab[k].at \in 1..Len(lines)
  /\ image \in Seq(Byte) /\ (asm # "done" => image = <<>>)

Assembly ==
  /\ AsmTypes /\ Refusal(asm, lines) /\ Imaged
  /\ asm \in {"reading", "relocating", "done"} =>
       /\ Symbols(lines, symtab, vmaddr)
       /\ References(asm, lines, symtab, reltab)
       /\ Coded(lines, symtab, reltab)

\* A set of lines that is not empty has a last one.
LEMMA LatestIs ==
  ASSUME NEW n \in Nat, NEW S \in SUBSET (1..n), S # {}
  PROVE  Latest(S) \in S /\ \A k \in S : k <= Latest(S)
<1> DEFINE T == {k \in Nat : \E x \in S : k = n - x}
<1>1. T \subseteq Nat /\ T # {}
  <2>1. PICK x \in S : TRUE
    OBVIOUS
  <2>2. n - x \in T
    OBVIOUS
  <2> QED
    BY <2>2
<1>2. PICK t \in T : \A y \in T : t <= y
  <2> HIDE DEF T
  <2> QED
    BY <1>1, NatMin
<1>3. PICK x \in S : t = n - x
  BY <1>2
<1>4. \A k \in S : k <= x
  <2> TAKE k \in S
  <2>1. n - k \in T
    OBVIOUS
  <2>2. n - x <= n - k
    BY <1>2, <1>3, <2>1
  <2> QED
    BY <2>2
<1>5. \E j \in S : \A k \in S : k <= j
  BY <1>4
<1> HIDE DEF T
<1> QED
  BY <1>5, Zenon DEF Latest

\* The two notions of where the lines before line i end are the same.
LEMMA ReachedIs == \A i : Reached(i) = ReachedIn(lines, i)
BY Zenon DEF Reached, ReachedIn, Before, EndIn, Latest, Text, End

\* It depends on their texts, addresses and numbers of bytes only.
LEMMA SameReach ==
  ASSUME NEW n \in Nat, NEW f, NEW g,
         \A j \in 1..n : /\ f[j].src = g[j].src /\ f[j].addr = g[j].addr
                         /\ Len(f[j].codes) = Len(g[j].codes),
         NEW i \in 1..n + 1
  PROVE  ReachedIn(f, i) = ReachedIn(g, i)
<1>1. \A j \in 1..i - 1 : j \in 1..n
  OBVIOUS
<1>2. Before(f, i) = Before(g, i) /\ Before(f, i) \in SUBSET (1..n)
  BY <1>1 DEF Before
<1>3. CASE Before(f, i) # {}
  <2>1. PICK j : j = Latest(Before(f, i))
    OBVIOUS
  <2>2. j \in 1..n
    BY <1>2, <1>3, <2>1, LatestIs
  <2>3. EndIn(f, j) = EndIn(g, j)
    BY <2>2 DEF EndIn
  <2> QED
    BY <1>2, <1>3, <2>1, <2>3 DEF ReachedIn
<1>4. CASE Before(f, i) = {}
  BY <1>2, <1>4 DEF ReachedIn
<1> QED
  BY <1>3, <1>4

\* Behind a line, it is the end of the line, unless that is a comment.
LEMMA NextReach ==
  ASSUME NEW n \in Nat, NEW f
  PROVE  ReachedIn(f, n + 2) = IF Says[f[n + 1].src].kind = "comment" THEN ReachedIn(f, n + 1)
                               ELSE EndIn(f, n + 1)
<1> DEFINE B == Before(f, n + 1)
           C == Before(f, n + 2)
<1>1. B \in SUBSET (1..n) /\ C \in SUBSET (1..n + 1)
  BY DEF Before
<1>2. \A j : j \in 1..n + 2 - 1 <=> j \in 1..n + 1 - 1 \/ j = n + 1
  OBVIOUS
<1>3. CASE Says[f[n + 1].src].kind = "comment"
  <2>1. C = B
    BY <1>2, <1>3 DEF Before
  <2> QED
    BY <1>3, <2>1 DEF ReachedIn
<1>4. CASE Says[f[n + 1].src].kind # "comment"
  <2>1. n + 1 \in C
    BY <1>2, <1>4 DEF Before
  <2> HIDE DEF C
  <2>2. Latest(C) \in C /\ n + 1 <= Latest(C)
    <3>1. n + 1 \in Nat /\ C # {}
      BY <2>1
    <3> QED
      BY <1>1, <2>1, <3>1, LatestIs
  <2>3. Latest(C) = n + 1
    <3>1. Latest(C) \in 1..n + 1
      BY <1>1, <2>2
    <3> QED
      BY <2>2, <3>1
  <2> QED
    BY <1>4, <2>1, <2>3 DEF ReachedIn, C
<1> QED
  BY <1>3, <1>4

\* What the parser makes of a text of the source
LEMMA ParsedIs ==
  ASSUME ParserReads, NEW text \in Source
  PROVE  /\ Parse[text].label \in Labels \cup {None} /\ Parse[text].sym \in Labels \cup {None}
         /\ Parse[text].kind # "bad" => Parse[text] = Says[text] /\ InLanguage(Parse[text])
<1>1. Parse[text].label \in Labels \cup {None} /\ Parse[text].sym \in Labels \cup {None}
  BY SourceAssumption
<1>2. InLanguage(Says[text])
  BY SaysAssumption
<1> QED
  BY <1>1, <1>2 DEF ParserReads

\* The list new is the list of n lines and one more, ln.
OneMore(new, list, ln, n) ==
  /\ n \in Nat /\ Len(list) = n /\ Len(new) = n + 1 /\ new \in Seq(LineType)
  /\ \A i \in 1..n : new[i] = list[i] /\ list[i] \in LineType /\ list[i].src \in Source
  /\ new[n + 1] = ln
  /\ \A i \in 1..n : ReadIn(new, i) = ReadIn(list, i)
  /\ ReadIn(new, n + 1) = Parse[ln.src]
  /\ \A i \in 1..n + 1 : ReachedIn(new, i) = ReachedIn(list, i)
  /\ ReachedIn(new, n + 2) = IF Says[ln.src].kind = "comment" THEN ReachedIn(list, n + 1)
                             ELSE ln.addr + Len(ln.codes)
  /\ \A i \in 1..n + 1 : i \in 1..n \/ i = n + 1
  /\ n + 1 + 1 = n + 2 /\ n + 1 - 1 = n /\ n + 1 \in 1..n + 1 /\ \A i \in 1..n : i \in 1..n + 1

\* What appending a line leaves and adds
LEMMA Appended ==
  ASSUME NEW list \in Seq(LineType), NEW ln \in LineType, NEW new, new = Append(list, ln),
         NEW n, n = Len(list)
  PROVE  OneMore(new, list, ln, n)
<1>1. n \in Nat /\ DOMAIN list = 1..n
  BY LenProperties
<1>2. /\ Len(new) = n + 1 /\ new \in Seq(LineType)
      /\ \A i \in 1..n : new[i] = list[i] /\ list[i] \in LineType
      /\ new[n + 1] = ln
  BY <1>1, AppendProperties, ElementOfSeq
<1>3. \A i \in 1..n + 1 : ReachedIn(new, i) = ReachedIn(list, i)
  <2>1. \A j \in 1..n : /\ new[j].src = list[j].src /\ new[j].addr = list[j].addr
                        /\ Len(new[j].codes) = Len(list[j].codes)
    BY <1>2
  <2>2. n \in Nat
    BY <1>1
  <2>3. \A i \in 1..n + 1 : ReachedIn(new, i) = ReachedIn(list, i)
    BY ONLY <2>1, <2>2, SameReach, Zenon
  <2> QED
    BY <2>3
<1>4. ReachedIn(new, n + 2) = IF Says[ln.src].kind = "comment" THEN ReachedIn(list, n + 1)
                              ELSE ln.addr + Len(ln.codes)
  <2>1. ReachedIn(new, n + 2) = IF Says[new[n + 1].src].kind = "comment"
                                THEN ReachedIn(new, n + 1) ELSE EndIn(new, n + 1)
    BY <1>1, NextReach
  <2>2. n + 1 \in 1..n + 1
    BY <1>1
  <2> QED
    BY <1>2, <1>3, <2>1, <2>2 DEF EndIn
<1>5. \A i \in 1..n : list[i].src \in Source
  BY <1>2 DEF LineType
<1> QED
  BY <1>1, <1>2, <1>3, <1>4, <1>5 DEF ReadIn, OneMore

\* A refused line
LEMMA AddRefused ==
  ASSUME NEW list, NEW ln, NEW new, NEW n, OneMore(new, list, ln, n), NEW l, l = Parse[ln.src], NEW a,
         Refusal("reading", list),
         a # "refused" => l.kind # "bad",
         a = "refused" => \/ l.kind = "bad"
                          \/ \E i \in 1..n : l.label # None /\ ReadIn(list, i).label = l.label
  PROVE  Refusal(a, new)
<1>1. /\ n \in Nat /\ Len(new) = n + 1
      /\ \A i \in 1..n : ReadIn(new, i) = ReadIn(list, i)
      /\ ReadIn(new, n + 1) = l
      /\ \A i \in 1..n + 1 : i \in 1..n \/ i = n + 1
  BY DEF OneMore
<1>2. \A i \in 1..n : ReadIn(list, i).kind # "bad"
  BY DEF Refusal, OneMore
<1>3. \A i \in 1..n + 1 : a # "refused" \/ i < n + 1 => ReadIn(new, i).kind # "bad"
  BY <1>1, <1>2
<1>4. n + 1 - 1 = n
  BY <1>1
<1>5. a = "refused" => \/ ReadIn(new, n + 1).kind = "bad"
                       \/ \E i \in 1..n : /\ ReadIn(new, n + 1).label # None
                                          /\ ReadIn(new, i).label = ReadIn(new, n + 1).label
  BY <1>1
<1> QED
  BY <1>1, <1>3, <1>4, <1>5 DEF Refusal, OneMore

\* The line ln, read as l, is not refused: the labels and the address before
\* and behind it.
NewLabel(ln, l, tab, addr, tab2, addr2) ==
  /\ l = Parse[ln.src]
  /\ tab \in [Labels -> Nat \cup {None}] /\ addr \in Nat /\ addr \in Long
  /\ l.label \in Labels \cup {None} /\ (l.label # None => tab[l.label] = None)
  /\ tab2 = IF l.label = None THEN tab ELSE [tab EXCEPT ![l.label] = addr]
  /\ addr2 = IF Says[ln.src].kind = "comment" THEN addr ELSE ln.addr + Len(ln.codes)

\* A new label is that of the new line only.
LEMMA AddSymbol ==
  ASSUME NEW list, NEW ln, NEW new, NEW n, OneMore(new, list, ln, n),
         NEW l, NEW tab, NEW addr, NEW tab2, NEW addr2,
         Symbols(list, tab, addr), NewLabel(ln, l, tab, addr, tab2, addr2)
  PROVE  Symbols(new, tab2, addr2) /\ tab2 \in [Labels -> Nat \cup {None}]
<1> USE DEF NewLabel
<1>1. /\ n \in Nat /\ Len(new) = n + 1
      /\ \A i \in 1..n : ReadIn(new, i) = ReadIn(list, i)
      /\ ReadIn(new, n + 1) = l
      /\ \A i \in 1..n + 1 : i \in 1..n \/ i = n + 1
      /\ \A i \in 1..n + 1 : ReachedIn(new, i) = ReachedIn(list, i)
      /\ ReachedIn(new, n + 2) = IF Says[ln.src].kind = "comment" THEN ReachedIn(list, n + 1)
                                 ELSE ln.addr + Len(ln.codes)
  BY DEF OneMore
<1>2. /\ \A i \in 1..n : ReadIn(list, i).label # None => tab[ReadIn(list, i).label] # None
      /\ \A i, j \in 1..n :
           ReadIn(list, i).label # None /\ ReadIn(list, i).label = ReadIn(list, j).label => i = j
      /\ \A name \in Labels : tab[name] # None =>
           /\ tab[name] \in Long
           /\ \E j \in 1..n : ReadIn(list, j).label = name /\ tab[name] = ReachedIn(list, j)
      /\ addr = ReachedIn(list, n + 1)
  BY DEF Symbols, OneMore
<1>3. addr # None /\ None \notin Labels
  BY SourceAssumption
<1>4. /\ tab2 \in [Labels -> Nat \cup {None}]
      /\ \A name \in Labels : name # l.label => tab2[name] = tab[name]
      /\ l.label # None => tab2[l.label] = addr
  BY <1>3
<1>5. \A i \in 1..n : ReadIn(list, i).label # None => ReadIn(list, i).label # l.label
  BY <1>2
<1>6. \A i \in 1..n + 1 : ReadIn(new, i).label # None => tab2[ReadIn(new, i).label] # None
  <2> SUFFICES ASSUME NEW i \in 1..n + 1, ReadIn(new, i).label # None
               PROVE  tab2[ReadIn(new, i).label] # None
    OBVIOUS
  <2>1. CASE i = n + 1
    BY <1>1, <1>3, <1>4, <2>1
  <2>2. CASE i \in 1..n
    <3>1. tab2[ReadIn(list, i).label] = tab[ReadIn(list, i).label]
      BY <1>1, <1>5, <2>2
    <3> QED
      BY <1>1, <1>2, <2>2, <3>1
  <2> QED
    BY <1>1, <2>1, <2>2
<1>7. ASSUME NEW i \in 1..n + 1, NEW j \in 1..n + 1,
             ReadIn(new, i).label # None, ReadIn(new, i).label = ReadIn(new, j).label
      PROVE  i = j
  <2>1. CASE i \in 1..n /\ j \in 1..n
    BY <1>1, <1>2, <1>7, <2>1
  <2>2. CASE i \in 1..n /\ j = n + 1
    BY <1>1, <1>5, <1>7, <2>2
  <2>3. CASE i = n + 1 /\ j \in 1..n
    BY <1>1, <1>5, <1>7, <2>3
  <2> QED
    BY <1>1, <2>1, <2>2, <2>3
<1>8. ASSUME NEW name \in Labels, tab2[name] # None
      PROVE  /\ tab2[name] \in Long
             /\ \E j \in 1..n + 1 : ReadIn(new, j).label = name /\ tab2[name] = ReachedIn(new, j)
  <2>1. n + 1 \in 1..n + 1 /\ \A j \in 1..n : j \in 1..n + 1
    BY <1>1
  <2>2. CASE name = l.label
    BY <1>1, <1>2, <1>3, <1>4, <2>1, <2>2
  <2>3. CASE name # l.label
    <3>1. tab2[name] = tab[name]
      BY <1>4, <2>3
    <3>2. PICK j \in 1..n : ReadIn(list, j).label = name /\ tab[name] = ReachedIn(list, j)
      BY <1>2, <1>8, <3>1
    <3>3. ReadIn(new, j).label = name /\ tab2[name] = ReachedIn(new, j)
      BY <1>1, <2>1, <3>1, <3>2
    <3> QED
      BY <1>2, <1>8, <2>1, <3>1, <3>3
  <2> QED
    BY <2>2, <2>3
<1>9. addr2 = ReachedIn(new, n + 1 + 1)
  <2>1. n + 1 + 1 = n + 2
    BY DEF OneMore
  <2> QED
    BY <1>1, <1>2, <2>1
<1> QED
  BY <1>1, <1>4, <1>6, <1>7, <1>8, <1>9 DEF Symbols

\* Its reference is pending; and its bytes.
NewReference(ln, l, n, rel, rel2) ==
  /\ l = Parse[ln.src] /\ l.sym \in Labels \cup {None}
  /\ ln.codes = IF l.kind = "code" THEN Codes(l) ELSE <<>>
  /\ rel \in Seq(RefType) /\ \A k \in 1..Len(rel) : rel[k].at \in 1..n
  /\ rel2 = IF l.sym = None THEN rel ELSE Append(rel, [at |-> n + 1, name |-> l.sym])

\* Then all references are pending, as before, and all bytes as they should be.
LEMMA AddReference ==
  ASSUME NEW list, NEW ln, NEW new, NEW n, OneMore(new, list, ln, n),
         NEW l, NEW tab, NEW tab2, NEW rel, NEW rel2,
         References("reading", list, tab, rel), Coded(list, tab, rel),
         NewReference(ln, l, n, rel, rel2)
  PROVE  /\ rel2 \in Seq(RefType) /\ \A k \in 1..Len(rel2) : rel2[k].at \in 1..n + 1
         /\ References("reading", new, tab2, rel2) /\ Coded(new, tab2, rel2)
<1> USE DEF NewReference
<1> DEFINE p == Len(rel)
           ref == [at |-> n + 1, name |-> l.sym]
<1>1. /\ n \in Nat /\ Len(list) = n /\ Len(new) = n + 1
      /\ \A i \in 1..n : new[i] = list[i] /\ ReadIn(new, i) = ReadIn(list, i)
      /\ new[n + 1] = ln /\ ReadIn(new, n + 1) = l
      /\ \A i \in 1..n + 1 : i \in 1..n \/ i = n + 1
      /\ n + 1 \in 1..n + 1 /\ \A i \in 1..n : i \in 1..n + 1 /\ i # n + 1
  BY DEF OneMore
<1>2. p \in Nat /\ \A k \in 1..p : rel[k] \in RefType /\ rel[k].at \in 1..n
  BY LenProperties, ElementOfSeq
<1>3. /\ \A k \in 1..p : rel[k].name = ReadIn(list, rel[k].at).sym
      /\ \A j, k \in 1..p : rel[j].at = rel[k].at => j = k
      /\ \A i \in 1..n : ReadIn(list, i).sym # None => Pending(rel, i)
      /\ \A i \in 1..n : list[i].codes = BytesOf(ReadIn(list, i), tab, Pending(rel, i))
  BY <1>1 DEF References, Coded
<1>4. PICK q \in Nat : /\ rel2 \in Seq(RefType) /\ Len(rel2) = q /\ q >= p
                       /\ \A k \in 1..p : rel2[k] = rel[k]
                       /\ \A k \in 1..q : k \in 1..p \/ (k = q /\ q = p + 1 /\ l.sym # None /\ rel2[k] = ref)
                       /\ l.sym # None => q = p + 1
  <2>1. CASE l.sym = None
    BY <1>2, <2>1
  <2>2. CASE l.sym # None
    <3>1. ref \in RefType
      BY <1>1, <2>2 DEF RefType
    <3>2. rel2 = Append(rel, ref)
      BY <2>2
    <3> HIDE DEF ref
    <3>3. /\ rel2 \in Seq(RefType) /\ Len(rel2) = p + 1 /\ rel2[p + 1] = ref
          /\ \A k \in 1..p : rel2[k] = rel[k]
      BY <3>1, <3>2, AppendProperties
    <3>4. \A k \in 1..p + 1 : k \in 1..p \/ k = p + 1
      BY <1>2
    <3>5. p + 1 \in Nat /\ p + 1 >= p
      BY <1>2
    <3> QED
      BY <2>2, <3>3, <3>4, <3>5
  <2> QED
    BY <2>1, <2>2
<1>5. ref.at = n + 1 /\ ref.name = l.sym
  OBVIOUS
<1> HIDE DEF p, ref
<1>6. \A k \in 1..q : /\ rel2[k].at \in 1..n + 1
                      /\ rel2[k].name = ReadIn(new, rel2[k].at).sym
  BY <1>1, <1>2, <1>3, <1>4, <1>5
<1>7. \A j, k \in 1..q : rel2[j].at = rel2[k].at => j = k
  <2> SUFFICES ASSUME NEW j \in 1..q, NEW k \in 1..q, rel2[j].at = rel2[k].at
               PROVE  j = k
    OBVIOUS
  <2>1. CASE j \in 1..p /\ k \in 1..p
    BY <1>3, <1>4, <2>1
  <2>2. CASE j \notin 1..p \/ k \notin 1..p
    BY <1>1, <1>2, <1>4, <1>5, <2>2
  <2> QED
    BY <2>1, <2>2
<1>8. \A i \in 1..n : Pending(rel2, i) <=> Pending(rel, i)
  <2> TAKE i \in 1..n
  <2>1. Pending(rel, i) <=> \E k \in 1..p : rel[k].at = i
    BY DEF Pending, p
  <2>2. Pending(rel2, i) <=> \E k \in 1..q : rel2[k].at = i
    BY <1>4 DEF Pending
  <2>3. \A k \in 1..p : k \in 1..q /\ rel2[k] = rel[k]
    BY <1>2, <1>4
  <2> QED
    BY <1>1, <1>4, <1>5, <2>1, <2>2, <2>3
<1>9. l.sym # None => Pending(rel2, n + 1)
  <2> SUFFICES ASSUME l.sym # None PROVE Pending(rel2, n + 1)
    OBVIOUS
  <2>1. q \in 1..q /\ q \notin 1..p
    BY <1>2, <1>4
  <2>2. rel2[q].at = n + 1
    BY <1>4, <1>5, <2>1
  <2> QED
    BY <1>4, <2>1, <2>2 DEF Pending
<1>10. \A i \in 1..n + 1 : ReadIn(new, i).sym # None => Pending(rel2, i)
  BY <1>1, <1>3, <1>8, <1>9
<1>11. References("reading", new, tab2, rel2)
  BY <1>1, <1>4, <1>6, <1>7, <1>10 DEF References
<1>12. Coded(new, tab2, rel2)
  <2> SUFFICES ASSUME NEW i \in 1..n + 1
               PROVE  new[i].codes = BytesOf(ReadIn(new, i), tab2, Pending(rel2, i))
    BY <1>1 DEF Coded
  <2>1. CASE i = n + 1
    BY <1>1, <1>9, <2>1 DEF BytesOf
  <2>2. CASE i \in 1..n
    <3>1. new[i].codes = BytesOf(ReadIn(new, i), tab, Pending(rel, i))
      BY <1>1, <1>3, <2>2
    <3>2. ReadIn(new, i).sym = None \/ (Pending(rel, i) /\ Pending(rel2, i))
      BY <1>1, <1>3, <1>8, <2>2
    <3> QED
      BY <3>1, <3>2 DEF BytesOf
  <2> QED
    BY <1>1, <2>1, <2>2
<1> QED
  BY <1>4, <1>6, <1>11, <1>12

\* What the types of the assembler's variables say
LEMMA TypeFacts ==
  ASSUME AsmTypes
  PROVE  /\ lines \in Seq(LineType) /\ Len(lines) \in Nat /\ DOMAIN lines = 1..Len(lines)
         /\ \A i \in 1..Len(lines) : /\ lines[i] \in LineType /\ lines[i].src \in Source
                                     /\ lines[i].addr \in Nat /\ lines[i].codes \in Seq(Byte)
         /\ reltab \in Seq(RefType) /\ Len(reltab) \in Nat
         /\ \A k \in 1..Len(reltab) : /\ reltab[k] \in RefType /\ reltab[k].name \in Labels
                                      /\ reltab[k].at \in 1..Len(lines)
<1>1. /\ lines \in Seq(LineType) /\ reltab \in Seq(RefType)
      /\ \A k \in 1..Len(reltab) : reltab[k].at \in 1..Len(lines)
  BY DEF AsmTypes
<1>2. /\ Len(lines) \in Nat /\ DOMAIN lines = 1..Len(lines)
      /\ \A i \in 1..Len(lines) : lines[i] \in LineType
      /\ Len(reltab) \in Nat /\ \A k \in 1..Len(reltab) : reltab[k] \in RefType
  BY <1>1, LenProperties, ElementOfSeq
<1>3. \A x \in LineType : x.src \in Source /\ x.addr \in Nat /\ x.codes \in Seq(Byte)
  BY DEF LineType
<1>4. \A x \in RefType : x.name \in Labels
  BY DEF RefType
<1> QED
  BY <1>1, <1>2, <1>3, <1>4

\* A line that is listed without an address: refused, undefined or a comment
LEMMA ListStep ==
  ASSUME ParserReads, Assembly, NEW text \in Source, asm = "reading", Len(lines) < MaxLines,
         Lists(text),
         \/ asm' = "refused" /\ Refuses(Parse[text])
         \/ asm' = "undefined" /\ ~Refuses(Parse[text])
         \/ asm' = "reading" /\ Parse[text].kind = "comment"
  PROVE  Assembly'
<1> DEFINE ln == [src |-> text, addr |-> 0, codes |-> <<>>]
           n  == Len(lines)
           l  == Parse[text]
<1>1. ln \in LineType /\ ln.src = text /\ ln.codes = <<>>
  BY DEF LineType
<1>2. /\ lines' = Append(lines, ln) /\ UNCHANGED <<vmaddr, symtab, reltab, image>>
      /\ lines \in Seq(LineType) /\ n \in Nat
  BY TypeFacts DEF Lists, Line, Assembly
<1> HIDE DEF ln, n, l
<1>3. OneMore(lines', lines, ln, n)
  BY <1>1, <1>2, Appended DEF n
<1>4. AsmTypes /\ Refusal(asm, lines) /\ Symbols(lines, symtab, vmaddr)
      /\ References(asm, lines, symtab, reltab) /\ Coded(lines, symtab, reltab)
  BY DEF Assembly
<1>5. AsmTypes'
  <2>1. image = <<>> /\ image' = image
    BY <1>2, <1>4 DEF AsmTypes
  <2>2. Len(lines') <= MaxLines /\ lines' \in Seq(LineType)
    BY <1>3, SourceAssumption DEF OneMore, n
  <2>3. \A k \in 1..Len(reltab) : reltab[k].at \in 1..Len(lines')
    BY <1>3, <1>4, TypeFacts DEF OneMore
  <2> QED
    BY <1>2, <1>4, <2>1, <2>2, <2>3 DEF AsmTypes
<1>6. Refusal(asm', lines')
  <2>1. asm' # "refused" => l.kind # "bad"
    BY DEF Refuses, l
  <2>2. asm' = "refused" => \/ l.kind = "bad"
                            \/ \E i \in 1..n : l.label # None /\ ReadIn(lines, i).label = l.label
    <3> SUFFICES ASSUME l.label # None, symtab[l.label] # None
                 PROVE  \E i \in 1..n : l.label # None /\ ReadIn(lines, i).label = l.label
      BY DEF Refuses, l
    <3>1. l.label \in Labels
      BY ParsedIs DEF l
    <3> QED
      BY <1>4, <3>1 DEF Symbols, n
  <2>3. l = Parse[ln.src] /\ Refusal("reading", lines)
    BY <1>1, <1>4 DEF l
  <2> QED
    BY <1>3, <2>1, <2>2, <2>3, AddRefused
<1>7. Imaged'
  <2>1. asm' # "done"
    OBVIOUS
  <2> QED
    BY <2>1 DEF Imaged
<1>8. ASSUME asm' = "reading"
      PROVE  /\ Symbols(lines', symtab', vmaddr')
             /\ References(asm', lines', symtab', reltab') /\ Coded(lines', symtab', reltab')
  <2>1. l.kind = "comment"
    BY <1>8 DEF l
  <2>2. l = Parse[ln.src] /\ l = Says[ln.src] /\ l.label = None /\ l.sym = None
    BY <1>1, <2>1, ParsedIs DEF l, InLanguage
  <2>3. Symbols(lines', symtab, vmaddr)
    <3>1. symtab \in [Labels -> Nat \cup {None}] /\ vmaddr \in Nat /\ vmaddr \in Long
      BY <1>4 DEF AsmTypes
    <3>2. /\ Says[ln.src].kind = "comment" /\ l.label \in Labels \cup {None}
          /\ l.label # None => symtab[l.label] = None
      BY <2>1, <2>2
    <3>3. /\ symtab = IF l.label = None THEN symtab ELSE [symtab EXCEPT ![l.label] = vmaddr]
          /\ vmaddr = IF Says[ln.src].kind = "comment" THEN vmaddr ELSE ln.addr + Len(ln.codes)
      BY <2>2, <3>2
    <3>4. l = Parse[ln.src]
      BY <2>2
    <3>5. NewLabel(ln, l, symtab, vmaddr, symtab, vmaddr)
      BY <3>1, <3>2, <3>3, <3>4 DEF NewLabel
    <3> QED
      BY <1>3, <1>4, <3>5, AddSymbol
  <2>4. References("reading", lines', symtab, reltab) /\ Coded(lines', symtab, reltab)
    <3>1. \A k \in 1..Len(reltab) : reltab[k].at \in 1..n
      BY <1>4, TypeFacts DEF n
    <3>2. reltab \in Seq(RefType) /\ References("reading", lines, symtab, reltab)
      BY <1>4, TypeFacts
    <3>3. NewReference(ln, l, n, reltab, reltab)
      BY <1>1, <2>1, <2>2, <3>1, <3>2 DEF NewReference
    <3> QED
      BY <1>3, <1>4, <3>2, <3>3, AddReference
  <2> QED
    BY <1>2, <1>8, <2>3, <2>4
<1> QED
  BY <1>5, <1>6, <1>7, <1>8 DEF Assembly

\* A line that is listed with an address
LEMMA PlacesStep ==
  ASSUME ParserReads, Assembly, NEW text \in Source, NEW l, l = Parse[text],
         asm = "reading", Len(lines) < MaxLines, ~Refuses(l), l.kind # "comment",
         NEW addr \in Nat, NEW codes, codes = IF l.kind = "code" THEN Codes(l) ELSE <<>>,
         Places(text, l, addr, codes)
  PROVE  Assembly'
<1>1. CASE asm' = "undefined" /\ Lists(text)
  BY <1>1, ListStep
<1> DEFINE ln == [src |-> text, addr |-> addr, codes |-> codes]
           n  == Len(lines)
<1>2. CASE /\ addr + Len(codes) \in Long /\ lines' = Append(lines, ln)
           /\ vmaddr' = addr + Len(codes) /\ symtab' = Defined(l)
           /\ reltab' = IF l.sym = None THEN reltab
                        ELSE Append(reltab, [at |-> n + 1, name |-> l.sym])
           /\ asm' = "reading" /\ image' = image
  <2>1. /\ l.kind # "bad" /\ l = Says[text] /\ InLanguage(l)
        /\ l.label \in Labels \cup {None} /\ l.sym \in Labels \cup {None}
        /\ (l.label # None => symtab[l.label] = None)
    BY ParsedIs DEF Refuses
  <2>2. codes \in Seq(Byte)
    BY <2>1, CodesType
  <2>3. ln \in LineType /\ ln.src = text /\ ln.addr = addr /\ ln.codes = codes
    BY <2>2 DEF LineType
  <2>4. lines \in Seq(LineType) /\ n \in Nat /\ n < MaxLines
    BY TypeFacts DEF Assembly
  <2>5. AsmTypes /\ Refusal(asm, lines) /\ Symbols(lines, symtab, vmaddr)
        /\ References("reading", lines, symtab, reltab) /\ Coded(lines, symtab, reltab)
    BY DEF Assembly
  <2>6. /\ symtab \in [Labels -> Nat \cup {None}] /\ vmaddr \in Nat /\ vmaddr \in Long
        /\ reltab \in Seq(RefType) /\ \A k \in 1..Len(reltab) : reltab[k].at \in 1..n
        /\ image = <<>>
    BY <2>5 DEF AsmTypes
  <2>7. /\ symtab' = IF l.label = None THEN symtab ELSE [symtab EXCEPT ![l.label] = vmaddr]
        /\ vmaddr' = IF Says[ln.src].kind = "comment" THEN vmaddr ELSE ln.addr + Len(ln.codes)
        /\ l = Parse[ln.src]
    BY <1>2, <2>1, <2>3 DEF Defined
  <2>8. lines' = Append(lines, ln)
    BY <1>2
  <2>9. ln.codes = IF l.kind = "code" THEN Codes(l) ELSE <<>>
    BY <2>3
  <2>10. reltab' = IF l.sym = None THEN reltab
                   ELSE Append(reltab, [at |-> n + 1, name |-> l.sym])
    BY <1>2
  <2> HIDE DEF ln, n
  <2>11. OneMore(lines', lines, ln, n)
    <3> USE DEF n
    <3> QED
      BY ONLY <2>3, <2>4, <2>8, Appended DEF n
  <2>12. Symbols(lines', symtab', vmaddr') /\ symtab' \in [Labels -> Nat \cup {None}]
    <3>1. NewLabel(ln, l, symtab, vmaddr, symtab', vmaddr')
      BY <2>1, <2>6, <2>7 DEF NewLabel
    <3> QED
      BY <2>5, <2>11, <3>1, AddSymbol
  <2>13. /\ reltab' \in Seq(RefType) /\ \A k \in 1..Len(reltab') : reltab'[k].at \in 1..n + 1
         /\ References("reading", lines', symtab', reltab') /\ Coded(lines', symtab', reltab')
    <3>1. NewReference(ln, l, n, reltab, reltab')
      BY <2>1, <2>6, <2>7, <2>9, <2>10 DEF NewReference
    <3> QED
      BY <2>5, <2>11, <3>1, AddReference
  <2>14. Refusal(asm', lines')
    BY <1>2, <2>1, <2>5, <2>7, <2>11, AddRefused
  <2>15. AsmTypes'
    <3>1. /\ Len(lines') = n + 1 /\ lines' \in Seq(LineType) /\ n + 1 <= MaxLines
      BY <2>4, <2>11, SourceAssumption DEF OneMore
    <3>2. vmaddr' \in Nat /\ vmaddr' \in Long
      <4>1. Len(codes) \in Nat
        BY <2>2, LenProperties
      <4> QED
        BY <1>2, <4>1
    <3>3. /\ asm' \in {"reading", "relocating", "done", "refused", "unresolved", "undefined"}
          /\ image' \in Seq(Byte) /\ (asm' # "done" => image' = <<>>)
      BY ONLY <1>2, <2>6, EmptySeq
    <3>4. lines' \in Seq(LineType) /\ Len(lines') <= MaxLines
      BY ONLY <3>1
    <3>5. symtab' \in [Labels -> Nat \cup {None}] /\ reltab' \in Seq(RefType)
      BY ONLY <2>12, <2>13
    <3>6. \A k \in 1..Len(reltab') : reltab'[k].at \in 1..Len(lines')
      BY ONLY <2>13, <3>1
    <3> QED
      BY ONLY <3>2, <3>3, <3>4, <3>5, <3>6, Zenon DEF AsmTypes
  <2>16. Imaged'
    <3>1. asm' # "done"
      BY <1>2
    <3> QED
      BY <3>1 DEF Imaged
  <2> QED
    BY <1>2, <2>12, <2>13, <2>14, <2>15, <2>16 DEF Assembly
<1> QED
  BY <1>1, <1>2 DEF Places, Line

\* A line of the file
LEMMA ReadLineStep ==
  ASSUME ParserReads, Assembly, NEW text \in Source, ReadLine(text, Parse[text])
  PROVE  Assembly'
<1> DEFINE l == Parse[text]
<1>1. asm = "reading" /\ Len(lines) < MaxLines
  BY DEF ReadLine
<1>2. CASE Refuses(l) /\ asm' = "refused" /\ Lists(text)
  BY <1>1, <1>2, ListStep
<1>3. CASE ~Refuses(l) /\ l.kind = "comment" /\ Lists(text) /\ UNCHANGED asm
  BY <1>1, <1>3, ListStep
<1>4. CASE ~Refuses(l) /\ l.kind = "align" /\ l.imm = 0 /\ asm' = "undefined" /\ Lists(text)
  BY <1>1, <1>4, ListStep
<1>5. vmaddr \in Nat
  BY DEF Assembly, AsmTypes
<1>6. CASE ~Refuses(l) /\ l.kind = "align" /\ l.imm # 0 /\ Places(text, l, Aligned(l.imm), <<>>)
  <2>1. l.imm \in Nat /\ l.imm > 0
    BY <1>6, SourceAssumption
  <2>2. Aligned(l.imm) \in Nat
    <3> DEFINE v == l.imm
    <3>1. v \in Nat /\ v > 0
      BY <2>1
    <3> HIDE DEF v
    <3>2. vmaddr % v \in 0..v - 1
      BY <1>5, <3>1
    <3>3. Aligned(v) \in Nat
      BY <1>5, <3>1, <3>2 DEF Aligned
    <3> QED
      BY <3>3 DEF v
  <2> HIDE DEF l
  <2>3. l = Parse[text] /\ l.kind # "comment" /\ <<>> = IF l.kind = "code" THEN Codes(l) ELSE <<>>
    BY <1>6 DEF l
  <2> QED
    BY <1>1, <1>6, <2>2, <2>3, PlacesStep
<1>7. CASE ~Refuses(l) /\ l.kind = "pos" /\ Places(text, l, l.imm, <<>>)
  <2>1. l.imm \in Nat
    BY <1>7, SourceAssumption
  <2> HIDE DEF l
  <2>3. l = Parse[text] /\ l.kind # "comment" /\ <<>> = IF l.kind = "code" THEN Codes(l) ELSE <<>>
    BY <1>7 DEF l
  <2> QED
    BY <1>1, <1>7, <2>1, <2>3, PlacesStep
<1>8. CASE ~Refuses(l) /\ l.kind = "label" /\ Places(text, l, vmaddr, <<>>)
  <2> HIDE DEF l
  <2>3. l = Parse[text] /\ l.kind # "comment" /\ <<>> = IF l.kind = "code" THEN Codes(l) ELSE <<>>
    BY <1>8 DEF l
  <2> QED
    BY <1>1, <1>5, <1>8, <2>3, PlacesStep
<1>9. CASE ~Refuses(l) /\ l.kind = "code" /\ Places(text, l, vmaddr, Codes(l))
  <2> HIDE DEF l
  <2>3. l = Parse[text] /\ l.kind # "comment" /\ Codes(l) = IF l.kind = "code" THEN Codes(l) ELSE <<>>
    BY <1>9 DEF l
  <2> QED
    BY <1>1, <1>5, <1>9, <2>3, PlacesStep
<1> QED
  BY <1>2, <1>3, <1>4, <1>6, <1>7, <1>8, <1>9 DEF ReadLine

\* The end of the file
LEMMA EndOfFileStep ==
  ASSUME Assembly, EndOfFile
  PROVE  Assembly'
<1>1. /\ asm = "reading" /\ asm' = "relocating"
      /\ UNCHANGED <<lines, vmaddr, symtab, reltab, image>>
  BY DEF EndOfFile
<1>2. AsmTypes'
  BY <1>1 DEF Assembly, AsmTypes
<1>3. Refusal(asm', lines')
  BY <1>1 DEF Assembly, Refusal
<1>4. Imaged'
  BY <1>1 DEF Imaged
<1>5. References(asm', lines, symtab, reltab)
  BY <1>1 DEF Assembly, References
<1> QED
  BY <1>1, <1>2, <1>3, <1>4, <1>5 DEF Assembly

\* Two lists of n lines that differ in the bytes of line i at most
SameLines(f, g, n, i) ==
  /\ n \in Nat /\ Len(f) = n /\ Len(g) = n /\ i \in 1..n
  /\ \A j \in 1..n : /\ g[j].src = f[j].src /\ g[j].addr = f[j].addr
                     /\ Len(g[j].codes) = Len(f[j].codes)
                     /\ (j # i => g[j] = f[j])

\* They are read alike and have the same labels.
LEMMA SameTable ==
  ASSUME NEW f, NEW g, NEW n, NEW i, SameLines(f, g, n, i)
  PROVE  /\ \A j \in 1..n : ReadIn(g, j) = ReadIn(f, j)
         /\ \A a : Refusal(a, f) => Refusal(a, g)
         /\ \A tab, addr : Symbols(f, tab, addr) => Symbols(g, tab, addr)
<1>1. n \in Nat /\ Len(f) = n /\ Len(g) = n
  BY DEF SameLines
<1>2. \A j \in 1..n : ReadIn(g, j) = ReadIn(f, j)
  BY DEF SameLines, ReadIn
<1>3. \A j \in 1..n + 1 : ReachedIn(g, j) = ReachedIn(f, j)
  <2>1. \A j \in 1..n : /\ g[j].src = f[j].src /\ g[j].addr = f[j].addr
                        /\ Len(g[j].codes) = Len(f[j].codes)
    BY DEF SameLines
  <2> QED
    BY ONLY <1>1, <2>1, SameReach, Zenon
<1>4. \A j \in 1..n : j \in 1..n + 1
  BY <1>1
<1>5. n + 1 \in 1..n + 1
  BY <1>1
<1>6. ASSUME NEW a, Refusal(a, f)
      PROVE  Refusal(a, g)
  <2>1. n > 0 /\ n \in 1..n /\ \A j \in 1..n - 1 : j \in 1..n
    BY <1>1 DEF SameLines
  <2> QED
    BY <1>1, <1>2, <1>6, <2>1 DEF Refusal
<1>7. ASSUME NEW tab, NEW addr, Symbols(f, tab, addr)
      PROVE  Symbols(g, tab, addr)
  <2>1. /\ \A j \in 1..n : ReadIn(f, j).label # None => tab[ReadIn(f, j).label] # None
        /\ \A j, k \in 1..n :
             ReadIn(f, j).label # None /\ ReadIn(f, j).label = ReadIn(f, k).label => j = k
        /\ addr = ReachedIn(f, n + 1)
    BY <1>1, <1>7 DEF Symbols
  <2>2. \A name \in Labels : tab[name] # None =>
          /\ tab[name] \in Long
          /\ \E j \in 1..n : ReadIn(f, j).label = name /\ tab[name] = ReachedIn(f, j)
    BY <1>1, <1>7 DEF Symbols
  <2>3. /\ \A j \in 1..n : ReadIn(g, j).label # None => tab[ReadIn(g, j).label] # None
        /\ \A j, k \in 1..n :
             ReadIn(g, j).label # None /\ ReadIn(g, j).label = ReadIn(g, k).label => j = k
    BY <1>2, <2>1
  <2>4. \A name \in Labels : tab[name] # None =>
          /\ tab[name] \in Long
          /\ \E j \in 1..n : ReadIn(g, j).label = name /\ tab[name] = ReachedIn(g, j)
    BY <1>2, <1>3, <1>4, <2>2
  <2>5. addr = ReachedIn(g, n + 1)
    BY <1>3, <1>5, <2>1
  <2> QED
    BY <1>1, <2>3, <2>4, <2>5 DEF Symbols
<1> QED
  BY <1>2, <1>6, <1>7

\* A list of references without its first one
LEMMA TailIs ==
  ASSUME NEW rel \in Seq(RefType), rel # <<>>
  PROVE  \E p \in Nat : /\ p = Len(rel) /\ p > 0 /\ Tail(rel) \in Seq(RefType)
                        /\ Len(Tail(rel)) = p - 1
                        /\ \A k \in 1..p - 1 : Tail(rel)[k] = rel[k + 1]
                        /\ Head(rel) = rel[1] /\ Head(rel) \in RefType
BY HeadTailProperties, LenProperties, ElementOfSeq

\* The first pending reference is resolved.
LEMMA ReferenceFilled ==
  ASSUME NEW f, NEW g, NEW n, NEW i, SameLines(f, g, n, i),
         NEW tab, NEW rel \in Seq(RefType), rel # <<>>,
         \A k \in 1..Len(rel) : rel[k].at \in 1..n,
         References("relocating", f, tab, rel), Coded(f, tab, rel),
         i = Head(rel).at,
         ReadIn(f, i).kind = "code", ReadIn(f, i).sym # None, tab[ReadIn(f, i).sym] # None,
         g[i].codes = Filled(Codes(ReadIn(f, i)), ReadIn(f, i), tab[ReadIn(f, i).sym])
  PROVE  References("relocating", g, tab, Tail(rel)) /\ Coded(g, tab, Tail(rel))
<1> DEFINE t == Tail(rel)
<1>1. PICK p \in Nat : /\ p = Len(rel) /\ p > 0 /\ Len(t) = p - 1
                       /\ \A k \in 1..p - 1 : t[k] = rel[k + 1]
                       /\ Head(rel) = rel[1]
  BY TailIs
<1> HIDE DEF t
<1>2. n \in Nat /\ Len(f) = n /\ Len(g) = n /\ i \in 1..n
      /\ \A j \in 1..n : j # i => g[j] = f[j]
  BY DEF SameLines
<1>3. \A j \in 1..n : ReadIn(g, j) = ReadIn(f, j)
  BY SameTable
<1>4. /\ \A k \in 1..p : rel[k].name = ReadIn(f, rel[k].at).sym /\ rel[k].at \in 1..n
      /\ \A j, k \in 1..p : rel[j].at = rel[k].at => j = k
      /\ \A j \in 1..n : ReadIn(f, j).sym # None /\ tab[ReadIn(f, j).sym] = None => Pending(rel, j)
  BY <1>1, <1>2 DEF References
<1>5. \A j \in 1..n : f[j].codes = BytesOf(ReadIn(f, j), tab, Pending(rel, j))
  BY <1>2 DEF Coded
<1>6. \A k \in 1..p - 1 : k + 1 \in 1..p /\ k + 1 # 1 /\ t[k] = rel[k + 1]
  BY <1>1
<1>7. 1 \in 1..p /\ rel[1].at = i
  BY <1>1
<1>8. \A k \in 1..p : k # 1 => k - 1 \in 1..p - 1 /\ t[k - 1] = rel[k]
  <2> TAKE k \in 1..p
  <2> SUFFICES ASSUME k # 1 PROVE k - 1 \in 1..p - 1 /\ t[k - 1] = rel[k]
    OBVIOUS
  <2>1. PICK j : j = k - 1
    OBVIOUS
  <2>2. j \in 1..p - 1 /\ j + 1 = k
    BY <2>1
  <2> QED
    BY <1>6, <2>1, <2>2
<1>9. ~Pending(t, i)
  <2>1. \A k \in 1..p - 1 : t[k].at # i
    BY <1>4, <1>6, <1>7
  <2> QED
    BY <1>1, <2>1 DEF Pending
<1>10. \A j \in 1..n : j # i => (Pending(t, j) <=> Pending(rel, j))
  <2> TAKE j \in 1..n
  <2> SUFFICES ASSUME j # i PROVE Pending(t, j) <=> Pending(rel, j)
    OBVIOUS
  <2>1. Pending(t, j) <=> \E k \in 1..p - 1 : t[k].at = j
    BY <1>1 DEF Pending
  <2>2. Pending(rel, j) <=> \E k \in 1..p : rel[k].at = j
    BY <1>1 DEF Pending
  <2>3. Pending(t, j) => Pending(rel, j)
    BY <1>6, <2>1, <2>2
  <2>4. Pending(rel, j) => Pending(t, j)
    BY <1>7, <1>8, <2>1, <2>2
  <2> QED
    BY <2>3, <2>4
<1>11. References("relocating", g, tab, t)
  <2>1. \A k \in 1..p - 1 : t[k].name = ReadIn(g, t[k].at).sym
    <3> SUFFICES ASSUME NEW k \in 1..p - 1 PROVE t[k].name = ReadIn(g, t[k].at).sym
      OBVIOUS
    <3>1. PICK j : j = k + 1
      OBVIOUS
    <3>2. j \in 1..p /\ t[k] = rel[j]
      BY <1>6, <3>1
    <3> QED
      BY ONLY <1>3, <1>4, <3>2
  <2>2. \A j, k \in 1..p - 1 : t[j].at = t[k].at => j = k
    <3> SUFFICES ASSUME NEW j \in 1..p - 1, NEW k \in 1..p - 1, t[j].at = t[k].at
                 PROVE  j = k
      OBVIOUS
    <3>1. j + 1 = k + 1
      BY <1>4, <1>6, Zenon
    <3> QED
      BY <3>1
  <2>3. \A j \in 1..n : ReadIn(g, j).sym # None /\ tab[ReadIn(g, j).sym] = None => Pending(t, j)
    BY <1>2, <1>3, <1>4, <1>10
  <2> QED
    BY <1>1, <1>2, <2>1, <2>2, <2>3 DEF References
<1>12. Coded(g, tab, t)
  <2> SUFFICES ASSUME NEW j \in 1..n
               PROVE  g[j].codes = BytesOf(ReadIn(g, j), tab, Pending(t, j))
    BY <1>2 DEF Coded
  <2>1. CASE j = i
    BY <1>2, <1>3, <1>9, <2>1 DEF BytesOf
  <2>2. CASE j # i
    <3>1. g[j] = f[j] /\ ReadIn(g, j) = ReadIn(f, j) /\ (Pending(t, j) <=> Pending(rel, j))
      BY <1>2, <1>3, <1>10, <2>2
    <3>2. f[j].codes = BytesOf(ReadIn(f, j), tab, Pending(rel, j))
      BY <1>5
    <3> QED
      BY <3>1, <3>2 DEF BytesOf
  <2> QED
    BY <2>1, <2>2
<1> QED
  BY <1>11, <1>12 DEF t

\* One reference
LEMMA RelocateStep ==
  ASSUME ParserReads, Assembly, Relocate
  PROVE  Assembly'
<1> DEFINE rel == Head(reltab)
           n   == Len(lines)
<1>1. asm = "relocating" /\ reltab # <<>> /\ UNCHANGED <<vmaddr, symtab, image>>
  BY DEF Relocate
<1>2. /\ AsmTypes /\ Refusal("relocating", lines) /\ Symbols(lines, symtab, vmaddr)
      /\ References("relocating", lines, symtab, reltab) /\ Coded(lines, symtab, reltab)
  BY <1>1 DEF Assembly
<1>3. CASE asm' = "unresolved" /\ UNCHANGED <<lines, reltab>>
  <2>1. AsmTypes'
    BY <1>1, <1>2, <1>3 DEF AsmTypes
  <2>2. Refusal(asm', lines')
    BY <1>2, <1>3 DEF Refusal
  <2>3. Imaged'
    BY <1>3 DEF Imaged
  <2> QED
    BY <1>3, <2>1, <2>2, <2>3 DEF Assembly
<1> DEFINE i == rel.at
           l == Parse[lines[i].src]
<1>4. CASE /\ symtab[rel.name] # None
           /\ lines' = [lines EXCEPT ![i].codes = Filled(@, l, symtab[rel.name])]
           /\ reltab' = Tail(reltab) /\ asm' = asm
  <2>1. /\ lines \in Seq(LineType) /\ n \in Nat /\ DOMAIN lines = 1..n
        /\ \A j \in 1..n : lines[j] \in LineType /\ lines[j].src \in Source
        /\ reltab \in Seq(RefType) /\ Len(reltab) \in Nat /\ Len(reltab) > 0
        /\ \A k \in 1..Len(reltab) : reltab[k] \in RefType /\ reltab[k].name \in Labels
                                     /\ reltab[k].at \in 1..n
        /\ rel = reltab[1]
    BY <1>1, <1>2, TypeFacts, TailIs
  <2>2. i \in 1..n /\ rel.name \in Labels /\ l = ReadIn(lines, i) /\ rel.name = l.sym
    <3>1. 1 \in 1..Len(reltab)
      BY <2>1
    <3>2. \A k \in 1..Len(reltab) : reltab[k].name = ReadIn(lines, reltab[k].at).sym
      BY <1>2 DEF References
    <3>3. reltab[1].name = ReadIn(lines, reltab[1].at).sym
      BY <3>1, <3>2, Zenon
    <3> QED
      BY <2>1, <3>3 DEF ReadIn
  <2>3. l.kind = "code" /\ l.sym # None /\ InLanguage(l)
    <3>1. l.kind # "bad"
      BY <1>2, <2>2 DEF Refusal
    <3>2. InLanguage(l)
      BY <2>1, <2>2, <3>1, ParsedIs
    <3>3. l.sym # None
      BY <2>2, SourceAssumption
    <3> HIDE DEF l
    <3> QED
      BY <3>2, <3>3 DEF InLanguage
  <2>4. lines[i].codes = Codes(l)
    <3>1. Pending(reltab, i)
      <4>1. 1 \in 1..Len(reltab)
        BY <2>1
      <4> QED
        BY <2>1, <4>1 DEF Pending
    <3>2. lines[i].codes = BytesOf(ReadIn(lines, i), symtab, Pending(reltab, i))
      BY <1>2, <2>2 DEF Coded
    <3> QED
      BY <2>2, <2>3, <3>1, <3>2 DEF BytesOf
  <2>5. symtab[rel.name] \in Nat
    BY <1>2, <1>4, <2>2, Zenon DEF AsmTypes
  <2> DEFINE c == Filled(Codes(l), l, symtab[l.sym])
  <2>6. c \in Seq(Byte) /\ Len(c) = Len(lines[i].codes)
    <3>1. symtab[l.sym] \in Int
      BY <2>2, <2>5
    <3> HIDE DEF l, i
    <3> QED
      BY <2>3, <2>4, <3>1, FilledIs
  <2>7. lines' = [lines EXCEPT ![i] = [lines[i] EXCEPT !.codes = c]]
    BY <1>4, <2>2, <2>4
  <2> HIDE DEF c, l, i
  <2>8. [lines[i] EXCEPT !.codes = c] \in LineType
    BY <2>1, <2>2, <2>6 DEF LineType
  <2>9. /\ lines'[i] = [lines[i] EXCEPT !.codes = c]
        /\ lines'[i].src = lines[i].src /\ lines'[i].addr = lines[i].addr /\ lines'[i].codes = c
        /\ \A j \in 1..n : j # i => lines'[j] = lines[j]
    <3>1. i \in DOMAIN lines
      BY <2>1, <2>2
    <3>2. lines'[i] = [lines[i] EXCEPT !.codes = c]
      BY <2>7, <3>1
    <3>3. \A j \in 1..n : j # i => lines'[j] = lines[j]
      BY <2>1, <2>7
    <3>4. lines[i] \in LineType
      BY <2>1, <2>2
    <3>5. /\ [lines[i] EXCEPT !.codes = c].src = lines[i].src
          /\ [lines[i] EXCEPT !.codes = c].addr = lines[i].addr
          /\ [lines[i] EXCEPT !.codes = c].codes = c
      BY <3>4 DEF LineType
    <3> QED
      BY <3>2, <3>3, <3>5
  <2>10. lines' \in Seq(LineType) /\ Len(lines') = n
    BY <2>1, <2>2, <2>7, <2>8, ExceptSeq
  <2>11. SameLines(lines, lines', n, i)
    BY <2>1, <2>2, <2>6, <2>9, <2>10 DEF SameLines
  <2>12. Symbols(lines', symtab, vmaddr) /\ Refusal("relocating", lines')
    BY <1>2, <2>11, SameTable
  <2>13. References("relocating", lines', symtab, Tail(reltab)) /\ Coded(lines', symtab, Tail(reltab))
    <3>1. i = Head(reltab).at
      BY DEF i
    <3>2. /\ ReadIn(lines, i).kind = "code" /\ ReadIn(lines, i).sym # None
          /\ symtab[ReadIn(lines, i).sym] # None
          /\ lines'[i].codes = Filled(Codes(ReadIn(lines, i)), ReadIn(lines, i), symtab[ReadIn(lines, i).sym])
      BY <1>4, <2>2, <2>3, <2>9 DEF c
    <3>3. \A k \in 1..Len(reltab) : reltab[k].at \in 1..n
      BY <2>1
    <3> QED
      BY <1>1, <1>2, <2>1, <2>11, <3>1, <3>2, <3>3, ReferenceFilled
  <2>14. AsmTypes'
    <3>1. PICK p \in Nat : /\ p = Len(reltab) /\ p > 0 /\ Tail(reltab) \in Seq(RefType)
                           /\ Len(Tail(reltab)) = p - 1
                           /\ \A k \in 1..p - 1 : Tail(reltab)[k] = reltab[k + 1]
      BY <1>1, <2>1, TailIs
    <3>2. \A k \in 1..p - 1 : k + 1 \in 1..p
      OBVIOUS
    <3>3. reltab' \in Seq(RefType) /\ \A k \in 1..Len(reltab') : reltab'[k].at \in 1..n
      BY <1>4, <2>1, <3>1, <3>2
    <3> QED
      BY <1>1, <1>2, <1>4, <2>10, <3>3 DEF AsmTypes
  <2>15. Imaged'
    BY <1>1, <1>4 DEF Imaged
  <2> QED
    BY <1>1, <1>4, <2>12, <2>13, <2>14, <2>15 DEF Assembly
<1> QED
  BY <1>3, <1>4 DEF Relocate

\* A byte of the image
LEMMA ByteType ==
  ASSUME AsmTypes, NEW a \in Int
  PROVE  ByteAt(a) \in Byte
<1> DEFINE S == {i \in CodeLines : Covers(i, a)}
           n == Len(lines)
<1>1. /\ n \in Nat /\ DOMAIN lines = 1..n
      /\ \A i \in 1..n : lines[i].addr \in Nat /\ lines[i].codes \in Seq(Byte)
  BY TypeFacts
<1>2. S \in SUBSET (1..n)
  BY <1>1 DEF CodeLines
<1>3. CASE S = {}
  BY <1>3 DEF ByteAt, Byte
<1>4. CASE S # {}
  <2> DEFINE i == Latest(S)
  <2>1. i \in S
    <3> HIDE DEF S, n
    <3> QED
      BY <1>1, <1>2, <1>4, LatestIs
  <2>2. ByteAt(a) = lines[i].codes[a - lines[i].addr + 1]
    BY <1>4 DEF ByteAt, Latest
  <2>3. /\ i \in 1..n /\ lines[i].addr <= a /\ a < lines[i].addr + Len(lines[i].codes)
        /\ lines[i].addr \in Nat /\ lines[i].codes \in Seq(Byte)
    BY <1>1, <1>2, <2>1 DEF Covers, End
  <2> HIDE DEF i
  <2>4. PICK c, b : c = lines[i].codes /\ b = lines[i].addr
    OBVIOUS
  <2>5. Len(c) \in Nat /\ a - b + 1 \in 1..Len(c)
    BY <2>3, <2>4, LenProperties
  <2>6. c[a - b + 1] \in Byte
    BY <2>3, <2>4, <2>5, ElementOfSeq
  <2> QED
    BY <2>2, <2>4, <2>6
<1> QED
  BY <1>3, <1>4

\* The image is a function of the list.
LEMMA SameImage ==
  ASSUME UNCHANGED lines
  PROVE  /\ CodeLines' = CodeLines /\ FileSize' = FileSize
         /\ \A i : End(i)' = End(i)
         /\ \A a : ByteAt(a)' = ByteAt(a)
<1>1. \A i : End(i)' = End(i)
  BY DEF End
<1>2. CodeLines' = CodeLines
  BY DEF CodeLines
<1>3. FileSize' = FileSize
  BY <1>2 DEF FileSize, End
<1>4. \A a : ByteAt(a)' = ByteAt(a)
  BY <1>2 DEF ByteAt, Covers, End
<1> QED
  BY <1>1, <1>2, <1>3, <1>4

\* Lines with bytes have a place.
LEMMA EndType ==
  ASSUME AsmTypes, NEW i \in CodeLines
  PROVE  /\ lines[i].addr \in Nat /\ Len(lines[i].codes) \in Nat /\ End(i) \in Nat
         /\ i \in 1..Len(lines) /\ End(i) = lines[i].addr + Len(lines[i].codes)
BY TypeFacts, LenProperties DEF CodeLines, End

\* The size of the file is a number, if not a natural one.
LEMMA FileSizeType == AsmTypes => FileSize \in Int
<1> SUFFICES ASSUME AsmTypes PROVE FileSize \in Int
  OBVIOUS
<1>1. CASE CodeLines = {}
  BY <1>1 DEF FileSize
<1>2. CASE CodeLines # {}
  <2> DEFINE last == Latest(CodeLines)
  <2>1. Len(lines) \in Nat /\ CodeLines \in SUBSET (1..Len(lines))
    BY TypeFacts DEF CodeLines
  <2>2. last \in CodeLines
    BY <1>2, <2>1, LatestIs
  <2>3. FileSize = SignedInt(End(last))
    BY <1>2 DEF FileSize, Latest
  <2> HIDE DEF last
  <2>4. End(last) \in Nat
    BY <2>2, EndType
  <2>5. 2 ^ (4 * LongBytes - 1) \in Nat /\ 2 ^ (4 * LongBytes - 1) > 0
    BY Width
  <2> QED
    BY <2>3, <2>4, <2>5 DEF SignedInt
<1> QED
  BY <1>1, <1>2

\* The image
LEMMA BinfileStep ==
  ASSUME Assembly, Binfile
  PROVE  Assembly'
<1>1. /\ asm = "relocating" /\ reltab = <<>>
      /\ UNCHANGED <<lines, vmaddr, symtab, reltab>>
  BY DEF Binfile
<1>2. /\ AsmTypes /\ Refusal("relocating", lines) /\ Symbols(lines, symtab, vmaddr)
      /\ References("relocating", lines, symtab, reltab) /\ Coded(lines, symtab, reltab)
  BY <1>1 DEF Assembly
<1>3. CASE asm' = "undefined" /\ UNCHANGED image
  <2>1. AsmTypes'
    BY <1>1, <1>2, <1>3 DEF AsmTypes
  <2>2. Refusal(asm', lines')
    BY <1>1, <1>2, <1>3 DEF Refusal
  <2>3. Imaged'
    BY <1>3 DEF Imaged
  <2> QED
    BY <1>3, <2>1, <2>2, <2>3 DEF Assembly
<1>4. CASE /\ \A i \in CodeLines : End(i) <= FileSize
           /\ asm' = "done" /\ image' = [k \in 1..FileSize |-> ByteAt(k - 1)]
  <2>1. FileSize \in Nat
    <3>1. FileSize \in Int
      BY <1>2, FileSizeType
    <3>2. CASE CodeLines = {}
      BY <3>2 DEF FileSize
    <3>3. CASE CodeLines # {}
      <4>1. PICK i \in CodeLines : TRUE
        BY <3>3
      <4>2. End(i) \in Nat
        BY <1>2, EndType
      <4> QED
        BY <1>4, <3>1, <4>2
    <3> QED
      BY <3>2, <3>3
  <2>2. image' \in Seq(Byte)
    <3>1. \A k \in 1..FileSize : ByteAt(k - 1) \in Byte
      <4> TAKE k \in 1..FileSize
      <4>1. k - 1 \in Int
        BY <2>1
      <4> QED
        BY <1>2, <4>1, ByteType
    <3>2. image' \in [1..FileSize -> Byte]
      BY <1>4, <3>1
    <3> QED
      BY <2>1, <3>2
  <2>3. AsmTypes'
    BY <1>1, <1>2, <1>4, <2>2 DEF AsmTypes
  <2>4. Refusal(asm', lines')
    BY <1>1, <1>2, <1>4 DEF Refusal
  <2>5. References(asm', lines', symtab', reltab')
    BY <1>1, <1>2, <1>4 DEF References
  <2>6. Imaged'
    BY <1>1, <1>4, SameImage DEF Imaged
  <2> QED
    BY <1>1, <1>2, <1>4, <2>3, <2>4, <2>5, <2>6 DEF Assembly
<1> QED
  BY <1>3, <1>4 DEF Binfile

\* The assembler rests.
LEMMA AsmRests ==
  ASSUME Assembly, UNCHANGED asmVars
  PROVE  Assembly'
<1>1. UNCHANGED <<asm, lines, vmaddr, symtab, reltab, image>>
  BY DEF asmVars
<1>2. Imaged'
  BY <1>1, SameImage DEF Assembly, Imaged
<1>3. AsmTypes'
  BY <1>1 DEF Assembly, AsmTypes
<1> QED
  BY <1>1, <1>2, <1>3 DEF Assembly

\* The empty list
LEMMA AssemblyInit == AsmInit => Assembly
<1> SUFFICES ASSUME AsmInit PROVE Assembly
  OBVIOUS
<1>1. /\ asm = "reading" /\ lines = <<>> /\ vmaddr = 0
      /\ symtab = [l \in Labels |-> None] /\ reltab = <<>> /\ image = <<>>
  BY DEF AsmInit
<1>2. AsmTypes
  BY <1>1, SourceAssumption, MemoryFits DEF AsmTypes
<1>3. Len(lines) = 0 /\ 1..0 = {} /\ Len(reltab) = 0 /\ lines = <<>>
  BY <1>1
<1>4. Refusal(asm, lines)
  BY <1>1, <1>3 DEF Refusal
<1>5. Imaged
  BY <1>1 DEF Imaged
<1>6. Symbols(lines, symtab, vmaddr)
  <2>1. Before(lines, 0 + 1) = {}
    BY DEF Before
  <2>2. ReachedIn(lines, 0 + 1) = 0
    BY <2>1 DEF ReachedIn
  <2>3. \A name \in Labels : symtab[name] = None
    BY <1>1
  <2> QED
    BY <1>1, <1>3, <2>2, <2>3 DEF Symbols
<1>7. References(asm, lines, symtab, reltab)
  BY <1>3 DEF References
<1>8. Coded(lines, symtab, reltab)
  BY <1>3 DEF Coded
<1> QED
  BY <1>2, <1>4, <1>5, <1>6, <1>7, <1>8 DEF Assembly

----------------------------------------------------------------------------
\* The whole: the simulator is off until the assembler is done.
Whole == Assembly /\ Machine /\ (asm # "done" => stat = "off")

\* The image is loaded into the memory.
LEMMA LoadType ==
  ASSUME AsmTypes, Machine, Load(image)
  PROVE  Machine'
<1>1. m' \in [0..MemSize - 1 -> Byte]
  <2>1. CASE /\ Len(image) < MemSize
             /\ m' = [a \in 0..MemSize - 1 |-> IF a < Len(image) THEN image[a + 1] ELSE 0]
    <3>1. \A a \in 0..MemSize - 1 : (IF a < Len(image) THEN image[a + 1] ELSE 0) \in Byte
      <4> TAKE a \in 0..MemSize - 1
      <4>1. image \in Seq(Byte) /\ Len(image) \in Nat
        BY LenProperties DEF AsmTypes
      <4>2. a < Len(image) => a + 1 \in 1..Len(image)
        BY <4>1, MemoryFits
      <4>3. a < Len(image) => image[a + 1] \in Byte
        BY <4>1, <4>2, ElementOfSeq
      <4>4. 0 \in Byte
        BY DEF Byte
      <4> QED
        BY <4>3, <4>4
    <3> QED
      BY <2>1, <3>1
  <2>2. CASE m' = m
    BY <2>2 DEF Machine
  <2> QED
    BY <2>1, <2>2 DEF Load
<1>2. stat' \in {"AOK", "too large"} /\ UNCHANGED <<pc, r, cc, steps>>
  BY DEF Load
<1> QED
  BY <1>1, <1>2 DEF Machine

\* Any step of the assembler
LEMMA AsmStep ==
  ASSUME ParserReads, Assembly, AsmNext
  PROVE  Assembly'
<1>1. CASE \E text \in Source : ReadLine(text, Parse[text])
  BY <1>1, ReadLineStep
<1> QED
  BY <1>1, EndOfFileStep, RelocateStep, BinfileStep DEF AsmNext

\* Before the first step, after each, and always
LEMMA WholeInit == Init => Whole
<1> SUFFICES ASSUME Init PROVE Whole
  OBVIOUS
<1>1. Assembly
  BY AssemblyInit DEF Init
<1>2. Machine /\ stat = "off"
  <2>1. 0 \in Long /\ 0 \in Byte /\ 0 \in 0..MaxSteps
    BY MemoryFits DEF Byte
  <2> QED
    BY <2>1 DEF Init, SimInit, Machine, DEFAULT_CC
<1> QED
  BY <1>1, <1>2 DEF Whole

\* A step of either program keeps it.
LEMMA WholeStep ==
  ASSUME ParserReads, Whole, [Next]_<<asmVars, simVars>>
  PROVE  Whole'
<1>1. Assembly /\ Machine /\ (asm # "done" => stat = "off")
  BY DEF Whole
<1>2. CASE AsmNext /\ UNCHANGED simVars
  <2>1. Assembly'
    BY <1>1, <1>2, AsmStep
  <2>2. asm # "done"
    BY <1>2 DEF AsmNext, ReadLine, EndOfFile, Relocate, Binfile
  <2>3. Machine' /\ stat' = "off"
    BY <1>1, <1>2, <2>2 DEF Machine, simVars
  <2> QED
    BY <2>1, <2>3 DEF Whole
<1>3. CASE asm = "done" /\ Load(image) /\ UNCHANGED asmVars
  <2>1. Assembly' /\ asm' = "done"
    BY <1>1, <1>3, AsmRests DEF asmVars
  <2>2. Machine'
    BY <1>1, <1>3, LoadType DEF Assembly
  <2> QED
    BY <2>1, <2>2 DEF Whole
<1>4. CASE nexti /\ UNCHANGED asmVars
  <2>1. asm = "done"
    BY <1>1, <1>4 DEF nexti
  <2>2. Assembly' /\ asm' = "done"
    BY <1>1, <1>4, <2>1, AsmRests DEF asmVars
  <2>3. Machine'
    BY <1>1, <1>4, NextiType
  <2> QED
    BY <2>2, <2>3 DEF Whole
<1>5. CASE UNCHANGED <<asmVars, simVars>>
  <2>1. Assembly'
    BY <1>1, <1>5, AsmRests
  <2>2. Machine' /\ asm' = asm /\ stat' = stat
    BY <1>1, <1>5 DEF Machine, simVars, asmVars
  <2> QED
    BY <1>1, <2>1, <2>2 DEF Whole
<1> QED
  BY <1>2, <1>3, <1>4, <1>5 DEF Next

\* So it always holds.
LEMMA WholeInv ==
  ASSUME ParserReads
  PROVE  Spec => []Whole
<1>1. Whole /\ [Next]_<<asmVars, simVars>> => Whole'
  BY WholeStep
<1> QED
  BY <1>1, WholeInit, PTL DEF Spec

(***************************************************************************)
(* Whatever the program and whatever bytes it executes, the tables of the  *)
(* assembler and the state of the simulator keep their types, and nothing  *)
(* is loaded before the assembler is done (set_reg_val, y64sim.c:156-160,  *)
(* for REG_NONE).                                                          *)
(***************************************************************************)
THEOREM Types ==
  ASSUME ParserReads
  PROVE  Spec => []TypeOK
<1>1. Whole => TypeOK
  <2> SUFFICES ASSUME Whole PROVE TypeOK
    OBVIOUS
  <2>1. AsmTypes /\ Machine /\ (asm # "done" => stat = "off")
    BY DEF Whole, Assembly
  <2>2. DOMAIN reltab = 1..Len(reltab) /\ DOMAIN lines = 1..Len(lines)
    BY <2>1, LenProperties DEF AsmTypes
  <2> QED
    BY <2>1, <2>2 DEF AsmTypes, Machine, TypeOK
<1> QED
  BY <1>1, WholeInv, PTL

----------------------------------------------------------------------------
(* What follows from it. *)

(***************************************************************************)
(* When the parser reads each text by itself as it is meant, a program is  *)
(* refused only for a line that says nothing or for a label that a line    *)
(* before has, and everything else of it is on the list as it is meant     *)
(* (assemble, y64asm.c:776-818).                                           *)
(***************************************************************************)
THEOREM Reads ==
  ASSUME ParserReads
  PROVE  Spec => []ReadsTheText
<1>1. Whole => ReadsTheText
  <2> SUFFICES ASSUME Whole PROVE ReadsTheText
    OBVIOUS
  <2> DEFINE n == Len(lines)
  <2>1. AsmTypes /\ Refusal(asm, lines)
    BY DEF Whole, Assembly
  <2>2. n \in Nat /\ \A i \in 1..n : lines[i].src \in Source
    BY <2>1, TypeFacts
  <2>3. \A i \in 1..n : /\ ReadIn(lines, i) = Parse[lines[i].src] /\ Text(i) = Says[lines[i].src]
                        /\ (ReadIn(lines, i).kind = "bad" => Text(i).kind = "bad")
                        /\ (ReadIn(lines, i).kind # "bad" => ReadIn(lines, i) = Text(i))
    BY <2>2 DEF ReadIn, Text, ParserReads
  <2>4. /\ \A i \in 1..n : asm # "refused" \/ i < n => ReadIn(lines, i).kind # "bad"
        /\ asm = "refused" =>
             /\ n > 0
             /\ \/ ReadIn(lines, n).kind = "bad"
                \/ \E i \in 1..n - 1 : /\ ReadIn(lines, n).label # None
                                       /\ ReadIn(lines, i).label = ReadIn(lines, n).label
    BY <2>1 DEF Refusal
  <2> HIDE DEF n
  <2>5. \A i \in 1..n : asm # "refused" \/ i < n => Parse[lines[i].src] = Text(i)
    BY <2>3, <2>4
  <2>6. ASSUME asm = "refused"
        PROVE  \/ Text(n).kind = "bad"
               \/ \E i \in 1..n - 1 : Text(n).label # None /\ Text(i).label = Text(n).label
    <3>1. n \in 1..n /\ \A i \in 1..n - 1 : i \in 1..n /\ i < n
      BY <2>2, <2>4, <2>6
    <3>2. CASE ReadIn(lines, n).kind = "bad"
      BY <2>3, <3>1, <3>2
    <3>3. CASE ReadIn(lines, n).kind # "bad"
      <4>1. PICK i \in 1..n - 1 : /\ ReadIn(lines, n).label # None
                                  /\ ReadIn(lines, i).label = ReadIn(lines, n).label
        BY <2>4, <2>6, <3>3
      <4>2. ReadIn(lines, n) = Text(n) /\ ReadIn(lines, i) = Text(i)
        BY <2>3, <2>4, <3>1, <3>3
      <4> QED
        BY <4>1, <4>2
    <3> QED
      BY <3>2, <3>3
  <2> QED
    BY <2>5, <2>6 DEF ReadsTheText, n
<1> QED
  BY <1>1, WholeInv, PTL

\* The image has the bytes of a line where no other line has.
LEMMA ByteOfLine ==
  ASSUME AsmTypes, NEW i \in CodeLines, Undisturbed(i), NEW k \in 1..Len(lines[i].codes)
  PROVE  ByteAt(lines[i].addr + k - 1) = lines[i].codes[k]
<1> DEFINE a == lines[i].addr + k - 1
           S == {j \in CodeLines : Covers(j, a)}
<1>1. /\ \A j \in CodeLines : lines[j].addr \in Nat /\ End(j) \in Nat /\ j \in Int
      /\ Len(lines[i].codes) \in Nat /\ End(i) = lines[i].addr + Len(lines[i].codes)
  <2>1. Len(lines) \in Nat
    BY TypeFacts
  <2> QED
    BY <2>1, EndType
<1>2. /\ a \in Int /\ a - lines[i].addr + 1 = k /\ lines[i].addr <= a
      /\ a < End(i)
  <2>1. lines[i].addr \in Nat /\ Len(lines[i].codes) \in Nat /\ k \in 1..Len(lines[i].codes)
    BY <1>1
  <2>2. End(i) = lines[i].addr + Len(lines[i].codes)
    BY <1>1
  <2> QED
    BY ONLY <2>1, <2>2
<1>3. Covers(i, a)
  BY <1>2 DEF Covers
<1> HIDE DEF a
<1>4. \A j \in CodeLines : j # i => ~Covers(j, a)
  <2> SUFFICES ASSUME NEW j \in CodeLines, j # i PROVE ~Covers(j, a)
    OBVIOUS
  <2>1. End(j) <= lines[i].addr \/ End(i) <= lines[j].addr
    BY DEF Undisturbed
  <2>2. End(j) \in Nat /\ End(i) \in Nat /\ lines[j].addr \in Nat /\ lines[i].addr \in Nat
    BY <1>1
  <2> QED
    BY <1>2, <2>1, <2>2 DEF Covers
<1>5. S = {i}
  BY <1>3, <1>4
<1>6. i \in Int
  BY <1>1
<1>7. (CHOOSE j \in S : \A x \in S : x <= j) = i
  BY <1>5, <1>6
<1>8. ByteAt(a) = lines[i].codes[a - lines[i].addr + 1]
  BY <1>5, <1>7 DEF ByteAt
<1> QED
  BY <1>2, <1>8 DEF a

\* Lines with bytes when the image is done: what they say, and that their
\* references are those of labels.
LEMMA DoneLine ==
  ASSUME ParserReads, Assembly, asm = "done", NEW i \in CodeLines
  PROVE  /\ i \in 1..Len(lines) /\ Text(i) = ReadIn(lines, i)
         /\ InLanguage(Text(i)) /\ Text(i).kind = "code"
         /\ Text(i).sym # None => /\ Text(i).sym \in Labels /\ symtab[Text(i).sym] \in Long
                                  /\ symtab[Text(i).sym] = Reached(Labelled(Text(i).sym))
         /\ lines[i].codes = BytesOf(Text(i), symtab, FALSE)
         /\ lines[i].addr \in Nat /\ lines[i].codes \in Seq(Byte)
<1> DEFINE n == Len(lines)
<1>1. /\ AsmTypes /\ Refusal("done", lines) /\ Imaged /\ Symbols(lines, symtab, vmaddr)
      /\ References("done", lines, symtab, reltab) /\ Coded(lines, symtab, reltab)
  BY DEF Assembly
<1>2. /\ n \in Nat /\ DOMAIN lines = 1..n
      /\ \A j \in 1..n : /\ lines[j].src \in Source /\ lines[j].addr \in Nat
                         /\ lines[j].codes \in Seq(Byte)
  BY <1>1, TypeFacts
<1>3. \A j \in 1..n : /\ ReadIn(lines, j).kind # "bad"
                      /\ Text(j) = ReadIn(lines, j) /\ InLanguage(Text(j))
  BY <1>1, <1>2, ParsedIs DEF Refusal, ReadIn, Text
<1>4. i \in 1..n /\ lines[i].codes # <<>>
  BY <1>2 DEF CodeLines
<1>5. \A j \in 1..n : ~Pending(reltab, j)
  <2>1. Len(reltab) = 0
    BY <1>1 DEF Imaged
  <2> QED
    BY <2>1 DEF Pending
<1>6. lines[i].codes = BytesOf(Text(i), symtab, FALSE)
  <2>1. lines[i].codes = BytesOf(ReadIn(lines, i), symtab, Pending(reltab, i))
    BY <1>1, <1>4 DEF Coded
  <2>2. Pending(reltab, i) = FALSE
    BY <1>4, <1>5 DEF Pending
  <2> QED
    BY <1>3, <1>4, <2>1, <2>2
<1>7. Text(i).kind = "code"
  BY <1>4, <1>6 DEF BytesOf
<1>8. ASSUME Text(i).sym # None
      PROVE  /\ Text(i).sym \in Labels /\ symtab[Text(i).sym] \in Long
             /\ symtab[Text(i).sym] = Reached(Labelled(Text(i).sym))
  <2> DEFINE name == Text(i).sym
  <2>1. name \in Labels
    BY <1>3, <1>4, <1>8 DEF InLanguage
  <2>2. symtab[name] # None
    <3>1. ReadIn(lines, i).sym = name
      BY <1>3, <1>4
    <3>2. name # None /\ symtab[name] = None => Pending(reltab, i)
      BY <1>1, <1>4, <3>1 DEF References
    <3> QED
      BY <1>4, <1>5, <1>8, <3>2
  <2>3. name # None
    BY <1>8
  <2> HIDE DEF name
  <2>4. PICK j \in 1..n : ReadIn(lines, j).label = name /\ symtab[name] = ReachedIn(lines, j)
    BY <1>1, <2>1, <2>2 DEF Symbols
  <2>5. symtab[name] \in Long
    BY <1>1, <2>1, <2>2 DEF Symbols
  <2>6. \A k \in 1..n : Text(k).label = name => k = j
    <3>1. \A x, y \in 1..n : ReadIn(lines, x).label # None
                             /\ ReadIn(lines, x).label = ReadIn(lines, y).label => x = y
      BY <1>1 DEF Symbols
    <3> QED
      BY <1>3, <2>3, <2>4, <3>1
  <2>7. Labelled(name) = j
    BY <1>2, <1>3, <2>4, <2>6 DEF Labelled
  <2> QED
    BY <2>1, <2>4, <2>5, <2>7, ReachedIs DEF name
<1> QED
  BY <1>2, <1>3, <1>4, <1>6, <1>7, <1>8

(***************************************************************************)
(* In the image, the bytes of a reference that no other line overwrites    *)
(* are the address of the label: what relocate writes in the order of      *)
(* reltab (y64asm.c:820-862) is where the second pass of binfile copies    *)
(* it.                                                                     *)
(***************************************************************************)
THEOREM Resolved ==
  ASSUME ParserReads
  PROVE  Spec => []ReferencesResolved
<1>1. Whole => ReferencesResolved
  <2> SUFFICES ASSUME Whole, asm = "done", NEW i \in CodeLines, Text(i).sym # None, Undisturbed(i)
               PROVE  SubSeq(image, End(i) - RefBytes(Text(i)) + 1, End(i))
                        = ToBytes(Reached(Labelled(Text(i).sym)), RefBytes(Text(i)))
    BY DEF ReferencesResolved
  <2> DEFINE l    == Text(i)
             n    == RefBytes(l)
             addr == symtab[l.sym]
             c    == lines[i].codes
             b    == lines[i].addr
             p    == Len(Codes(l)) - n
             x    == End(i) - n + 1
  <2>1. Assembly /\ AsmTypes /\ Imaged
    BY DEF Whole, Assembly
  <2>2. /\ InLanguage(l) /\ l.kind = "code" /\ addr = Reached(Labelled(l.sym)) /\ addr \in Int
        /\ c = BytesOf(l, symtab, FALSE) /\ b \in Nat
    BY <2>1, DoneLine, MemoryFits
  <2>3. c = Filled(Codes(l), l, addr)
    BY <2>2 DEF BytesOf
  <2>4. /\ Len(c) = p + n /\ p \in Nat /\ n \in Nat /\ \A k \in 1..n : c[p + k] = ToBytes(addr, n)[k]
    <3>1. /\ Len(Filled(Codes(l), l, addr)) = Len(Codes(l)) /\ p \in Nat /\ n \in Nat
          /\ \A k \in 1..n : Filled(Codes(l), l, addr)[p + k] = ToBytes(addr, n)[k]
      BY <2>2, FilledIs
    <3>2. Len(Codes(l)) \in Nat
      BY <2>2, CodesType, LenProperties
    <3> HIDE DEF l, n, c, addr
    <3>3. Len(Codes(l)) = p + n
      BY <3>1, <3>2
    <3> QED
      BY <2>3, <3>1, <3>3
  <2>5. /\ image = [k \in 1..FileSize |-> ByteAt(k - 1)] /\ End(i) <= FileSize
        /\ image \in Seq(Byte)
    BY <2>1 DEF Imaged, AsmTypes
  <2>6. \A k \in 1..Len(c) : ByteAt(b + k - 1) = c[k]
    BY <2>1, ByteOfLine
  <2>7. End(i) = b + Len(c)
    BY DEF End
  <2>8. FileSize \in Int
    BY <2>1, FileSizeType
  <2> HIDE DEF c, b, n, p, addr, l
  <2>9. \A k \in 1..n : image[x + k - 1] = ToBytes(addr, n)[k]
    <3> TAKE k \in 1..n
    <3>1. PICK q : q = p + k
      OBVIOUS
    <3>2. q \in 1..Len(c) /\ c[q] = ToBytes(addr, n)[k]
      BY <2>4, <3>1
    <3>3. PICK y : y = b + q
      OBVIOUS
    <3>4. y \in 1..FileSize /\ y - 1 = b + q - 1 /\ x + k - 1 = y
      BY <2>2, <2>4, <2>5, <2>7, <2>8, <3>1, <3>2, <3>3
    <3>5. image[y] = ByteAt(y - 1)
      BY <2>5, <3>4
    <3> QED
      BY <2>6, <3>2, <3>4, <3>5
  <2>10. SubSeq(image, x, End(i)) = [k \in 1..n |-> image[x + k - 1]]
    <3>1. x \in Int /\ End(i) \in Int /\ End(i) - x + 1 = n
      BY <2>2, <2>4, <2>7
    <3>2. SubSeq(image, x, End(i)) = [k \in 1..(End(i) - x + 1) |-> image[x + k - 1]]
      BY ONLY <2>5, <3>1
    <3> QED
      BY <3>1, <3>2
  <2>11. ToBytes(addr, n) = [k \in 1..n |-> ToBytes(addr, n)[k]]
    BY DEF ToBytes
  <2>12. SubSeq(image, x, End(i)) = ToBytes(addr, n)
    BY <2>9, <2>10, <2>11
  <2> QED
    BY <2>2, <2>12 DEF n, l, addr
<1> QED
  BY <1>1, WholeInv, PTL

----------------------------------------------------------------------------
(* The simulator at the bytes of a line. *)

\* The bytes of an instruction whose reference, if any, has been filled in
Encodes(l, tab, v, c, h) ==
  /\ InLanguage(l) /\ l.kind = "code" /\ l.op \in 0..11
  /\ v = (IF l.sym = None THEN l.imm ELSE tab[l.sym]) /\ v \in Long
  /\ c = BytesOf(l, tab, FALSE)
  /\ h = IF l.op \in RegOps THEN 2 ELSE 1

\* The code and the registers come first, then the operand, a label's address
\* or a number, eight bytes long.
LEMMA LineBytes ==
  ASSUME NEW l, NEW tab, NEW v, NEW c, NEW h, Encodes(l, tab, v, c, h)
  PROVE  /\ Len(c) = IF l.op \in ImmOps THEN h + LongBytes ELSE h
         /\ c[1] = Head1(l) /\ (l.op \in RegOps => c[2] = Head2(l))
         /\ l.op \in ImmOps => \A k \in 1..LongBytes : c[h + k] = ToBytes(v, LongBytes)[k]
<1> USE DEF Encodes
<1> DEFINE s == Heads(l)
           u == IF l.op \in {7, 8} THEN 0 ELSE l.imm
           t == ToBytes(u, LongBytes)
           w == ToBytes(v, LongBytes)
<1>1. /\ s \in Seq(Byte) /\ Len(s) = h /\ s[1] = Head1(l) /\ (l.op \in RegOps => s[2] = Head2(l))
      /\ h \in {1, 2}
  BY HeadsAre
<1>2. LongBytes \in Nat /\ LongBytes > 0 /\ v \in Int /\ u \in Int
  BY MemoryFits, CodeLine
<1>3. t \in Seq(Byte) /\ Len(t) = LongBytes
  <2> HIDE DEF u
  <2> QED
    BY <1>2, ToBytesIs
<1>4. Codes(l) = IF l.op \in ImmOps THEN s \o t ELSE s
  BY CodesAre
<1>5. c = IF l.sym = None THEN Codes(l) ELSE Filled(Codes(l), l, v)
  BY DEF BytesOf
<1>6. CASE l.op \notin ImmOps
  <2>1. l.sym = None
    BY <1>6, CodeLine DEF ImmOps
  <2>2. c = s
    BY <1>4, <1>5, <1>6, <2>1
  <2> HIDE DEF s
  <2> QED
    BY <1>1, <1>6, <2>2
<1>7. CASE l.op \in ImmOps
  <2>1. Codes(l) = s \o t
    BY <1>4, <1>7
  <2>2. /\ Len(s \o t) = h + LongBytes
        /\ \A k \in 1..h : (s \o t)[k] = s[k]
        /\ \A k \in 1..LongBytes : (s \o t)[h + k] = t[k]
    <3> HIDE DEF s, t
    <3>1. /\ Len(s \o t) = Len(s) + Len(t)
          /\ \A k \in 1..Len(s) + Len(t) : (s \o t)[k] = IF k <= Len(s) THEN s[k] ELSE t[k - Len(s)]
      BY <1>1, <1>3, ConcatProperties
    <3>2. ASSUME NEW k \in 1..h
          PROVE  (s \o t)[k] = s[k]
      <4>1. k \in 1..Len(s) + Len(t) /\ k <= Len(s)
        BY <1>1, <1>2, <1>3
      <4> QED
        BY <3>1, <4>1
    <3>3. ASSUME NEW k \in 1..LongBytes
          PROVE  (s \o t)[h + k] = t[k]
      <4>1. PICK j : j = h + k
        OBVIOUS
      <4>2. j \in 1..Len(s) + Len(t) /\ ~(j <= Len(s)) /\ j - Len(s) = k
        BY <1>1, <1>2, <1>3, <4>1
      <4> QED
        BY <3>1, <4>1, <4>2
    <3> QED
      BY <1>1, <1>3, <3>1, <3>2, <3>3
  <2> DEFINE Layout == /\ Len(c) = h + LongBytes
                       /\ \A k \in 1..h : c[k] = s[k]
                       /\ \A k \in 1..LongBytes : c[h + k] = w[k]
  <2>3. ASSUME l.sym = None PROVE Layout
    <3>1. l.op \notin {7, 8}
      BY <2>3, CodeLine
    <3>2. t = w
      BY <2>3, <3>1
    <3>3. c = s \o t
      BY <1>5, <2>1, <2>3
    <3> HIDE DEF s, t, w
    <3> QED
      BY ONLY <2>2, <3>2, <3>3
  <2>4. ASSUME l.sym # None PROVE Layout
    <3>1. RefBytes(l) = LongBytes
      BY CodeIs DEF RefBytes
    <3>2. c = Filled(Codes(l), l, v)
      BY <1>5, <2>4
    <3>3. /\ Len(c) = Len(Codes(l))
          /\ \A k \in 1..(Len(Codes(l)) - LongBytes) : c[k] = Codes(l)[k]
          /\ \A k \in 1..LongBytes : c[(Len(Codes(l)) - LongBytes) + k] = w[k]
      <4>1. PICK x, n : x = Filled(Codes(l), l, v) /\ n = RefBytes(l)
        OBVIOUS
      <4>2. /\ Len(x) = Len(Codes(l))
            /\ \A k \in 1..(Len(Codes(l)) - n) : x[k] = Codes(l)[k]
            /\ \A k \in 1..n : x[(Len(Codes(l)) - n) + k] = ToBytes(v, n)[k]
        BY <1>2, <2>4, <4>1, FilledIs
      <4>3. x = c /\ n = LongBytes
        BY <3>1, <3>2, <4>1
      <4> QED
        BY ONLY <4>2, <4>3
    <3> HIDE DEF s, t, w
    <3>4. Len(Codes(l)) = h + LongBytes /\ Len(Codes(l)) - LongBytes = h
      BY <1>1, <1>2, <2>1, <2>2
    <3> QED
      BY ONLY <2>1, <2>2, <3>3, <3>4
  <2>5. Layout
    BY <2>3, <2>4
  <2> HIDE DEF s, t
  <2>6. 1 \in 1..h /\ (l.op \in RegOps => 2 \in 1..h)
    BY <1>1
  <2>7. c[1] = Head1(l) /\ (l.op \in RegOps => c[2] = Head2(l))
    BY ONLY <1>1, <2>5, <2>6
  <2> QED
    BY ONLY <1>7, <2>5, <2>7
<1> QED
  BY <1>6, <1>7

\* The simulator has decoded what line i says.
Decodes(i) ==
  LET l == Text(i) IN
  /\ l.op \in 0..11 /\ l.fun \in 0..15 /\ l.ra \in 0..14 /\ l.rb \in 0..14
  /\ Value(l) \in Long /\ l.imm \in Long /\ (l.sym = None => Value(l) = l.imm)
  /\ l.sym # None => l.op \in {3, 7, 8}
  /\ Code = l.op /\ Fun = l.fun
  /\ l.op \in {2, 4, 6} => Ra = l.ra /\ Rb = l.rb
  /\ l.op = 3 => Rb = l.rb
  /\ l.op = 5 => Ra = l.rb /\ Rb = l.ra
  /\ l.op \in {10, 11} => Ra = l.ra
  /\ l.op \in ImmOps => Imm = Value(l)
  /\ NextPc = End(i)

\* At the bytes of a line it does: every byte is where nexti looks for it.
LEMMA Decoded ==
  ASSUME ParserReads, Whole, asm = "done", NEW i \in CodeLines, At(i)
  PROVE  Decodes(i)
<1> DEFINE l == Text(i)
           c == lines[i].codes
           h == IF l.op \in RegOps THEN 2 ELSE 1
           v == Value(l)
<1>1. Assembly /\ Machine /\ AsmTypes
  BY DEF Whole, Assembly
<1>2. /\ InLanguage(l) /\ l.kind = "code" /\ c = BytesOf(l, symtab, FALSE)
      /\ (l.sym # None => symtab[l.sym] \in Long)
      /\ c \in Seq(Byte) /\ DOMAIN c = 1..Len(c)
  BY <1>1, DoneLine, LenProperties
<1>3. /\ l.op \in 0..12 /\ l.fun \in 0..15 /\ l.ra \in 0..14 /\ l.rb \in 0..14 /\ l.imm \in Long
      /\ (l.sym # None => l.op \in {3, 7, 8, 12}) /\ l.op # 12
      /\ pc = lines[i].addr /\ \A k \in DOMAIN c : m[lines[i].addr + k - 1] = c[k]
  BY <1>2, CodeLine, CodeIs DEF At
<1>4. v \in Long /\ v = IF l.sym = None THEN l.imm ELSE symtab[l.sym]
  BY <1>2, <1>3 DEF Value
<1>5. l.op \in 0..11
  BY <1>3
<1>0. h = IF l.op \in RegOps THEN 2 ELSE 1
  OBVIOUS
<1> HIDE DEF l, v, c, h
<1>6. /\ Len(c) = IF l.op \in ImmOps THEN h + LongBytes ELSE h
      /\ c[1] = Head1(l) /\ (l.op \in RegOps => c[2] = Head2(l))
      /\ l.op \in ImmOps => \A k \in 1..LongBytes : c[h + k] = ToBytes(v, LongBytes)[k]
  <2>1. Encodes(l, symtab, v, c, h)
    BY <1>0, <1>2, <1>4, <1>5 DEF Encodes
  <2> QED
    BY <2>1, LineBytes
<1>7. h \in {1, 2} /\ (l.op \in RegOps => h = 2) /\ (l.op \notin RegOps => h = 1)
  BY <1>0
<1>8. pc \in Int /\ LongBytes \in Nat /\ LongBytes > 0
  BY <1>1, Parts, MemoryFits
<1>9. /\ m[pc] = c[1] /\ (l.op \in RegOps => m[pc + 1] = c[2])
      /\ l.op \in ImmOps => \A k \in 1..LongBytes : m[pc + h + k - 1] = c[h + k]
  <2>1. \A k \in 1..Len(c) : m[pc + k - 1] = c[k]
    BY <1>2, <1>3
  <2>2. 1 \in 1..Len(c) /\ pc + 1 - 1 = pc
    BY <1>6, <1>7, <1>8
  <2>3. l.op \in RegOps => 2 \in 1..Len(c) /\ pc + 2 - 1 = pc + 1
    BY <1>6, <1>7, <1>8
  <2>4. ASSUME l.op \in ImmOps, NEW k \in 1..LongBytes
        PROVE  m[pc + h + k - 1] = c[h + k]
    <3>1. PICK j : j = h + k
      OBVIOUS
    <3>2. j \in 1..Len(c) /\ pc + j - 1 = pc + h + k - 1
      BY <1>6, <1>7, <1>8, <2>4, <3>1
    <3> QED
      BY <2>1, <3>1, <3>2
  <2> QED
    BY <2>1, <2>2, <2>3, <2>4
<1>10. Code = l.op /\ Fun = l.fun
  <2>1. m[pc] = HPACK(l.op, l.fun)
    BY <1>6, <1>9, Zenon DEF Head1
  <2>2. l.op \in 0..15 /\ l.fun \in 0..15
    BY <1>3, <1>5
  <2>3. HIGH(m[pc]) = l.op /\ LOW(m[pc]) = l.fun
    BY ONLY <2>1, <2>2, Halves, Zenon
  <2> QED
    BY <2>3, Zenon DEF Code, Fun
<1>11. HasRegs <=> l.op \in RegOps
  BY <1>10, CodeIs DEF HasRegs, RegOps
<1>12. HasImm <=> l.op \in ImmOps
  BY <1>10, CodeIs DEF HasImm, ImmOps
<1>13. ImmAt = pc + h /\ NextPc = End(i)
  <2>1. ImmAt = pc + h
    BY <1>7, <1>8, <1>11 DEF ImmAt
  <2>2. End(i) = pc + Len(c)
    BY <1>3 DEF End, c
  <2> QED
    BY <1>6, <1>7, <1>8, <1>12, <2>1, <2>2 DEF NextPc
<1>14. l.op \in ImmOps => Imm = v
  <2> SUFFICES ASSUME l.op \in ImmOps PROVE Imm = v
    OBVIOUS
  <2>1. PICK a \in Int : a = pc + h
    BY <1>7, <1>8
  <2>2. \A k \in 1..LongBytes : m[a + k - 1] = ToBytes(v, LongBytes)[k]
    BY <1>6, <1>9, <2>1
  <2>3. FromBytes(m, a) = v
    BY <1>4, <2>2, FromToBytes
  <2> QED
    BY <1>13, <2>1, <2>3 DEF Imm, Get
<1>15. l.op \in RegOps => Ra = HIGH(Head2(l)) /\ Rb = LOW(Head2(l))
  BY <1>6, <1>9 DEF Ra, Rb
<1>16. /\ l.op \in {2, 4, 6} => Ra = l.ra /\ Rb = l.rb
       /\ l.op = 3 => Rb = l.rb
       /\ l.op = 5 => Ra = l.rb /\ Rb = l.ra
       /\ l.op \in {10, 11} => Ra = l.ra
  <2>1. l.ra \in 0..15 /\ l.rb \in 0..15 /\ 15 \in 0..15
    BY <1>3
  <2>2. CASE l.op \in {2, 4, 6}
    BY <1>15, <2>1, <2>2, Halves DEF Head2, RegOps
  <2>3. CASE l.op = 3
    BY <1>15, <2>1, <2>3, Halves DEF Head2, RegOps
  <2>4. CASE l.op = 5
    BY <1>15, <2>1, <2>4, Halves DEF Head2, RegOps
  <2>5. CASE l.op \in {10, 11}
    BY <1>15, <2>1, <2>5, Halves DEF Head2, RegOps
  <2> QED
    BY <2>2, <2>3, <2>4, <2>5
<1>17. (l.sym # None => l.op \in {3, 7, 8}) /\ (l.sym = None => v = l.imm)
  BY <1>3, <1>4
<1> QED
  BY <1>3, <1>4, <1>5, <1>10, <1>13, <1>14, <1>16, <1>17 DEF l, v, Decodes

\* The instruction that a step executes when it does not stop
LEMMA OnlyCode ==
  ASSUME nexti, stat' = "AOK"
  PROVE  /\ Fetched /\ Code \in 1..11
         /\ Code = 1 => Nop
         /\ Code = 2 => Rrmovq
         /\ Code = 3 => Irmovq
         /\ Code = 4 => Rmmovq
         /\ Code = 5 => Mrmovq
         /\ Code = 6 => Alu
         /\ Code = 7 => Jmp
         /\ Code = 8 => Call
         /\ Code = 9 => Ret
         /\ Code = 10 => Pushq
         /\ Code = 11 => Popq
<1>1. ~BadFetch /\ ~BadCode /\ ~Halt
  BY DEF BadFetch, BadCode, Halt, Stop
<1>2. /\ Nop => Fetched /\ Code = 1
      /\ Rrmovq => Fetched /\ Code = 2
      /\ Irmovq => Fetched /\ Code = 3
      /\ Rmmovq => Fetched /\ Code = 4
      /\ Mrmovq => Fetched /\ Code = 5
      /\ Alu => Fetched /\ Code = 6
  BY CodeIs DEF Nop, Rrmovq, Irmovq, Rmmovq, Mrmovq, Alu, Is
<1>3. /\ Jmp => Fetched /\ Code = 7
      /\ Call => Fetched /\ Code = 8
      /\ Ret => Fetched /\ Code = 9
      /\ Pushq => Fetched /\ Code = 10
      /\ Popq => Fetched /\ Code = 11
  BY CodeIs DEF Jmp, Call, Ret, Pushq, Popq, Is
<1>4. Nop \/ Rrmovq \/ Irmovq \/ Rmmovq \/ Mrmovq \/ Alu \/ Jmp \/ Call \/ Ret \/ Pushq \/ Popq
  BY <1>1 DEF nexti
<1> QED
  BY <1>2, <1>3, <1>4

\* What a register named by a line is
LEMMA NamedReg ==
  ASSUME Machine, NEW id \in 0..14
  PROVE  /\ Reg(id) = r[id] /\ r[id] \in Long /\ r[id] \in Int
         /\ \A f, v : With(f, id, v) = [f EXCEPT ![id] = v]
<1>1. id \in Regs /\ id # REG_NONE
  BY DEF Regs, REG_NONE
<1> QED
  BY <1>1, Parts DEF Reg, With

\* Sums of longs, and moved stack pointers
LEMMA StackIs ==
  ASSUME Machine
  PROVE  LET rsp == r[REG_RSP] IN
         /\ rsp \in Long /\ Signed(rsp) = rsp
         /\ Signed(rsp - LongBytes) \in Long /\ Signed(rsp - LongBytes) \in Int
         /\ Signed(Signed(rsp - LongBytes)) = Signed(rsp - LongBytes)
<1>1. r[REG_RSP] \in Long /\ r[REG_RSP] \in Int /\ LongBytes \in Int
  BY Parts, MemoryFits
<1>2. Signed(r[REG_RSP] - LongBytes) \in Long
  BY <1>1, SignedSum
<1>3. \A v \in Long : Signed(v) = v
  BY SignedFits
<1> QED
  BY <1>1, <1>2, <1>3, MemoryFits

\* A push that does not stop
LEMMA PushIs ==
  ASSUME Machine, NEW v \in Long, NEW target, Push(v, target), stat = "AOK", stat' = "AOK"
  PROVE  LET top == Signed(r[REG_RSP] - LongBytes) IN
         /\ pc' = target /\ r' = [r EXCEPT ![REG_RSP] = top] /\ r'[REG_RSP] = top
         /\ FromBytes(m', top) = v
<1> DEFINE top == Signed(r[REG_RSP] - LongBytes)
<1>1. top \in Int
  BY StackIs
<1>2. /\ r' = [r EXCEPT ![REG_RSP] = top] /\ pc' = target
      /\ HasLong(top) /\ m' = Put(top, v)
  BY DEF Push
<1>3. r'[REG_RSP] = top
  BY <1>2, Parts
<1>4. FromBytes(m', top) = v
  <2> HIDE DEF top
  <2> QED
    BY <1>1, <1>2, PutType
<1> QED
  BY <1>2, <1>3, <1>4

\* A step at a line, instruction by instruction
LEMMA ExecuteStep ==
  ASSUME Machine, NEW i, Decodes(i), stat = "AOK", nexti, stat' = "AOK"
  PROVE  Executes(i)
<1> DEFINE l == Text(i)
           rsp == r[REG_RSP]
<1>1. /\ l.op \in 0..11 /\ l.fun \in 0..15 /\ l.ra \in 0..14 /\ l.rb \in 0..14
      /\ Value(l) \in Long /\ l.imm \in Long /\ (l.sym = None => Value(l) = l.imm)
      /\ (l.sym # None => l.op \in {3, 7, 8})
      /\ Code = l.op /\ Fun = l.fun /\ NextPc = End(i)
  BY DEF Decodes
<1>2. /\ l.op \in {2, 4, 6} => Ra = l.ra /\ Rb = l.rb
      /\ l.op = 3 => Rb = l.rb
      /\ l.op = 5 => Ra = l.rb /\ Rb = l.ra
      /\ l.op \in {10, 11} => Ra = l.ra
      /\ l.op \in {3, 7, 8} => Imm = Value(l)
      /\ l.op \in {4, 5} => Imm = l.imm
  BY DEF Decodes, ImmOps
<1>3. /\ Fetched /\ l.op \in 1..11
      /\ l.op = 1 => Nop
      /\ l.op = 2 => Rrmovq
      /\ l.op = 3 => Irmovq
      /\ l.op = 4 => Rmmovq
      /\ l.op = 5 => Mrmovq
      /\ l.op = 6 => Alu
      /\ l.op = 7 => Jmp
      /\ l.op = 8 => Call
      /\ l.op = 9 => Ret
      /\ l.op = 10 => Pushq
      /\ l.op = 11 => Popq
  BY <1>1, OnlyCode
<1>4. /\ Reg(l.ra) = r[l.ra] /\ Reg(l.rb) = r[l.rb] /\ r[l.ra] \in Long /\ r[l.rb] \in Long
      /\ r[l.ra] \in Int /\ r[l.rb] \in Int /\ l.ra \in DOMAIN r /\ l.rb \in DOMAIN r
      /\ \A f, v : With(f, l.ra, v) = [f EXCEPT ![l.ra] = v]
      /\ \A f, v : With(f, l.rb, v) = [f EXCEPT ![l.rb] = v]
  BY <1>1, NamedReg, Parts DEF Regs
<1>5. l.imm \in Int /\ REG_RSP \in DOMAIN r
  BY <1>1, MemoryFits, Parts
<1>6. \A a : ~Refused(a)
  BY DEF Refused, Stop
<1>7. \A s : s # "AOK" => ~Stop(s)
  BY DEF Stop
<1>8. rsp \in Long /\ rsp \in Int /\ Signed(rsp) = rsp
  BY StackIs, MemoryFits
<1> HIDE DEF l
<1>9. l = Text(i)
  BY DEF l
<1>10. CASE l.op = 1
  <2>1. pc' = End(i)
    BY <1>1, <1>3, <1>10 DEF Nop
  <2> QED
    BY <1>10, <2>1, CodeIs DEF Executes, l
<1>11. CASE l.op = 2
  <2>1. /\ r' = IF cond_doit(cc, l.fun) THEN With(r, l.rb, Reg(l.ra)) ELSE r
        /\ pc' = End(i) /\ m' = m
    BY <1>1, <1>2, <1>3, <1>7, <1>11 DEF Rrmovq
  <2>2. cond_doit(cc, C_YES) = TRUE
    BY DEF cond_doit, C_YES, C_LE, C_L, C_E, C_NE, C_GE, C_G
  <2>3. \/ r' = [r EXCEPT ![l.rb] = r[l.ra]] /\ m' = m
        \/ l.fun # C_YES /\ r' = r /\ m' = m
    BY <1>4, <2>1, <2>2
  <2> QED
    BY <1>11, <2>1, <2>3, CodeIs DEF Executes, l
<1>12. CASE l.op = 3
  <2>1. Rb = l.rb /\ Imm = Value(l)
    BY <1>2, <1>12
  <2>2. r' = With(r, l.rb, Value(l)) /\ m' = m /\ pc' = End(i)
    BY <1>1, <1>3, <1>12, <2>1 DEF Irmovq
  <2>3. r' = [r EXCEPT ![l.rb] = Value(l)]
    BY <1>4, <2>2
  <2> QED
    BY <1>12, <2>2, <2>3, CodeIs DEF Executes, l
<1>13. CASE l.op = 4
  <2>1. Ra = l.ra /\ Rb = l.rb /\ Imm = l.imm
    BY <1>2, <1>13
  <2> DEFINE a == Signed(r[l.rb] + l.imm)
  <2>2. a = Signed(Reg(Rb) + Imm) /\ Reg(Ra) = r[l.ra] /\ a \in Int
    BY <1>4, <1>5, <2>1, SignedSum, MemoryFits
  <2> HIDE DEF a
  <2>3. HasLong(a) /\ m' = Put(a, r[l.ra]) /\ pc' = End(i) /\ r' = r
    BY <1>1, <1>3, <1>6, <1>13, <2>2 DEF Rmmovq
  <2>4. FromBytes(m', a) = r[l.ra]
    BY <1>4, <2>2, <2>3, PutType
  <2> QED
    BY <1>13, <2>3, <2>4, CodeIs DEF Executes, l, a
<1>14. CASE l.op = 5
  <2>1. Ra = l.rb /\ Rb = l.ra /\ Imm = l.imm
    BY <1>2, <1>14
  <2> DEFINE a == Signed(r[l.ra] + l.imm)
  <2>2. a = Signed(Reg(Rb) + Imm)
    BY <1>4, <2>1
  <2> HIDE DEF a
  <2>3. HasLong(a) /\ r' = With(r, l.rb, Get(a)) /\ pc' = End(i) /\ m' = m
    BY <1>1, <1>3, <1>6, <1>14, <2>1, <2>2 DEF Mrmovq
  <2>4. r' = [r EXCEPT ![l.rb] = FromBytes(m, a)]
    BY <1>4, <2>3 DEF Get
  <2>5. r' = [r EXCEPT ![l.rb] = FromBytes(m, Signed(r[l.ra] + l.imm))]
    BY <2>4 DEF a
  <2>6. pc' = End(i) /\ m' = m
    BY <2>3
  <2> QED
    BY <1>14, <2>5, <2>6, CodeIs DEF Executes, l
<1>15. CASE l.op = 6
  <2> DEFINE val == compute_alu(l.fun, r[l.ra], r[l.rb])
  <2>1. r' = With(r, l.rb, val) /\ pc' = End(i) /\ m' = m
    BY <1>1, <1>2, <1>3, <1>4, <1>7, <1>15 DEF Alu
  <2>2. l.fun = A_SUB => val = Signed(r[l.rb] - r[l.ra])
    BY DEF compute_alu, A_SUB, A_ADD, A_AND, A_XOR
  <2> HIDE DEF val
  <2>3. r' = [r EXCEPT ![l.rb] = val] /\ r'[l.rb] = val
    BY <1>4, <2>1
  <2>4. r' = [r EXCEPT ![l.rb] = r'[l.rb]]
    BY <2>3
  <2> QED
    BY <1>15, <2>1, <2>2, <2>3, <2>4, CodeIs DEF Executes, l
<1>16. CASE l.op = 7
  <2>1. /\ pc' = IF cond_doit(cc, l.fun) THEN Value(l) ELSE End(i)
        /\ r' = r /\ m' = m
    BY <1>1, <1>2, <1>3, <1>7, <1>16 DEF Jmp
  <2>2. cond_doit(cc, C_YES) = TRUE
    BY DEF cond_doit, C_YES, C_LE, C_L, C_E, C_NE, C_GE, C_G
  <2>3. pc' \in {End(i), Value(l)} /\ (l.fun = C_YES => pc' = Value(l))
    BY <2>1, <2>2
  <2> QED
    BY <1>16, <2>1, <2>3, CodeIs DEF Executes, l
<1>17. NextPc \in Long
  BY <1>3, FetchType
<1>18. CASE l.op = 8
  <2> DEFINE top == Signed(rsp - LongBytes)
  <2>1. Push(NextPc, Value(l))
    BY <1>2, <1>3, <1>18 DEF Call
  <2>2. pc' = Value(l) /\ r'[REG_RSP] = top /\ FromBytes(m', top) = End(i)
    BY <1>1, <1>17, <2>1, PushIs
  <2>3. Signed(top) = top
    BY StackIs
  <2> HIDE DEF top
  <2>4. Signed(r'[REG_RSP]) = top
    BY <2>2, <2>3
  <2> QED
    BY <1>18, <2>2, <2>4, CodeIs DEF Executes, l, top
<1>19. CASE l.op = 9
  <2>1. pc' = Get(rsp) /\ r' = [r EXCEPT ![REG_RSP] = Signed(rsp + LongBytes)]
    BY <1>3, <1>6, <1>19 DEF Ret
  <2>2. pc' = FromBytes(m, Signed(rsp)) /\ r'[REG_RSP] = Signed(rsp + LongBytes)
    BY <1>5, <1>8, <2>1 DEF Get
  <2> QED
    BY <1>19, <2>2, CodeIs DEF Executes, l
<1>20. CASE l.op = 10
  <2> DEFINE top == Signed(rsp - LongBytes)
  <2>1. Push(r[l.ra], End(i))
    BY <1>1, <1>2, <1>3, <1>4, <1>20 DEF Pushq
  <2>2. pc' = End(i) /\ r'[REG_RSP] = top /\ FromBytes(m', top) = r[l.ra]
    BY <1>4, <2>1, PushIs
  <2> QED
    BY <1>20, <2>2, CodeIs DEF Executes, l
<1>21. CASE l.op = 11
  <2> DEFINE up == Signed(rsp + LongBytes)
  <2>1. /\ r' = With([r EXCEPT ![REG_RSP] = up], l.ra, Get(rsp))
        /\ pc' = End(i) /\ m' = m
    BY <1>1, <1>2, <1>3, <1>6, <1>21 DEF Popq
  <2> HIDE DEF up
  <2>2. r' = [[r EXCEPT ![REG_RSP] = up] EXCEPT ![l.ra] = Get(rsp)]
    BY <1>4, <2>1
  <2>3. r'[l.ra] = Get(rsp) /\ (l.ra # REG_RSP => r'[REG_RSP] = up)
    BY <1>4, <1>5, <2>2
  <2>4. r'[l.ra] = FromBytes(m, Signed(rsp))
    BY <1>8, <2>3 DEF Get
  <2> QED
    BY <1>21, <2>1, <2>3, <2>4, CodeIs DEF Executes, l, up
<1>22. l.op \in {1, 2, 3, 4, 5, 6, 7, 8, 9, 10, 11}
  BY <1>3
<1> QED
  BY <1>10, <1>11, <1>12, <1>13, <1>14, <1>15, <1>16, <1>18, <1>19, <1>20, <1>21, <1>22

(***************************************************************************)
(* A step at the bytes of a line does what its text says: the places of    *)
(* the fields that parse_line chooses (y64asm.c:531-765) are those that    *)
(* nexti decodes (y64sim.c:357-518), and a long read back is the one       *)
(* written.                                                                *)
(***************************************************************************)
THEOREM Executed ==
  ASSUME ParserReads
  PROVE  Spec => ExecutesSource
<1>1. ASSUME Whole, [Next]_<<asmVars, simVars>>
      PROVE  [\A i \in CodeLines : At(i) /\ stat' = "AOK" => Executes(i)]_<<asmVars, simVars>>
  <2> SUFFICES ASSUME Next, NEW i \in CodeLines, At(i), stat' = "AOK"
               PROVE  Executes(i)
    BY <1>1
  <2>1. stat = "AOK"
    BY DEF At
  <2>2. asm = "done" /\ Machine
    BY <1>1, <2>1 DEF Whole
  <2>3. nexti
    BY <2>1, <2>2 DEF Next, Load, AsmNext, ReadLine, EndOfFile, Relocate, Binfile
  <2>4. Decodes(i)
    BY <1>1, <2>2, Decoded
  <2> QED
    BY <2>1, <2>2, <2>3, <2>4, ExecuteStep
<1> QED
  BY <1>1, WholeInv, PTL DEF Spec, ExecutesSource
=============================================================================
