----------------------------- MODULE UidProofs -----------------------------
(***************************************************************************)
(* What of the UID can be undone: all that lib/uid.c does to the phone,    *)
(* for every phone, every e-mail and every table of the hash.  The proofs  *)
(* follow the functions of uid.c from the digits to the text, and end with *)
(* what this means for the users who register.                             *)
(***************************************************************************)
EXTENDS UidRegistry, WellFoundedInduction, TLAPS

(***************************************************************************)
(* The loops of uid.c are functions that recurse over an interval.  That   *)
(* they are defined, and what holds of each step, follows from a set of    *)
(* numbers having a least one.                                             *)
(***************************************************************************)
LEMMA LeastNumber ==
  ASSUME NEW T, T \subseteq Nat, T # {}
  PROVE  \E x \in T : \A y \in T : x <= y
<1> DEFINE Order == OpToRel(<, Nat)
<1>1. \A p \in Nat \X Nat : p[1] < p[2] => p \in Order
  BY DEF OpToRel
<1> HIDE DEF Order
<1>2. PICK x \in T : \A y \in T : <<y, x>> \notin Order
  BY WFMin, NatLessThanWellFounded DEF Order
<1>3. ASSUME NEW y \in T PROVE x <= y
  <2>1. <<y, x>> \in Nat \X Nat /\ <<y, x>> \notin Order
    BY <1>2
  <2>2. ~(y < x)
    BY <1>1, <2>1
  <2> QED
    BY <2>1, <2>2
<1> QED
  BY <1>3

LEMMA Stepwise ==
  ASSUME NEW N \in Nat, NEW T, 0 \in T, \A n \in 1..N : n - 1 \in T => n \in T
  PROVE  \A n \in 0..N : n \in T
<1> DEFINE Out == {n \in 0..N : n \notin T}
<1> SUFFICES ASSUME Out # {} PROVE FALSE
  OBVIOUS
<1>1. PICK x \in Out : \A y \in Out : x <= y
  <2>1. Out \subseteq Nat
    OBVIOUS
  <2> HIDE DEF Out
  <2> QED
    BY <2>1, LeastNumber
<1>2. x \in 1..N /\ x - 1 \in 0..N
  OBVIOUS
<1>3. x - 1 \in T
  BY <1>1, <1>2
<1> QED
  BY <1>1, <1>2, <1>3

\* f goes from a, by one value of next after the other
Recurses(f, N, a, next) == f[0] = a /\ \A n \in 1..N : f[n] = next[<<n, f[n - 1]>>]

LEMMA Recursion ==
  ASSUME NEW N \in Nat, NEW S, NEW a \in S, NEW next \in [(1..N) \X S -> S]
  PROVE  \E f \in [0..N -> S] : Recurses(f, N, a, next)
<1> DEFINE T == {n \in 0..N : \E f \in [0..n -> S] : Recurses(f, n, a, next)}
<1>1. 0 \in T
  <2> DEFINE f == [i \in 0..0 |-> a]
  <2>1. f \in [0..0 -> S] /\ f[0] = a
    OBVIOUS
  <2> HIDE DEF f
  <2> QED
    BY <2>1 DEF Recurses
<1>2. ASSUME NEW n \in 1..N, n - 1 \in T PROVE n \in T
  <2>1. PICK f \in [0..(n - 1) -> S] : Recurses(f, n - 1, a, next)
    BY <1>2
  <2> DEFINE g == [i \in 0..n |-> IF i = n THEN next[<<n, f[n - 1]>>] ELSE f[i]]
  <2>2. f[n - 1] \in S /\ next[<<n, f[n - 1]>>] \in S
    OBVIOUS
  <2>3. g \in [0..n -> S]
    BY <2>2
  <2>4. g[0] = a
    BY <2>1 DEF Recurses
  <2>5. ASSUME NEW i \in 1..n PROVE g[i] = next[<<i, g[i - 1]>>]
    <3>1. g[i - 1] = f[i - 1]
      OBVIOUS
    <3>2. CASE i = n
      <4>1. g[i] = next[<<i, f[i - 1]>>]
        BY <3>2
      <4> HIDE DEF g
      <4> QED
        BY <3>1, <4>1
    <3>3. CASE i # n
      <4>1. i \in 1..(n - 1) /\ g[i] = f[i]
        BY <3>3
      <4>2. f[i] = next[<<i, f[i - 1]>>]
        BY <2>1, <4>1 DEF Recurses
      <4> HIDE DEF g
      <4> QED
        BY <3>1, <4>1, <4>2
    <3> QED
      BY <3>2, <3>3
  <2> HIDE DEF g
  <2> QED
    BY <2>3, <2>4, <2>5 DEF Recurses
<1> HIDE DEF T
<1>3. \A n \in 0..N : n \in T
  BY <1>1, <1>2, Stepwise
<1> QED
  BY <1>3 DEF T

-----------------------------------------------------------------------------

LEMMA EncodeIndex ==
  /\ p_encode \in [Nibbles -> Nibbles]
  /\ p_decode \in [Nibbles -> Nibbles]
  /\ \A j \in Nibbles : p_encode[p_decode[j]] = j /\ p_decode[p_encode[j]] = j
BY DEF p_encode, p_decode, Nibbles

\* The digits of a phone, permuted to make a UID and permuted back with the
\* other table, are the digits: p_decode of uid.c is the inverse of p_encode.
THEOREM DigitsRestored ==
  ASSUME NEW ph \in Phone
  PROVE  permute_phone_digits(permute_phone_digits(ph, p_encode), p_decode) = ph
<1> DEFINE mixed == permute_phone_digits(ph, p_encode)
<1>1. \A j \in Nibbles : MovesTo(j, p_encode) = p_decode[j]
  <2> SUFFICES ASSUME NEW j \in Nibbles
               PROVE  MovesTo(j, p_encode) = p_decode[j]
    OBVIOUS
  <2>1. \A i \in Nibbles : p_encode[i] = j <=> i = p_decode[j]
    BY EncodeIndex
  <2> QED
    BY <2>1, EncodeIndex DEF MovesTo
<1>2. \A j \in Nibbles : MovesTo(j, p_decode) = p_encode[j]
  <2> SUFFICES ASSUME NEW j \in Nibbles
               PROVE  MovesTo(j, p_decode) = p_encode[j]
    OBVIOUS
  <2>1. \A i \in Nibbles : p_decode[i] = j <=> i = p_encode[j]
    BY EncodeIndex
  <2> QED
    BY <2>1, EncodeIndex DEF MovesTo
<1>3. mixed = [j \in Nibbles |-> ph[p_decode[j]]]
  BY <1>1 DEF permute_phone_digits
<1>4. permute_phone_digits(mixed, p_decode) = [j \in Nibbles |-> mixed[p_encode[j]]]
  BY <1>2 DEF permute_phone_digits
<1>5. \A j \in Nibbles : mixed[p_encode[j]] = ph[j]
  BY <1>3, EncodeIndex
<1> QED
  BY <1>4, <1>5 DEF Phone

-----------------------------------------------------------------------------
LEMMA FromCases ==
  ASSUME NEW b \in 0..63
  PROVE  /\ From(b) \in 0..63
         /\ b % 4 = 0 => From(b) = b + 2 /\ From(b) % 4 = 2
         /\ b % 4 = 1 => From(b) = b - 1 /\ From(b) % 4 = 0
         /\ b % 4 = 2 => From(b) = b + 1 /\ From(b) % 4 = 3
         /\ b % 4 = 3 => From(b) = b - 2 /\ From(b) % 4 = 1
         /\ b % 4 \in {0, 1, 2, 3}
BY DEF From

LEMMA FromFour ==
  ASSUME NEW b \in 0..63
  PROVE  From(From(From(From(b)))) = b
<1>1. PICK c \in 0..63 : c = From(b)
  BY FromCases
<1>2. PICK d \in 0..63 : d = From(c)
  BY FromCases
<1>3. PICK e \in 0..63 : e = From(d)
  BY FromCases
<1>4. From(e) = b
  <2>1. CASE b % 4 = 0
    BY <2>1, <1>1, <1>2, <1>3, FromCases
  <2>2. CASE b % 4 = 1
    BY <2>2, <1>1, <1>2, <1>3, FromCases
  <2>3. CASE b % 4 = 2
    BY <2>3, <1>1, <1>2, <1>3, FromCases
  <2>4. CASE b % 4 = 3
    BY <2>4, <1>1, <1>2, <1>3, FromCases
  <2> QED
    BY <2>1, <2>2, <2>3, <2>4, FromCases
<1> QED
  BY <1>1, <1>2, <1>3, <1>4

\* The order 3, 1, 4, 2 of the bits of a nibble, taken four times, is the order
\* they had: that is why three more rounds undo the one of a UID.
THEOREM FourRounds ==
  ASSUME NEW n \in Long
  PROVE  permute_nibble_bits3142(permute_nibble_bits3142(permute_nibble_bits3142(
           permute_nibble_bits3142(n)))) = n
<1>1. PICK p : p = permute_nibble_bits3142(n)
  OBVIOUS
<1>2. PICK q : q = permute_nibble_bits3142(p)
  OBVIOUS
<1>3. PICK r : r = permute_nibble_bits3142(q)
  OBVIOUS
<1>4. \A b \in 0..63 : /\ p[b] = n[From(b)]
                       /\ q[b] = p[From(b)]
                       /\ r[b] = q[From(b)]
  BY <1>1, <1>2, <1>3 DEF permute_nibble_bits3142
<1>5. permute_nibble_bits3142(r) = [b \in 0..63 |-> r[From(b)]]
  BY DEF permute_nibble_bits3142
<1>6. \A b \in 0..63 : r[From(b)] = n[b]
  BY <1>4, FromCases, FromFour
<1>7. permute_nibble_bits3142(r) = n
  BY <1>5, <1>6 DEF Long
<1> QED
  BY <1>1, <1>2, <1>3, <1>7

\* Two words interleaved nibble by nibble come apart as they were.
THEOREM NibblesRestored ==
  ASSUME NEW v \in Word, NEW w \in Word
  PROVE  /\ interleave_nibble(v, w) \in Long
         /\ deinterleave_nibble(interleave_nibble(v, w)) = <<v, w>>
<1> DEFINE n == interleave_nibble(v, w)
<1>1. \A b \in 0..63 : 4 * (b \div 8) + (b % 4) \in 0..31
  OBVIOUS
<1>2. n \in Long
  BY <1>1 DEF interleave_nibble, Long, Word
<1>3. \A i \in 0..31 : n[8 * (i \div 4) + 4 + (i % 4)] = v[i]
  <2> SUFFICES ASSUME NEW i \in 0..31
               PROVE  n[8 * (i \div 4) + 4 + (i % 4)] = v[i]
    OBVIOUS
  <2> DEFINE b == 8 * (i \div 4) + 4 + (i % 4)
  <2>1. b \in 0..63 /\ ~(b % 8 < 4) /\ 4 * (b \div 8) + (b % 4) = i
    OBVIOUS
  <2> QED
    BY <2>1 DEF interleave_nibble
<1>4. \A i \in 0..31 : n[8 * (i \div 4) + (i % 4)] = w[i]
  <2> SUFFICES ASSUME NEW i \in 0..31
               PROVE  n[8 * (i \div 4) + (i % 4)] = w[i]
    OBVIOUS
  <2> DEFINE b == 8 * (i \div 4) + (i % 4)
  <2>1. b \in 0..63 /\ b % 8 < 4 /\ 4 * (b \div 8) + (b % 4) = i
    OBVIOUS
  <2> QED
    BY <2>1 DEF interleave_nibble
<1>5. [i \in 0..31 |-> n[8 * (i \div 4) + 4 + (i % 4)]] = v
  BY <1>3 DEF Word
<1>6. [i \in 0..31 |-> n[8 * (i \div 4) + (i % 4)]] = w
  BY <1>4 DEF Word
<1> QED
  BY <1>2, <1>5, <1>6 DEF deinterleave_nibble

LEMMA HalvesType ==
  ASSUME NEW bits \in [0..33 -> Bit], NEW hash \in Word
  PROVE  HighWord(bits) \in Word /\ LowWord(bits, hash) \in Word
BY DEF HighWord, LowWord, Word

\* The number of a phone is in its UID: whatever hash is mixed in, the two
\* halves come back, and with them the 34 bits of the number.
THEOREM NumberRestored ==
  ASSUME NEW bits \in [0..33 -> Bit], NEW hash \in Word
  PROVE  PhoneBits(Unmix(Mix(bits, hash))) = bits
<1>1. PICK v \in Word, w \in Word : v = HighWord(bits) /\ w = LowWord(bits, hash)
  BY HalvesType
<1>2. PICK n \in Long : n = interleave_nibble(v, w) /\ deinterleave_nibble(n) = <<v, w>>
  BY NibblesRestored
<1>3. Mix(bits, hash) = permute_nibble_bits3142(n)
  BY <1>1, <1>2 DEF Mix
<1>4. Unmix(Mix(bits, hash)) = <<v, w>>
  BY <1>2, <1>3, FourRounds DEF Unmix
<1>5. PhoneBits(<<v, w>>) = [i \in 0..33 |-> IF i < 2 THEN w[i] ELSE v[i - 2]]
  BY DEF PhoneBits
<1>6. \A i \in 0..33 : (IF i < 2 THEN w[i] ELSE v[i - 2]) = bits[i]
  BY <1>1 DEF HighWord, LowWord
<1> QED
  BY <1>4, <1>5, <1>6

\* UIDs of phones with different numbers are different, whatever the e-mails.
THEOREM NumbersApart ==
  ASSUME NEW b1 \in [0..33 -> Bit], NEW b2 \in [0..33 -> Bit],
         NEW h1 \in Word, NEW h2 \in Word, Mix(b1, h1) = Mix(b2, h2)
  PROVE  b1 = b2
BY NumberRestored

\* A step of the conversion to binary loses nothing: half of a number, twice
\* that and the bit that was cut off are the number.
THEOREM HalfAndBack ==
  ASSUME NEW m \in Number
  PROVE  /\ Half(m) \in Number
         /\ TwicePlus(Half(m), m[2] % 2) = m
<1>1. PICK a \in Nat, c \in Nat : m = <<a, c>> /\ a < 100000 /\ c < 100000
  BY DEF Number
<1> DEFINE h1 == a \div 2
           h2 == (c + 100000 * (a % 2)) \div 2
<1>2. Half(m) = <<h1, h2>> /\ m[2] = c
  BY <1>1 DEF Half
<1>3. /\ h1 \in Nat /\ h1 < 50000 /\ a = 2 * h1 + (a % 2)
      /\ h2 \in Nat /\ h2 < 100000
  BY <1>1
<1>4. 2 * h2 + (c % 2) = c + 100000 * (a % 2)
  BY <1>1
<1>5. /\ (c + 100000 * (a % 2)) \div 100000 = a % 2
      /\ (c + 100000 * (a % 2)) % 100000 = c
  <2>1. a % 2 = 0 \/ a % 2 = 1
    BY <1>1
  <2> QED
    BY <1>1, <2>1
<1>6. TwicePlus(<<h1, h2>>, c % 2)
        = <<(2 * h1 + ((2 * h2 + (c % 2)) \div 100000)) % 100000, (2 * h2 + (c % 2)) % 100000>>
  BY DEF TwicePlus
<1>7. TwicePlus(<<h1, h2>>, c % 2) = <<(2 * h1 + (a % 2)) % 100000, c>>
  BY <1>4, <1>5, <1>6
<1>8. (2 * h1 + (a % 2)) % 100000 = a
  BY <1>1, <1>3
<1> QED
  BY <1>1, <1>2, <1>3, <1>7, <1>8 DEF Number


-----------------------------------------------------------------------------
\* The number is halved until nothing is left: what the loop of its bits does.
LEMMA Halving ==
  ASSUME NEW m \in Number
  PROVE  \E halved \in [0..33 -> Number] :
           /\ halved[0] = m
           /\ \A n \in 1..33 : halved[n] = Half(halved[n - 1])
           /\ Binary(m) = [n \in 0..33 |-> halved[n][2] % 2]
<1> DEFINE next == [p \in (1..33) \X Number |-> Half(p[2])]
           halved[n \in 0..33] == IF n = 0 THEN m ELSE Half(halved[n - 1])
<1>1. next \in [(1..33) \X Number -> Number]
  BY HalfAndBack
<1>2. \A n \in 1..33, k \in Number : next[<<n, k>>] = Half(k)
  OBVIOUS
<1> HIDE DEF next
<1>3. PICK f \in [0..33 -> Number] : Recurses(f, 33, m, next)
  BY <1>1, Recursion
<1>4. \A n \in 1..33 : f[n] = Half(f[n - 1])
  BY <1>2, <1>3 DEF Recurses
<1>5. f = [n \in 0..33 |-> IF n = 0 THEN m ELSE Half(f[n - 1])]
  BY <1>3, <1>4 DEF Recurses
<1>6. halved = [n \in 0..33 |-> IF n = 0 THEN m ELSE Half(halved[n - 1])]
  BY <1>5
<1>7. Binary(m) = [n \in 0..33 |-> halved[n][2] % 2]
  BY DEF Binary
<1> HIDE DEF halved
<1>8. \A n \in 0..33 : n \in {i \in 0..33 : halved[i] \in Number}
  <2>1. halved[0] = m /\ \A n \in 1..33 : halved[n] = Half(halved[n - 1])
    BY <1>6
  <2> DEFINE T == {i \in 0..33 : halved[i] \in Number}
  <2>2. 0 \in T /\ \A n \in 1..33 : n - 1 \in T => n \in T
    BY <2>1, HalfAndBack
  <2> HIDE DEF T
  <2>3. \A n \in 0..33 : n \in T
    BY <2>2, Stepwise
  <2> QED
    BY <2>3 DEF T
<1>9. halved \in [0..33 -> Number]
  BY <1>6, <1>8
<1>10. halved[0] = m /\ \A n \in 1..33 : halved[n] = Half(halved[n - 1])
  BY <1>6
<1> QED
  BY <1>7, <1>9, <1>10

\* a number of ten digits has 34 bits: after as many halves it is zero
Value(m) == 100000 * m[1] + m[2]

LEMMA HalfValue ==
  ASSUME NEW m \in Number
  PROVE  Value(Half(m)) = Value(m) \div 2 /\ Value(m) \in Nat /\ Value(m) < 16 * 1073741824
<1>1. PICK a \in Nat, c \in Nat : m = <<a, c>> /\ a < 100000 /\ c < 100000
  BY SMT DEF Number
<1>2. Value(m) = 100000 * a + c
  BY <1>1, SMT DEF Value
<1>3. Value(Half(m)) = 100000 * (a \div 2) + ((c + 100000 * (a % 2)) \div 2)
  BY <1>1, SMT DEF Value, Half
<1>4. PICK h \in Nat, r \in 0..1 : a = 2 * h + r
  <2>1. a = 2 * (a \div 2) + (a % 2) /\ a \div 2 \in Nat /\ a % 2 \in 0..1
    BY <1>1, SMT
  <2> QED
    BY <2>1
<1>5. a \div 2 = h /\ a % 2 = r
  BY <1>4, SMT
<1>6. (c + 100000 * r) \div 2 = 50000 * r + (c \div 2)
  BY <1>1, <1>4, SMT
<1>7. Value(Half(m)) = 100000 * h + (50000 * r + (c \div 2))
  BY <1>3, <1>5, <1>6, SMT
<1>8. (100000 * (2 * h + r) + c) \div 2 = 100000 * h + (50000 * r + (c \div 2))
  BY <1>1, <1>4, SMT
<1>9. Value(m) \in Nat /\ Value(m) < 16 * 1073741824
  BY <1>1, <1>2, SMT
<1> QED
  BY <1>2, <1>4, <1>7, <1>8, <1>9, SMT

LEMMA FourHalves ==
  ASSUME NEW v \in [0..34 -> Nat], \A n \in 1..34 : v[n] = v[n - 1] \div 2,
         NEW n \in 0..30, NEW b \in Nat, v[n] < 16 * b
  PROVE  v[n + 4] < b
<1>1. /\ v[n + 1] = v[n] \div 2 /\ v[n + 2] = v[n + 1] \div 2
      /\ v[n + 3] = v[n + 2] \div 2 /\ v[n + 4] = v[n + 3] \div 2
  <2>1. /\ n + 1 \in 1..34 /\ n + 2 \in 1..34 /\ n + 3 \in 1..34 /\ n + 4 \in 1..34
        /\ (n + 1) - 1 = n /\ (n + 2) - 1 = n + 1
        /\ (n + 3) - 1 = n + 2 /\ (n + 4) - 1 = n + 3
    OBVIOUS
  <2> QED
    BY <2>1
<1>2. v[n] \in Nat /\ v[n + 1] \in Nat /\ v[n + 2] \in Nat /\ v[n + 3] \in Nat /\ v[n + 4] \in Nat
  OBVIOUS
<1>3. \A x, c \in Nat : x < 2 * c => x \div 2 < c
  OBVIOUS
<1>4. v[n + 1] < 8 * b
  BY <1>1, <1>2, <1>3
<1>5. v[n + 2] < 4 * b
  BY <1>1, <1>2, <1>3, <1>4
<1>6. v[n + 3] < 2 * b
  BY <1>1, <1>2, <1>3, <1>5
<1> QED
  BY <1>1, <1>2, <1>3, <1>6

LEMMA NothingLeft ==
  ASSUME NEW v \in [0..34 -> Nat], \A n \in 1..34 : v[n] = v[n - 1] \div 2,
         v[0] < 16 * 1073741824
  PROVE  v[34] = 0
<1>1. v[0 + 4] < 1073741824
  BY FourHalves, SMT
<1>2. v[4 + 4] < 67108864
  BY <1>1, FourHalves, SMT
<1>3. v[8 + 4] < 4194304
  BY <1>2, FourHalves, SMT
<1>4. v[12 + 4] < 262144
  BY <1>3, FourHalves, SMT
<1>5. v[16 + 4] < 16384
  BY <1>4, FourHalves, SMT
<1>6. v[20 + 4] < 1024
  BY <1>5, FourHalves, SMT
<1>7. v[24 + 4] < 64
  BY <1>6, FourHalves, SMT
<1>8. v[28 + 4] < 4
  BY <1>7, FourHalves, SMT
<1>9. v[32] \in 0..3 /\ v[33] = v[32] \div 2 /\ v[34] = v[33] \div 2
  <2>1. v[33] = v[33 - 1] \div 2 /\ v[34] = v[34 - 1] \div 2
    OBVIOUS
  <2>2. v[32] \in Nat
    OBVIOUS
  <2> QED
    BY <1>8, <2>1, <2>2
<1> QED
  BY <1>9, SMT

LEMMA LastHalf ==
  ASSUME NEW m \in Number, NEW halved \in [0..33 -> Number], halved[0] = m,
         \A n \in 1..33 : halved[n] = Half(halved[n - 1])
  PROVE  Half(halved[33]) = <<0, 0>>
<1> DEFINE v == [n \in 0..34 |-> IF n = 34 THEN Value(Half(halved[33])) ELSE Value(halved[n])]
<1>1. v \in [0..34 -> Nat]
  <2>1. \A k \in Number : Value(k) \in Nat /\ Half(k) \in Number
    BY HalfAndBack, HalfValue, SMT
  <2> QED
    BY <2>1, SMT
<1>2. v[0] < 16 * 1073741824
  BY HalfValue, SMT
<1>3. ASSUME NEW n \in 1..34 PROVE v[n] = v[n - 1] \div 2
  <2>1. n - 1 \in 0..33 /\ v[n - 1] = Value(halved[n - 1])
    OBVIOUS
  <2>2. v[n] = Value(Half(halved[n - 1])) /\ halved[n - 1] \in Number
    OBVIOUS
  <2> HIDE DEF v
  <2> QED
    BY <2>1, <2>2, HalfValue, SMT
<1>4. v[34] = 0
  <2> HIDE DEF v
  <2> QED
    BY <1>1, <1>2, <1>3, NothingLeft, SMT
<1>5. Half(halved[33]) \in Number /\ Value(Half(halved[33])) = 0
  BY <1>4, HalfAndBack
<1>6. \A k \in Number : Value(k) = 0 => k = <<0, 0>>
  BY SMT DEF Number, Value
<1> QED
  BY <1>5, <1>6

\* the way back goes through the halves in the other order
LEMMA Doubling ==
  ASSUME NEW m \in Number, NEW bits \in [0..33 -> Bit], NEW halved \in [0..33 -> Number],
         halved[0] = m, Half(halved[33]) = <<0, 0>>,
         \A n \in 1..33 : halved[n] = Half(halved[n - 1]),
         \A n \in 0..33 : bits[n] = halved[n][2] % 2
  PROVE  Decimal(bits) = m
<1> DEFINE f == [n \in 0..34 |-> IF n = 34 THEN <<0, 0>> ELSE halved[n]]
           number[n \in 0..34] ==
             IF n = 34 THEN <<0, 0>> ELSE TwicePlus(number[n + 1], bits[n])
           T == {k \in 0..34 : number[34 - k] = f[34 - k]}
<1>1. ASSUME NEW n \in 0..33 PROVE f[n] = TwicePlus(f[n + 1], bits[n])
  <2>1. f[n] = halved[n] /\ halved[n] \in Number
    OBVIOUS
  <2>2. f[n + 1] = Half(halved[n])
    <3>1. CASE n = 33
      BY <3>1
    <3>2. CASE n # 33
      <4>1. n + 1 \in 1..33 /\ (n + 1) - 1 = n
        BY <3>2
      <4>2. halved[n + 1] = Half(halved[n])
        BY <4>1
      <4> QED
        BY <4>1, <4>2
    <3> QED
      BY <3>1, <3>2
  <2> HIDE DEF f
  <2> QED
    BY <2>1, <2>2, HalfAndBack
<1>2. f = [n \in 0..34 |-> IF n = 34 THEN <<0, 0>> ELSE TwicePlus(f[n + 1], bits[n])]
  <2>1. \A n \in 0..34 : f[n] = IF n = 34 THEN <<0, 0>> ELSE TwicePlus(f[n + 1], bits[n])
    <3>1. f[34] = <<0, 0>>
      OBVIOUS
    <3> HIDE DEF f
    <3> QED
      BY <1>1, <3>1
  <2>2. f = [n \in 0..34 |-> f[n]]
    OBVIOUS
  <2> HIDE DEF f
  <2> QED
    BY <2>1, <2>2
<1>3. Decimal(bits) = number[0]
  BY DEF Decimal
<1> HIDE DEF f
<1>4. number = [n \in 0..34 |-> IF n = 34 THEN <<0, 0>> ELSE TwicePlus(number[n + 1], bits[n])]
  BY <1>2
<1> HIDE DEF number
<1>5. 0 \in T
  BY <1>2, <1>4
<1>6. ASSUME NEW k \in 1..34, k - 1 \in T PROVE k \in T
  <2>1. /\ 34 - k \in 0..33 /\ (34 - k) + 1 = 34 - (k - 1)
        /\ number[34 - (k - 1)] = f[34 - (k - 1)]
    BY <1>6
  <2>2. number[34 - k] = TwicePlus(number[(34 - k) + 1], bits[34 - k])
    BY <1>4, <2>1
  <2>3. f[34 - k] = TwicePlus(f[(34 - k) + 1], bits[34 - k])
    BY <1>1, <2>1
  <2> QED
    BY <2>1, <2>2, <2>3
<1>7. 34 \in T
  <2> HIDE DEF T
  <2>1. \A k \in 0..34 : k \in T
    BY <1>5, <1>6, Stepwise
  <2> QED
    BY <2>1
<1>8. number[0] = f[0]
  BY <1>7
<1>9. f[0] = m
  BY DEF f
<1> QED
  BY <1>3, <1>8, <1>9

\* A number of ten digits written in binary and read back is the number.
THEOREM BinaryRestored ==
  ASSUME NEW m \in Number
  PROVE  Binary(m) \in [0..33 -> Bit] /\ Decimal(Binary(m)) = m
<1>1. PICK halved \in [0..33 -> Number] :
        /\ halved[0] = m
        /\ \A n \in 1..33 : halved[n] = Half(halved[n - 1])
        /\ Binary(m) = [n \in 0..33 |-> halved[n][2] % 2]
  BY Halving
<1>2. \A n \in 0..33 : Binary(m)[n] = halved[n][2] % 2 /\ halved[n][2] % 2 \in Bit
  <2>1. \A k \in Number : k[2] % 2 \in Bit
    BY SMT DEF Number, Bit
  <2> QED
    BY <1>1, <2>1
<1>3. Binary(m) \in [0..33 -> Bit]
  BY <1>1, <1>2
<1>4. Half(halved[33]) = <<0, 0>>
  BY <1>1, LastHalf
<1> QED
  BY <1>1, <1>2, <1>3, <1>4, Doubling

-----------------------------------------------------------------------------
\* five digits and the number that they are
Reads(n, a, b, c, d, e) == n = 10000 * a + 1000 * b + 100 * c + 10 * d + e

Shows(n, a, b, c, d, e) ==
  /\ n \in Nat /\ n < 100000
  /\ (n \div 10000) % 10 = a /\ (n \div 1000) % 10 = b /\ (n \div 100) % 10 = c
  /\ (n \div 10) % 10 = d /\ (n \div 1) % 10 = e

LEMMA FiveDigits ==
  ASSUME NEW a \in 0..9, NEW b \in 0..9, NEW c \in 0..9, NEW d \in 0..9, NEW e \in 0..9,
         NEW n, Reads(n, a, b, c, d, e)
  PROVE  Shows(n, a, b, c, d, e)
<1> n = 10000 * a + 1000 * b + 100 * c + 10 * d + e
  BY SMT DEF Reads
<1>1. n \in Nat /\ n < 100000
  BY SMT
<1>2. n \div 10000 = a
  BY SMT
<1>3. n \div 1000 = 10 * a + b
  BY SMT
<1>4. n \div 100 = 10 * (10 * a + b) + c
  BY SMT
<1>5. n \div 10 = 10 * (10 * (10 * a + b) + c) + d
  BY SMT
<1>6. n \div 1 = 10 * (10 * (10 * (10 * a + b) + c) + d) + e
  BY SMT
<1>7. \A x \in Nat, y \in 0..9 : (10 * x + y) % 10 = y
  BY SMT
<1>8. a % 10 = a
  BY SMT
<1> QED
  BY <1>1, <1>2, <1>3, <1>4, <1>5, <1>6, <1>7, <1>8, SMT DEF Shows

\* The decimal number of ten digits has these digits.
THEOREM DecimalRestored ==
  ASSUME NEW ph \in Phone
  PROVE  convert_to_b10int(ph) \in Number /\ convert_to_b4int(convert_to_b10int(ph)) = ph
<1> DEFINE high == Five(ph, 0)
           low == Five(ph, 5)
           back == convert_to_b4int(<<high, low>>)
<1>1. \A i \in Nibbles : ph[i] \in 0..9
  BY DEF Phone
<1>2. /\ Reads(high, ph[0], ph[1], ph[2], ph[3], ph[4])
      /\ Reads(low, ph[5], ph[6], ph[7], ph[8], ph[9])
  BY SMT DEF Five, Reads
<1>3. back = [i \in Nibbles |->
                (<<high, low>>[1 + (i \div 5)] \div <<10000, 1000, 100, 10, 1>>[1 + (i % 5)]) % 10]
  BY SMT DEF convert_to_b4int
<1>4. convert_to_b10int(ph) = <<high, low>>
  BY SMT DEF convert_to_b10int
<1> HIDE DEF high, low, back
<1>5. /\ ph[0] \in 0..9 /\ ph[1] \in 0..9 /\ ph[2] \in 0..9 /\ ph[3] \in 0..9 /\ ph[4] \in 0..9
      /\ ph[5] \in 0..9 /\ ph[6] \in 0..9 /\ ph[7] \in 0..9 /\ ph[8] \in 0..9 /\ ph[9] \in 0..9
  BY <1>1 DEF Nibbles
<1>6. Shows(high, ph[0], ph[1], ph[2], ph[3], ph[4])
  BY <1>2, <1>5, FiveDigits, Zenon
<1>7. Shows(low, ph[5], ph[6], ph[7], ph[8], ph[9])
  BY <1>2, <1>5, FiveDigits, Zenon
<1>8. /\ back[0] = (high \div 10000) % 10 /\ back[1] = (high \div 1000) % 10
      /\ back[2] = (high \div 100) % 10 /\ back[3] = (high \div 10) % 10
      /\ back[4] = (high \div 1) % 10
  BY <1>3, SMT DEF Nibbles
<1>9. /\ back[5] = (low \div 10000) % 10 /\ back[6] = (low \div 1000) % 10
      /\ back[7] = (low \div 100) % 10 /\ back[8] = (low \div 10) % 10
      /\ back[9] = (low \div 1) % 10
  BY <1>3, SMT DEF Nibbles
<1>10. \A i \in Nibbles : back[i] = ph[i]
  BY <1>6, <1>7, <1>8, <1>9, SMT DEF Nibbles, Shows
<1>11. back = ph
  BY <1>3, <1>10 DEF Phone
<1>12. <<high, low>> \in Number
  BY <1>6, <1>7, SMT DEF Number, Shows
<1> QED
  BY <1>4, <1>11, <1>12 DEF back

\* whatever a text holds besides, its first digits are digits
LEMMA PhoneTyped ==
  ASSUME NEW text \in Texts
  PROVE  phone_to_int(text) \in Phone
<1> DEFINE len == Len(text)
           S == Seq(0..9)
           Next1(n, v) == IF IsDigit(text[n]) THEN Append(v, text[n] - 48) ELSE v
           next == [p \in (1..len) \X S |-> Next1(p[1], p[2])]
           digits[n \in 0..len] ==
             IF n = 0 THEN <<>>
             ELSE IF IsDigit(text[n]) THEN Append(digits[n - 1], text[n] - 48)
                  ELSE digits[n - 1]
<1>1. len \in Nat
  BY DEF Texts
<1>2. phone_to_int(text) =
        [i \in Nibbles |-> IF 10 - i <= Len(digits[len]) THEN digits[len][10 - i] ELSE 0]
  BY DEF phone_to_int
<1>3. \A n, v : v \in S => Next1(n, v) \in S
  <2> SUFFICES ASSUME NEW n, NEW v, v \in S PROVE Next1(n, v) \in S
    OBVIOUS
  <2>1. CASE IsDigit(text[n])
    <3>1. text[n] - 48 \in 0..9
      BY <2>1 DEF IsDigit
    <3>2. Append(v, text[n] - 48) \in S
      BY <3>1
    <3> QED
      BY <2>1, <3>2
  <2>2. CASE ~IsDigit(text[n])
    BY <2>2
  <2> QED
    BY <2>1, <2>2
<1>4. /\ next \in [(1..len) \X S -> S] /\ <<>> \in S
      /\ \A n \in 1..len, v \in S : next[<<n, v>>] = Next1(n, v)
  <2>1. <<>> \in S
    OBVIOUS
  <2> HIDE DEF S, Next1, len
  <2> QED
    BY <1>3, <2>1
<1> HIDE DEF next
<1>5. PICK f \in [0..len -> S] : Recurses(f, len, <<>>, next)
  <2> HIDE DEF S, len
  <2> QED
    BY <1>1, <1>4, Recursion
<1>6. f = [n \in 0..len |-> IF n = 0 THEN <<>> ELSE Next1(n, f[n - 1])]
  <2> HIDE DEF S, Next1
  <2>1. \A n \in 1..len : f[n] = Next1(n, f[n - 1])
    <3> SUFFICES ASSUME NEW n \in 1..len PROVE f[n] = Next1(n, f[n - 1])
      OBVIOUS
    <3>1. n - 1 \in 0..len
      BY <1>1
    <3>2. f[n - 1] \in S /\ f[n] = next[<<n, f[n - 1]>>]
      BY <1>5, <3>1 DEF Recurses
    <3> QED
      BY <1>4, <3>2
  <2> QED
    BY <1>1, <1>5, <2>1 DEF Recurses
<1>7. digits = [n \in 0..len |-> IF n = 0 THEN <<>> ELSE Next1(n, digits[n - 1])]
  BY <1>6
<1> HIDE DEF digits, Next1
<1>8. digits[len] \in S
  <2> DEFINE T == {n \in 0..len : digits[n] \in S}
  <2>1. 0 \in T
    BY <1>1, <1>4, <1>7
  <2>2. ASSUME NEW n \in 1..len, n - 1 \in T PROVE n \in T
    <3>1. digits[n - 1] \in S
      BY <2>2
    <3>2. digits[n] = Next1(n, digits[n - 1])
      BY <1>1, <1>7
    <3> QED
      BY <1>3, <3>1, <3>2
  <2> HIDE DEF T
  <2>3. len \in T
    <3>1. \A n \in 0..len : n \in T
      BY <1>1, <2>1, <2>2, Stepwise
    <3> QED
      BY <1>1, <3>1
  <2> QED
    BY <2>3 DEF T
<1>9. ASSUME NEW i \in Nibbles, 10 - i <= Len(digits[len])
      PROVE  digits[len][10 - i] \in 0..9
  <2>1. 10 - i \in 1..Len(digits[len])
    BY <1>8, <1>9 DEF Nibbles
  <2> QED
    BY <1>8, <2>1
<1> QED
  BY <1>2, <1>9 DEF Phone

-----------------------------------------------------------------------------
LEMMA RotatedXor ==
  ASSUME NEW v \in Word, NEW w \in Word
  PROVE  Xor(v, w) \in Word /\ RotateRight(v) \in Word
<1>1. \A i \in 0..31 : v[i] \in Bit /\ w[i] \in Bit /\ v[(i + 1) % 32] \in Bit
  BY DEF Word
<1>2. \A x, y \in Bit : (x + y) % 2 \in Bit
  BY DEF Bit
<1> QED
  BY <1>1, <1>2 DEF Word, Xor, RotateRight

LEMMA SeedTyped == Hex(<<15, 6, 12, 12, 12, 10, 2, 8>>) \in Word
<1> DEFINE n == <<15, 6, 12, 12, 12, 10, 2, 8>>
<1>1. \A i \in 0..31 : n[8 - i \div 4] \in Nat
  <2>1. \A k \in 1..8 : n[k] \in Nat
    OBVIOUS
  <2>2. \A i \in 0..31 : 8 - i \div 4 \in 1..8
    OBVIOUS
  <2> HIDE DEF n
  <2> QED
    BY <2>1, <2>2
<1> HIDE DEF n
<1>2. \A k \in 1..4 : <<1, 2, 4, 8>>[k] \in Nat \ {0}
  OBVIOUS
<1>3. \A i \in 0..31 : <<1, 2, 4, 8>>[1 + (i % 4)] \in Nat \ {0}
  <2>1. \A i \in 0..31 : 1 + (i % 4) \in 1..4
    OBVIOUS
  <2> QED
    BY <1>2, <2>1
<1>4. \A x \in Nat, y \in Nat \ {0} : (x \div y) % 2 \in Bit
  BY DEF Bit
<1>5. \A i \in 0..31 :
        (n[8 - i \div 4] \div <<1, 2, 4, 8>>[1 + (i % 4)]) % 2 \in Bit
  BY <1>1, <1>3, <1>4
<1> QED
  BY <1>5 DEF Hex, Word, n

\* a text has a hash of 32 bits
LEMMA HashTyped ==
  ASSUME NEW msg \in Texts
  PROVE  do_buz_hash(msg) \in Word
<1> DEFINE len == Len(msg)
           seed == Hex(<<15, 6, 12, 12, 12, 10, 2, 8>>)
           Step(n, h) == Xor(RotateRight(h), BuzBucket[msg[n]])
           next == [p \in (1..len) \X Word |-> Step(p[1], p[2])]
           hash[n \in 0..len] ==
             IF n = 0 THEN seed ELSE Xor(RotateRight(hash[n - 1]), BuzBucket[msg[n]])
<1>1. len \in Nat /\ seed \in Word
  BY SeedTyped DEF Texts
<1>2. ASSUME NEW n \in 1..len, NEW h \in Word PROVE Step(n, h) \in Word
  <2>1. msg[n] \in DOMAIN BuzBucket
    BY DEF Texts
  <2> QED
    BY <2>1, RotatedXor, UidAssumption
<1>3. do_buz_hash(msg) = hash[len]
  BY DEF do_buz_hash
<1>4. next \in [(1..len) \X Word -> Word] /\ \A n \in 1..len, h \in Word : next[<<n, h>>] = Step(n, h)
  <2> HIDE DEF Step, len
  <2> QED
    BY <1>2
<1> HIDE DEF next, seed
<1>5. PICK f \in [0..len -> Word] : Recurses(f, len, seed, next)
  <2> HIDE DEF len
  <2> QED
    BY <1>1, <1>4, Recursion
<1>6. f = [n \in 0..len |-> IF n = 0 THEN seed ELSE Step(n, f[n - 1])]
  <2> HIDE DEF Step
  <2>1. \A n \in 1..len : f[n] = Step(n, f[n - 1])
    <3> SUFFICES ASSUME NEW n \in 1..len PROVE f[n] = Step(n, f[n - 1])
      OBVIOUS
    <3>1. n - 1 \in 0..len
      BY <1>1
    <3>2. f[n - 1] \in Word /\ f[n] = next[<<n, f[n - 1]>>]
      BY <1>5, <3>1 DEF Recurses
    <3> QED
      BY <1>4, <3>2
  <2> QED
    BY <1>1, <1>5, <2>1 DEF Recurses
<1>7. hash = [n \in 0..len |-> IF n = 0 THEN seed ELSE Step(n, hash[n - 1])]
  BY <1>6
<1> HIDE DEF hash, Step
<1> DEFINE T == {n \in 0..len : hash[n] \in Word}
<1>8. 0 \in T
  BY <1>1, <1>7
<1>9. ASSUME NEW n \in 1..len, n - 1 \in T PROVE n \in T
  <2>1. hash[n - 1] \in Word
    BY <1>9
  <2>2. hash[n] = Step(n, hash[n - 1])
    BY <1>1, <1>7
  <2> QED
    BY <1>2, <2>1, <2>2
<1>10. len \in T
  <2> HIDE DEF T
  <2>1. \A n \in 0..len : n \in T
    BY <1>1, <1>8, <1>9, Stepwise
  <2> QED
    BY <1>1, <2>1
<1> QED
  BY <1>3, <1>10

LEMMA HashCodeTyped ==
  ASSUME NEW phone \in Texts, NEW email \in Texts
  PROVE  HashCode(phone, email) \in Word
BY HashTyped, RotatedXor DEF HashCode

-----------------------------------------------------------------------------
\* the six bits that a character stands for
BitAt(uid, i) == IF i > 63 THEN 0 ELSE uid[i]

LEMMA SextetBits ==
  ASSUME NEW uid \in Long, NEW k \in 0..10, NEW j \in 0..5
  PROVE  /\ Sextet(uid, k) \in Nat
         /\ (Sextet(uid, k) \div <<1, 2, 4, 8, 16, 32>>[1 + j]) % 2 = BitAt(uid, 6 * k + j)
         /\ Sextet(uid, k) = 0 => BitAt(uid, 6 * k + j) = 0
<1> DEFINE a == BitAt(uid, 6 * k)
           b == BitAt(uid, 6 * k + 1)
           c == BitAt(uid, 6 * k + 2)
           d == BitAt(uid, 6 * k + 3)
           e == BitAt(uid, 6 * k + 4)
           f == BitAt(uid, 6 * k + 5)
           s == Sextet(uid, k)
<1>1. s = a + 2 * b + 4 * c + 8 * d + 16 * e + 32 * f
  BY DEF Sextet, BitAt
<1>2. \A i \in 0..65 : BitAt(uid, i) \in 0..1
  BY DEF BitAt, Long, Bit
<1>3. /\ a \in 0..1 /\ b \in 0..1 /\ c \in 0..1 /\ d \in 0..1 /\ e \in 0..1 /\ f \in 0..1
  BY <1>2
<1> HIDE DEF a, b, c, d, e, f, s
<1>4. /\ s \in Nat
      /\ s = 0 => a = 0 /\ b = 0 /\ c = 0 /\ d = 0 /\ e = 0 /\ f = 0
  BY <1>1, <1>3
<1>5. (s \div 1) % 2 = a /\ (s \div 2) % 2 = b /\ (s \div 4) % 2 = c
  BY <1>1, <1>3, SMT
<1>6. (s \div 8) % 2 = d /\ (s \div 16) % 2 = e /\ (s \div 32) % 2 = f
  BY <1>1, <1>3, SMT
<1>7. CASE j = 0
  BY <1>4, <1>5, <1>7 DEF a, s
<1>8. CASE j = 1
  BY <1>4, <1>5, <1>8 DEF b, s
<1>9. CASE j = 2
  BY <1>4, <1>5, <1>9 DEF c, s
<1>10. CASE j = 3
  BY <1>4, <1>6, <1>10 DEF d, s
<1>11. CASE j = 4
  BY <1>4, <1>6, <1>11 DEF e, s
<1>12. CASE j = 5
  BY <1>4, <1>6, <1>12 DEF f, s
<1> QED
  BY <1>7, <1>8, <1>9, <1>10, <1>11, <1>12

\* The text of a UID gives the UID back: the characters that it leaves out are
\* zeros at the top, and none that it needs.
THEOREM TextRestored ==
  ASSUME NEW uid \in Long
  PROVE  uid_str_to_uid(UidText(uid)) = uid
<1> DEFINE Ends(n) == /\ n = 0 \/ Sextet(uid, n - 1) # 0
                      /\ \A k \in n..10 : Sextet(uid, k) = 0
           Zeros == {n \in 0..11 : \A k \in n..10 : Sextet(uid, k) = 0}
<1>1. PICK x \in Zeros : \A y \in Zeros : x <= y
  <2>1. 11 \in Zeros /\ Zeros \subseteq Nat
    OBVIOUS
  <2> HIDE DEF Zeros
  <2> QED
    BY <2>1, LeastNumber
<1>2. \E n \in 0..11 : Ends(n)
  <2>1. CASE x = 0
    BY <2>1
  <2>2. CASE x # 0
    <3>1. x - 1 \in 0..11 /\ x - 1 \notin Zeros
      BY <1>1, <2>2
    <3>2. PICK k \in (x - 1)..10 : Sextet(uid, k) # 0
      BY <3>1
    <3>3. k = x - 1
      BY <2>2, <3>2
    <3> QED
      BY <3>2, <3>3
  <2> QED
    BY <2>1, <2>2
<1> DEFINE last == CHOOSE n \in 0..11 : Ends(n)
<1>3. last \in 0..11 /\ \A k \in last..10 : Sextet(uid, k) = 0
  BY <1>2
<1>4. UidText(uid) = [k \in 1..last |-> Sextet(uid, k - 1)]
  BY DEF UidText
<1> HIDE DEF last
<1> DEFINE text == UidText(uid)
<1>5. Len(text) = last /\ \A i \in 0..(last - 1) : text[i + 1] = Sextet(uid, i)
  <2>1. text \in Seq(Nat) /\ Len(text) = last
    <3>1. \A k \in 1..last : Sextet(uid, k - 1) \in Nat
      <4> SUFFICES ASSUME NEW k \in 1..last PROVE Sextet(uid, k - 1) \in Nat
        OBVIOUS
      <4>1. k - 1 \in 0..10 /\ 0 \in 0..5
        BY <1>3
      <4> QED
        BY <4>1, SextetBits
    <3> QED
      BY <1>3, <1>4, <3>1
  <2> QED
    BY <1>3, <1>4, <2>1
<1> HIDE DEF text
<1>6. uid_str_to_uid(text) =
        [b \in 0..63 |-> IF b \div 6 < Len(text)
                         THEN (text[b \div 6 + 1] \div <<1, 2, 4, 8, 16, 32>>[1 + (b % 6)]) % 2
                         ELSE 0]
  BY DEF uid_str_to_uid
<1>7. ASSUME NEW b \in 0..63 PROVE uid_str_to_uid(text)[b] = uid[b]
  <2>1. PICK k \in 0..10, j \in 0..5 : k = b \div 6 /\ j = b % 6
    OBVIOUS
  <2>2. b = 6 * k + j /\ BitAt(uid, 6 * k + j) = uid[b]
    BY <2>1 DEF BitAt
  <2>3. CASE k < last
    <3>1. text[k + 1] = Sextet(uid, k)
      BY <1>3, <1>5, <2>3
    <3>2. uid_str_to_uid(text)[b] = (Sextet(uid, k) \div <<1, 2, 4, 8, 16, 32>>[1 + j]) % 2
      BY <1>5, <1>6, <2>1, <2>3, <3>1
    <3> QED
      BY <2>2, <3>2, SextetBits
  <2>4. CASE ~(k < last)
    <3>1. Sextet(uid, k) = 0
      BY <1>3, <2>4
    <3>2. uid_str_to_uid(text)[b] = 0
      BY <1>5, <1>6, <2>1, <2>4
    <3> QED
      BY <2>2, <3>1, <3>2, SextetBits
  <2> QED
    BY <2>3, <2>4
<1>8. uid_str_to_uid(text) = uid
  BY <1>6, <1>7 DEF Long
<1> QED
  BY <1>8 DEF text

LEMMA MixTyped ==
  ASSUME NEW bits \in [0..33 -> Bit], NEW hash \in Word
  PROVE  Mix(bits, hash) \in Long
<1>1. PICK n \in Long : n = interleave_nibble(HighWord(bits), LowWord(bits, hash))
  BY HalvesType, NibblesRestored
<1>2. Mix(bits, hash) = permute_nibble_bits3142(n)
  BY <1>1 DEF Mix
<1>3. \A b \in 0..63 : n[From(b)] \in Bit
  BY FromCases DEF Long
<1> QED
  BY <1>2, <1>3 DEF permute_nibble_bits3142, Long

LEMMA HalvesRestored ==
  ASSUME NEW bits \in [0..33 -> Bit], NEW hash \in Word
  PROVE  Unmix(Mix(bits, hash))[2] = LowWord(bits, hash)
<1>1. PICK n \in Long : /\ n = interleave_nibble(HighWord(bits), LowWord(bits, hash))
                        /\ deinterleave_nibble(n) = <<HighWord(bits), LowWord(bits, hash)>>
  BY HalvesType, NibblesRestored
<1>2. Mix(bits, hash) = permute_nibble_bits3142(n)
  BY <1>1 DEF Mix
<1> QED
  BY <1>1, <1>2, FourRounds DEF Unmix

\* The phone is in the UID: whatever the e-mail, and whatever the texts hold
\* besides digits, the way back of uid.c leads to the phone's first ten digits.
\* The 30 bits of the hash that are not the phone's come back, too.
THEOREM UidGivesBack ==
  ASSUME NEW phone \in Texts, NEW email \in Texts,
         NEW text, text = UidText(gweb_app_get_uid(phone, email))
  PROVE  /\ PhoneOf(text) = phone_to_int(phone)
         /\ \A i \in 2..31 :
              Unmix(uid_str_to_uid(text))[2][i] = HashCode(phone, email)[i]
<1> DEFINE ph == phone_to_int(phone)
           digits == permute_phone_digits(ph, p_encode)
           number == convert_to_b10int(digits)
           bits == Binary(number)
           hash == HashCode(phone, email)
<1>1. ph \in Phone
  BY PhoneTyped
<1>2. digits \in Phone
  <2>1. \A j \in Nibbles : MovesTo(j, p_encode) \in Nibbles
    <3> SUFFICES ASSUME NEW j \in Nibbles PROVE MovesTo(j, p_encode) \in Nibbles
      OBVIOUS
    <3>1. p_decode[j] \in Nibbles /\ p_encode[p_decode[j]] = j
      BY EncodeIndex
    <3> QED
      BY <3>1 DEF MovesTo
  <2> HIDE DEF ph
  <2> QED
    BY <1>1, <2>1 DEF permute_phone_digits, Phone
<1>3. permute_phone_digits(digits, p_decode) = ph
  BY <1>1, DigitsRestored
<1>4. gweb_app_get_uid(phone, email) = Mix(bits, hash)
  BY DEF gweb_app_get_uid
<1> HIDE DEF ph, digits
<1>5. number \in Number /\ convert_to_b4int(number) = digits
  BY <1>2, DecimalRestored
<1> HIDE DEF number
<1>6. bits \in [0..33 -> Bit] /\ Decimal(bits) = number
  BY <1>5, BinaryRestored
<1>7. hash \in Word
  BY HashCodeTyped
<1> HIDE DEF bits, hash
<1>8. Mix(bits, hash) \in Long
  BY <1>6, <1>7, MixTyped
<1>9. uid_str_to_uid(text) = Mix(bits, hash)
  BY <1>4, <1>8, TextRestored
<1>10. PhoneBits(Unmix(Mix(bits, hash))) = bits
  BY <1>6, <1>7, NumberRestored
<1>11. PhoneOf(text) = ph
  BY <1>3, <1>5, <1>6, <1>9, <1>10 DEF PhoneOf
<1>12. \A i \in 2..31 : Unmix(uid_str_to_uid(text))[2][i] = hash[i]
  <2>1. Unmix(uid_str_to_uid(text))[2] = LowWord(bits, hash)
    BY <1>6, <1>7, <1>9, HalvesRestored
  <2>2. \A i \in 2..31 : LowWord(bits, hash)[i] = hash[i]
    BY DEF LowWord
  <2> QED
    BY <2>1, <2>2
<1> QED
  BY <1>11, <1>12 DEF ph, hash

\* the empty UID reads as ten zeros, with a hash of zero
LEMMA EmptyGivesZero ==
  /\ PhoneOf(<<>>) = [i \in Nibbles |-> 0]
  /\ \A i \in 2..31 : Unmix(uid_str_to_uid(<<>>))[2][i] = 0
<1> DEFINE zero == [b \in 0..63 |-> 0]
           bits == [n \in 0..33 |-> 0]
           hash == [i \in 0..31 |-> 0]
<1>1. uid_str_to_uid(<<>>) = zero
  <2>1. \A b \in 0..63 : ~(b \div 6 < Len(<<>>))
    OBVIOUS
  <2> QED
    BY <2>1 DEF uid_str_to_uid
<1>2. bits \in [0..33 -> Bit] /\ hash \in Word /\ zero \in Long
  BY DEF Bit, Word, Long
<1>3. Mix(bits, hash) = zero
  <2>1. HighWord(bits) = hash /\ LowWord(bits, hash) = hash
    BY DEF HighWord, LowWord
  <2>2. interleave_nibble(hash, hash) = zero
    <3>1. \A b \in 0..63 : 4 * (b \div 8) + (b % 4) \in 0..31
      OBVIOUS
    <3> QED
      BY <3>1 DEF interleave_nibble
  <2>3. permute_nibble_bits3142(zero) = zero
    BY FromCases DEF permute_nibble_bits3142
  <2> HIDE DEF bits, hash, zero
  <2> QED
    BY <2>1, <2>2, <2>3 DEF Mix
<1>4. Decimal(bits) = <<0, 0>>
  <2> DEFINE halved == [n \in 0..33 |-> <<0, 0>>]
  <2>1. <<0, 0>> \in Number /\ Half(<<0, 0>>) = <<0, 0>>
    BY SMT DEF Number, Half
  <2>2. halved \in [0..33 -> Number] /\ \A n \in 0..33 : halved[n] = <<0, 0>>
    BY <2>1
  <2>3. \A n \in 0..33 : bits[n] = halved[n][2] % 2
    OBVIOUS
  <2> HIDE DEF halved, bits
  <2>4. \A n \in 1..33 : halved[n] = Half(halved[n - 1])
    <3>1. \A n \in 1..33 : n - 1 \in 0..33 /\ n \in 0..33
      OBVIOUS
    <3> QED
      BY <2>1, <2>2, <3>1
  <2>5. halved[0] = <<0, 0>> /\ Half(halved[33]) = <<0, 0>>
    BY <2>1, <2>2
  <2> QED
    BY <1>2, <2>1, <2>2, <2>3, <2>4, <2>5, Doubling
<1>5. convert_to_b4int(<<0, 0>>) = [i \in Nibbles |-> 0]
  <2>1. \A i \in Nibbles : <<0, 0>>[1 + (i \div 5)] = 0
    BY DEF Nibbles
  <2>2. \A i \in Nibbles : <<10000, 1000, 100, 10, 1>>[1 + (i % 5)] \in Nat \ {0}
    <3>1. \A k \in 1..5 : <<10000, 1000, 100, 10, 1>>[k] \in Nat \ {0}
      BY SMT
    <3>2. \A i \in Nibbles : 1 + (i % 5) \in 1..5
      BY DEF Nibbles
    <3> QED
      BY <3>1, <3>2
  <2>3. \A y \in Nat \ {0} : (0 \div y) % 10 = 0
    OBVIOUS
  <2> QED
    BY <2>1, <2>2, <2>3, SMT DEF convert_to_b4int
<1>6. permute_phone_digits([i \in Nibbles |-> 0], p_decode) = [i \in Nibbles |-> 0]
  <2>1. \A j \in Nibbles : MovesTo(j, p_decode) \in Nibbles
    <3> SUFFICES ASSUME NEW j \in Nibbles PROVE MovesTo(j, p_decode) \in Nibbles
      OBVIOUS
    <3>1. p_encode[j] \in Nibbles /\ p_decode[p_encode[j]] = j
      BY EncodeIndex
    <3> QED
      BY <3>1 DEF MovesTo
  <2> QED
    BY <2>1 DEF permute_phone_digits
<1> HIDE DEF zero, bits
<1>7. PhoneBits(Unmix(zero)) = bits
  BY <1>2, <1>3, NumberRestored
<1>8. PhoneOf(<<>>) = [i \in Nibbles |-> 0]
  BY <1>1, <1>4, <1>5, <1>6, <1>7 DEF PhoneOf
<1>9. Unmix(zero)[2] = LowWord(bits, hash)
  BY <1>2, <1>3, HalvesRestored
<1>10. \A i \in 2..31 : LowWord(bits, hash)[i] = 0
  BY DEF LowWord
<1> QED
  BY <1>1, <1>8, <1>9, <1>10

-----------------------------------------------------------------------------
\* what a UID tells of its user
LEMMA UidTells ==
  ASSUME NEW p \in People
  PROVE  /\ PhoneOf(UidOf[p]) = Digits(p)
         /\ \A i \in 2..31 : Unmix(uid_str_to_uid(UidOf[p]))[2][i] = Hashed(p)[i]
<1>1. CASE Incomplete(p)
  <2>1. UidOf[p] = <<>>
    BY <1>1 DEF UidOf, gweb_app_get_uid_str, Incomplete
  <2> QED
    BY <1>1, <2>1, EmptyGivesZero DEF Digits, Hashed
<1>2. CASE ~Incomplete(p)
  <2>1. /\ UidOf[p] = UidText(gweb_app_get_uid(p.phone, p.email))
        /\ p.phone \in Texts /\ p.email \in Texts
    BY <1>2, RegistryAssumption DEF UidOf, gweb_app_get_uid_str, Incomplete
  <2> QED
    BY <1>2, <2>1, UidGivesBack DEF Digits, Hashed, HashCode
<1> QED
  BY <1>1, <1>2

AccountsInv == \A a \in accounts : a.who \in People /\ a.uid = UidOf[a.who]

RegistryInv == AccountsInv /\ RefusedForReason

LEMMA RegistryStep == RegistryInv /\ [Next]_vars => RegistryInv'
<1> SUFFICES ASSUME RegistryInv, [Next]_vars
             PROVE  RegistryInv'
  OBVIOUS
<1>1. ASSUME NEW p \in People, Register(p)
      PROVE  RegistryInv'
  <2>1. CASE /\ accounts' = accounts \cup {[who |-> p, uid |-> UidOf[p]]}
             /\ UNCHANGED refused
    BY <2>1 DEF RegistryInv, AccountsInv, RefusedForReason
  <2>2. CASE /\ Known(p, UidOf[p])
             /\ refused' = p
             /\ UNCHANGED accounts
    <3>1. PICK a \in accounts : a.uid = UidOf[p] \/ (p.email # Absent /\ a.who.email = p.email)
      BY <2>2 DEF Known
    <3>2. CASE p.email # Absent /\ a.who.email = p.email
      BY <2>2, <3>2 DEF RegistryInv, AccountsInv, RefusedForReason
    <3>3. CASE a.uid = UidOf[p]
      <4>1. a.who \in People /\ UidOf[a.who] = UidOf[p]
        BY <3>3 DEF RegistryInv, AccountsInv
      <4>2. /\ Digits(a.who) = Digits(p)
            /\ \A i \in 2..31 : Hashed(a.who)[i] = Hashed(p)[i]
        BY <4>1, UidTells
      <4> QED
        BY <2>2, <4>2 DEF RegistryInv, AccountsInv, RefusedForReason
    <3> QED
      BY <3>1, <3>2, <3>3
  <2> QED
    BY <1>1, <2>1, <2>2 DEF Register
<1>2. CASE UNCHANGED vars
  BY <1>2 DEF vars, RegistryInv, AccountsInv, RefusedForReason
<1> QED
  BY <1>1, <1>2 DEF Next

LEMMA RegistryAlways == Spec => []RegistryInv
<1>1. Init => RegistryInv
  BY DEF Init, RegistryInv, AccountsInv, RefusedForReason
<1> QED
  BY <1>1, RegistryStep, PTL DEF Spec

\* Whoever registers with a phone and an e-mail, in whatever order, gets a UID
\* that gives back the first ten digits of the phone.
THEOREM PhoneRecoveredHolds == Spec => []PhoneRecovered
<1>1. RegistryInv => PhoneRecovered
  BY UidTells DEF RegistryInv, AccountsInv, PhoneRecovered, Digits
<1> QED
  BY <1>1, RegistryAlways, PTL

\* No registration is refused as a duplicate but for the e-mail, or for digits
\* and a hash that are an earlier user's: users with different digits are never
\* taken for one another, whatever the table of the hash.
THEOREM RefusedForReasonHolds == Spec => []RefusedForReason
<1>1. RegistryInv => RefusedForReason
  BY DEF RegistryInv
<1> QED
  BY <1>1, RegistryAlways, PTL

=============================================================================
