----------------------------- MODULE Aes_proofs -----------------------------
(***************************************************************************)
(* aes128.c for every key, initialization vector and message: its steps    *)
(* are those of the standard, decryption undoes encryption in place, and   *)
(* what the MAC of a message depends on.  The tables are those of the      *)
(* code, entry by entry.                                                   *)
(***************************************************************************)
EXTENDS Aes, SequenceTheorems, WellFoundedInduction, TLAPS

-----------------------------------------------------------------------------
(* Bytes are a group under exclusive or, in which each is its own inverse. *)

LEMMA PlusIsXor ==
    ASSUME NEW k \in Byte, NEW m \in Byte
    PROVE  Plus(k, m) = Xor(k, m)
<1> DEFINE row(a) == [c \in 1 .. 256 |-> Xor(a - 1, c - 1)] \o << >>
<1> DEFINE all == [a \in 1 .. 256 |-> row(a)] \o << >>
<1>1. Sums = all
  BY Zenon DEF Sums, Tabulate
<1> HIDE DEF row
<1>2. all[k + 1] = row(k + 1)
  BY DEF Byte
<1>3. row(k + 1)[m + 1] = Xor(k + 1 - 1, m + 1 - 1)
  BY DEF row, Byte
<1> QED BY <1>1, <1>2, <1>3 DEF Plus, Byte

Sum8(p, q, s, t, u, v, w, z) == p + 2 * q + 4 * s + 8 * t + 16 * u + 32 * v + 64 * w + 128 * z

LEMMA BitsOfSum ==
    ASSUME NEW p \in {0, 1}, NEW q \in {0, 1}, NEW s \in {0, 1}, NEW t \in {0, 1},
           NEW u \in {0, 1}, NEW v \in {0, 1}, NEW w \in {0, 1}, NEW z \in {0, 1}
    PROVE  LET n == Sum8(p, q, s, t, u, v, w, z)
           IN /\ n \in Byte
              /\ Bit(n, 1) = p /\ Bit(n, 2) = q /\ Bit(n, 4) = s /\ Bit(n, 8) = t
              /\ Bit(n, 16) = u /\ Bit(n, 32) = v /\ Bit(n, 64) = w /\ Bit(n, 128) = z
BY SMTT(60) DEF Sum8, Bit, Byte

LEMMA BitTyped ==
    ASSUME NEW n \in Byte
    PROVE  \A w \in Weight : Bit(n, w) \in {0, 1}
BY DEF Bit, Byte, Weight

LEMMA SumOfBits ==
    ASSUME NEW n \in Byte
    PROVE  n = Sum8(Bit(n, 1), Bit(n, 2), Bit(n, 4), Bit(n, 8), Bit(n, 16), Bit(n, 32), Bit(n, 64), Bit(n, 128))
BY SMTT(60) DEF Byte, Bit, Sum8

(* Bytes with the same bits are the same. *)
LEMMA SameBits ==
    ASSUME NEW k \in Byte, NEW m \in Byte, \A w \in Weight : Bit(k, w) = Bit(m, w)
    PROVE  k = m
BY SumOfBits DEF Weight

LEMMA PlusBits ==
    ASSUME NEW k \in Byte, NEW m \in Byte
    PROVE  /\ Plus(k, m) \in Byte
           /\ \A w \in Weight : Bit(Plus(k, m), w) = IF Bit(k, w) = Bit(m, w) THEN 0 ELSE 1
<1> DEFINE one(w) == IF Bit(k, w) = Bit(m, w) THEN 0 ELSE 1
<1>1. Xor(k, m) = Sum8(one(1), one(2), one(4), one(8), one(16), one(32), one(64), one(128))
  BY SMTT(60) DEF Xor, Sum8
<1>2. \A w \in Weight : one(w) \in {0, 1}
  OBVIOUS
<1> HIDE DEF one
<1>3. /\ Xor(k, m) \in Byte
      /\ Bit(Xor(k, m), 1) = one(1) /\ Bit(Xor(k, m), 2) = one(2) /\ Bit(Xor(k, m), 4) = one(4)
      /\ Bit(Xor(k, m), 8) = one(8) /\ Bit(Xor(k, m), 16) = one(16) /\ Bit(Xor(k, m), 32) = one(32)
      /\ Bit(Xor(k, m), 64) = one(64) /\ Bit(Xor(k, m), 128) = one(128)
  <2>1. 1 \in Weight /\ 2 \in Weight /\ 4 \in Weight /\ 8 \in Weight /\ 16 \in Weight /\ 32 \in Weight
        /\ 64 \in Weight /\ 128 \in Weight
    BY DEF Weight
  <2> QED BY ONLY <1>1, <1>2, <2>1, BitsOfSum
<1>4. \A w \in Weight : Bit(Xor(k, m), w) = one(w)
  BY <1>3 DEF Weight
<1> QED BY <1>3, <1>4, PlusIsXor DEF one

LEMMA PlusZero ==
    ASSUME NEW k \in Byte
    PROVE  Plus(k, 0) = k /\ Plus(k, k) = 0
<1>1. 0 \in Byte /\ \A w \in Weight : Bit(0, w) = 0
  BY DEF Bit, Byte, Weight
<1>2. /\ Plus(k, 0) \in Byte /\ Plus(k, k) \in Byte
      /\ \A w \in Weight : /\ Bit(Plus(k, 0), w) = IF Bit(k, w) = 0 THEN 0 ELSE 1
                           /\ Bit(Plus(k, k), w) = 0
  BY <1>1, PlusBits
<1> QED BY <1>1, <1>2, BitTyped, SameBits

LEMMA PlusCommutes ==
    ASSUME NEW k \in Byte, NEW m \in Byte
    PROVE  Plus(k, m) = Plus(m, k)
<1>1. \A w \in Weight : Bit(Plus(k, m), w) = Bit(Plus(m, k), w)
  BY PlusBits
<1> QED BY <1>1, PlusBits, SameBits

LEMMA PlusAssociates ==
    ASSUME NEW k \in Byte, NEW m \in Byte, NEW n \in Byte
    PROVE  Plus(Plus(k, m), n) = Plus(k, Plus(m, n))
<1>1. Plus(k, m) \in Byte /\ Plus(m, n) \in Byte
  BY PlusBits
<1>2. Plus(Plus(k, m), n) \in Byte /\ Plus(k, Plus(m, n)) \in Byte
  BY <1>1, PlusBits
<1>3. ASSUME NEW w \in Weight PROVE Bit(Plus(Plus(k, m), n), w) = Bit(Plus(k, Plus(m, n)), w)
  <2>1. Bit(k, w) \in {0, 1} /\ Bit(m, w) \in {0, 1} /\ Bit(n, w) \in {0, 1}
    BY BitTyped
  <2>2. /\ Bit(Plus(k, m), w) = IF Bit(k, w) = Bit(m, w) THEN 0 ELSE 1
        /\ Bit(Plus(m, n), w) = IF Bit(m, w) = Bit(n, w) THEN 0 ELSE 1
        /\ Bit(Plus(Plus(k, m), n), w) = IF Bit(Plus(k, m), w) = Bit(n, w) THEN 0 ELSE 1
        /\ Bit(Plus(k, Plus(m, n)), w) = IF Bit(k, w) = Bit(Plus(m, n), w) THEN 0 ELSE 1
    BY <1>1, PlusBits
  <2> QED BY <2>1, <2>2
<1> QED BY <1>2, <1>3, SameBits

(* Adding the same twice adds nothing. *)
LEMMA PlusTwice ==
    ASSUME NEW k \in Byte, NEW m \in Byte
    PROVE  Plus(Plus(k, m), m) = k
BY PlusAssociates, PlusZero

LEMMA Interchange ==
    ASSUME NEW k \in Byte, NEW m \in Byte, NEW n \in Byte, NEW p \in Byte
    PROVE  Plus(Plus(k, m), Plus(n, p)) = Plus(Plus(k, n), Plus(m, p))
<1>1. /\ Plus(m, n) = Plus(n, m)
      /\ Plus(m, p) \in Byte /\ Plus(n, p) \in Byte /\ Plus(m, n) \in Byte
  BY PlusCommutes, PlusBits
<1>2. Plus(Plus(k, m), Plus(n, p)) = Plus(k, Plus(m, Plus(n, p)))
  BY <1>1, PlusAssociates
<1>3. Plus(m, Plus(n, p)) = Plus(Plus(n, m), p)
  BY <1>1, PlusAssociates
<1>4. Plus(Plus(n, m), p) = Plus(n, Plus(m, p))
  BY PlusAssociates
<1>5. Plus(k, Plus(n, Plus(m, p))) = Plus(Plus(k, n), Plus(m, p))
  BY <1>1, PlusAssociates
<1> QED BY <1>2, <1>3, <1>4, <1>5

-----------------------------------------------------------------------------
(* The field's product by x, and the tables as sums of such products.      *)

Flip(p, q) == IF p = q THEN 0 ELSE 1

LEMMA DoubleBits ==
    ASSUME NEW n \in Byte
    PROVE  /\ Double(n) \in Byte
           /\ Bit(Double(n), 1) = Bit(n, 128)
           /\ Bit(Double(n), 2) = Flip(Bit(n, 1), Bit(n, 128))
           /\ Bit(Double(n), 4) = Bit(n, 2)
           /\ Bit(Double(n), 8) = Flip(Bit(n, 4), Bit(n, 128))
           /\ Bit(Double(n), 16) = Flip(Bit(n, 8), Bit(n, 128))
           /\ Bit(Double(n), 32) = Bit(n, 16)
           /\ Bit(Double(n), 64) = Bit(n, 32)
           /\ Bit(Double(n), 128) = Bit(n, 64)
<1>1. CASE n < 128
  BY <1>1, SMTT(60) DEF Double, Flip, Bit, Byte
<1>2. CASE ~(n < 128)
  <2> DEFINE m == 2 * n - 256
  <2>1. /\ m \in Byte /\ Bit(n, 128) = 1
        /\ Bit(m, 1) = 0 /\ Bit(m, 2) = Bit(n, 1) /\ Bit(m, 4) = Bit(n, 2) /\ Bit(m, 8) = Bit(n, 4)
        /\ Bit(m, 16) = Bit(n, 8) /\ Bit(m, 32) = Bit(n, 16) /\ Bit(m, 64) = Bit(n, 32)
        /\ Bit(m, 128) = Bit(n, 64)
    BY <1>2, SMTT(60) DEF Bit, Byte
  <2>2. /\ 27 \in Byte
        /\ Bit(27, 1) = 1 /\ Bit(27, 2) = 1 /\ Bit(27, 4) = 0 /\ Bit(27, 8) = 1
        /\ Bit(27, 16) = 1 /\ Bit(27, 32) = 0 /\ Bit(27, 64) = 0 /\ Bit(27, 128) = 0
    BY DEF Bit, Byte
  <2> HIDE DEF m
  <2>3. /\ Plus(m, 27) \in Byte
        /\ \A w \in Weight : Bit(Plus(m, 27), w) = Flip(Bit(m, w), Bit(27, w))
    BY <2>1, <2>2, PlusBits DEF Flip
  <2>4. Double(n) = Plus(m, 27)
    BY <1>2 DEF Double, m
  <2>5. 1 \in Weight /\ 2 \in Weight /\ 4 \in Weight /\ 8 \in Weight /\ 16 \in Weight /\ 32 \in Weight
        /\ 64 \in Weight /\ 128 \in Weight
    BY DEF Weight
  <2> QED BY <2>1, <2>2, <2>3, <2>4, <2>5, BitTyped DEF Flip
<1> QED BY <1>1, <1>2

LEMMA DoublePlus ==
    ASSUME NEW k \in Byte, NEW m \in Byte
    PROVE  Double(Plus(k, m)) = Plus(Double(k), Double(m))
<1> DEFINE l == Plus(k, m)
<1>1. l \in Byte /\ \A w \in Weight : Bit(l, w) = Flip(Bit(k, w), Bit(m, w))
  BY PlusBits DEF Flip
<1>2. /\ Plus(Double(k), Double(m)) \in Byte
      /\ \A w \in Weight : Bit(Plus(Double(k), Double(m)), w) = Flip(Bit(Double(k), w), Bit(Double(m), w))
  BY DoubleBits, PlusBits DEF Flip
<1> HIDE DEF l
<1>3. \A w \in Weight : Bit(k, w) \in {0, 1} /\ Bit(m, w) \in {0, 1}
  BY BitTyped
<1>4. ASSUME NEW w \in Weight
      PROVE  Bit(Double(l), w) = Flip(Bit(Double(k), w), Bit(Double(m), w))
  <2>1. 1 \in Weight /\ 2 \in Weight /\ 4 \in Weight /\ 8 \in Weight /\ 16 \in Weight /\ 32 \in Weight
        /\ 64 \in Weight /\ 128 \in Weight
    BY DEF Weight
  <2>2. \A p \in {0, 1}, q \in {0, 1}, s \in {0, 1}, t \in {0, 1} :
           Flip(Flip(p, q), Flip(s, t)) = Flip(Flip(p, s), Flip(q, t))
    BY DEF Flip
  <2> QED BY <1>1, <1>3, <2>1, <2>2, DoubleBits DEF Weight
<1> QED BY <1>1, <1>2, <1>4, DoubleBits, SameBits DEF l

LEMMA TablesTyped ==
    ASSUME NEW n \in Byte
    PROVE  /\ At(SBOX, n) \in Byte /\ At(RSBOX, n) \in Byte /\ At(GF2, n) \in Byte /\ At(GF3, n) \in Byte
           /\ At(GF9, n) \in Byte /\ At(GF11, n) \in Byte /\ At(GF13, n) \in Byte /\ At(GF14, n) \in Byte
<1>1. At(SBOX, n) \in Byte
  BY SMTT(60) DEF At, SBOX, Byte
<1>2. At(RSBOX, n) \in Byte
  BY SMTT(60) DEF At, RSBOX, Byte
<1>3. At(GF2, n) \in Byte
  BY SMTT(60) DEF At, GF2, Byte
<1>4. At(GF3, n) \in Byte
  BY SMTT(60) DEF At, GF3, Byte
<1>5. At(GF9, n) \in Byte
  BY SMTT(60) DEF At, GF9, Byte
<1>6. At(GF11, n) \in Byte
  BY SMTT(60) DEF At, GF11, Byte
<1>7. At(GF13, n) \in Byte
  BY SMTT(60) DEF At, GF13, Byte
<1>8. At(GF14, n) \in Byte
  BY SMTT(60) DEF At, GF14, Byte
<1> QED BY <1>1, <1>2, <1>3, <1>4, <1>5, <1>6, <1>7, <1>8

(* RSBOX takes back what SBOX does. *)
LEMMA SubstitutionInverse ==
    ASSUME NEW n \in Byte
    PROVE  At(RSBOX, At(SBOX, n)) = n
BY SMTT(60) DEF At, SBOX, RSBOX, Byte

LEMMA TableOfTwo ==
    ASSUME NEW n \in Byte
    PROVE  At(GF2, n) = Double(n)
<1>1. At(GF2, n) = IF n < 128 THEN 2 * n ELSE Xor(2 * n - 256, 27)
  BY SMTT(60) DEF At, GF2, Xor, Bit, Byte
<1>2. ~(n < 128) => 2 * n - 256 \in Byte /\ 27 \in Byte
  BY DEF Byte
<1> QED BY <1>1, <1>2, PlusIsXor DEF Double
(* Each table in terms of others: 3 = 2 + 1, 9 = 8 + 1, 11 = 9 + 2,        *)
(* 13 = 9 + 4, 14 = 13 + 3.                                                *)
LEMMA TableOfThree ==
    ASSUME NEW n \in Byte, NEW d \in Byte, NEW g \in Byte,
           At(GF2, n) = d, At(GF3, n) = g
    PROVE  g = Plus(d, n)
<1>1. g = Xor(d, n)
  BY SMTT(300) DEF At, GF2, GF3, Xor, Bit, Byte
<1> QED BY <1>1, PlusIsXor

LEMMA TableOfNine ==
    ASSUME NEW n \in Byte, NEW d \in Byte, NEW e \in Byte, NEW f \in Byte, NEW g \in Byte,
           At(GF2, n) = d, At(GF2, d) = e, At(GF2, e) = f, At(GF9, n) = g
    PROVE  g = Plus(f, n)
<1>1. g = Xor(f, n)
  BY SMTT(300) DEF At, GF2, GF9, Xor, Bit, Byte
<1> QED BY <1>1, PlusIsXor

LEMMA TableOfEleven ==
    ASSUME NEW n \in Byte, NEW d \in Byte, NEW h \in Byte, NEW g \in Byte,
           At(GF2, n) = d, At(GF9, n) = h, At(GF11, n) = g
    PROVE  g = Plus(h, d)
<1>1. g = Xor(h, d)
  BY SMTT(300) DEF At, GF2, GF9, GF11, Xor, Bit, Byte
<1> QED BY <1>1, PlusIsXor

LEMMA TableOfThirteen ==
    ASSUME NEW n \in Byte, NEW d \in Byte, NEW e \in Byte, NEW h \in Byte, NEW g \in Byte,
           At(GF2, n) = d, At(GF2, d) = e, At(GF9, n) = h, At(GF13, n) = g
    PROVE  g = Plus(h, e)
<1>1. g = Xor(h, e)
  BY SMTT(300) DEF At, GF2, GF9, GF13, Xor, Bit, Byte
<1> QED BY <1>1, PlusIsXor

LEMMA TableOfFourteen ==
    ASSUME NEW n \in Byte, NEW t \in Byte, NEW h \in Byte, NEW g \in Byte,
           At(GF3, n) = t, At(GF13, n) = h, At(GF14, n) = g
    PROVE  g = Plus(h, t)
<1>1. g = Xor(h, t)
  BY SMTT(300) DEF At, GF3, GF13, GF14, Xor, Bit, Byte
<1> QED BY <1>1, PlusIsXor

(* 2, 4 and 8 times a byte. *)
Two(n) == Double(n)
Four(n) == Double(Double(n))
Eight(n) == Double(Double(Double(n)))

LEMMA Powers ==
    ASSUME NEW n \in Byte
    PROVE  Two(n) \in Byte /\ Four(n) \in Byte /\ Eight(n) \in Byte
BY DoubleBits DEF Two, Four, Eight

LEMMA Tables ==
    ASSUME NEW n \in Byte
    PROVE  /\ At(GF2, n) = Two(n)
           /\ At(GF3, n) = Plus(Two(n), n)
           /\ At(GF9, n) = Plus(Eight(n), n)
           /\ At(GF11, n) = Plus(Plus(Eight(n), n), Two(n))
           /\ At(GF13, n) = Plus(Plus(Eight(n), n), Four(n))
           /\ At(GF14, n) = Plus(Plus(Plus(Eight(n), n), Four(n)), Plus(Two(n), n))
<1>1. Two(n) \in Byte /\ Four(n) \in Byte /\ Eight(n) \in Byte
  BY Powers
<1>2. At(GF2, n) = Two(n) /\ At(GF2, Two(n)) = Four(n) /\ At(GF2, Four(n)) = Eight(n)
  BY <1>1, TableOfTwo DEF Two, Four, Eight
<1>3. /\ At(GF3, n) \in Byte /\ At(GF9, n) \in Byte /\ At(GF11, n) \in Byte
      /\ At(GF13, n) \in Byte /\ At(GF14, n) \in Byte
  BY TablesTyped
<1>4. At(GF3, n) = Plus(Two(n), n)
  BY <1>1, <1>2, <1>3, TableOfThree
<1>5. At(GF9, n) = Plus(Eight(n), n)
  BY <1>1, <1>2, <1>3, TableOfNine
<1>6. At(GF11, n) = Plus(At(GF9, n), Two(n))
  BY <1>1, <1>2, <1>3, TableOfEleven
<1>7. At(GF13, n) = Plus(At(GF9, n), Four(n))
  BY <1>1, <1>2, <1>3, TableOfThirteen
<1>8. At(GF14, n) = Plus(At(GF13, n), At(GF3, n))
  BY <1>3, TableOfFourteen
<1> QED BY <1>2, <1>4, <1>5, <1>6, <1>7, <1>8
LEMMA PowersPlus ==
    ASSUME NEW k \in Byte, NEW m \in Byte
    PROVE  /\ Two(Plus(k, m)) = Plus(Two(k), Two(m))
           /\ Four(Plus(k, m)) = Plus(Four(k), Four(m))
           /\ Eight(Plus(k, m)) = Plus(Eight(k), Eight(m))
BY DoublePlus, DoubleBits DEF Two, Four, Eight

(* The tables distribute over sums. *)
LEMMA TablesPlus ==
    ASSUME NEW k \in Byte, NEW m \in Byte
    PROVE  /\ At(GF9, Plus(k, m)) = Plus(At(GF9, k), At(GF9, m))
           /\ At(GF11, Plus(k, m)) = Plus(At(GF11, k), At(GF11, m))
           /\ At(GF13, Plus(k, m)) = Plus(At(GF13, k), At(GF13, m))
           /\ At(GF14, Plus(k, m)) = Plus(At(GF14, k), At(GF14, m))
<1> DEFINE l == Plus(k, m)
<1>1. l \in Byte
  BY PlusBits
<1>2. \A n \in {k, m, l} : Two(n) \in Byte /\ Four(n) \in Byte /\ Eight(n) \in Byte
  BY <1>1, Powers
<1>3. Two(l) = Plus(Two(k), Two(m)) /\ Four(l) = Plus(Four(k), Four(m)) /\ Eight(l) = Plus(Eight(k), Eight(m))
  BY PowersPlus
<1>4. \A n \in {k, m, l} :
         /\ At(GF9, n) \in Byte /\ At(GF13, n) \in Byte /\ At(GF3, n) \in Byte
         /\ At(GF3, n) = Plus(Two(n), n) /\ At(GF9, n) = Plus(Eight(n), n)
         /\ At(GF11, n) = Plus(At(GF9, n), Two(n)) /\ At(GF13, n) = Plus(At(GF9, n), Four(n))
         /\ At(GF14, n) = Plus(At(GF13, n), At(GF3, n))
  BY <1>1, Tables, TablesTyped
<1>5. At(GF9, l) = Plus(At(GF9, k), At(GF9, m))
  BY <1>2, <1>3, <1>4, Interchange
<1>6. At(GF3, l) = Plus(At(GF3, k), At(GF3, m))
  BY <1>2, <1>3, <1>4, Interchange
<1>7. At(GF11, l) = Plus(At(GF11, k), At(GF11, m))
  <2>1. At(GF11, l) = Plus(Plus(At(GF9, k), At(GF9, m)), Plus(Two(k), Two(m)))
    BY <1>3, <1>4, <1>5
  <2>2. At(GF9, k) \in Byte /\ Two(k) \in Byte /\ At(GF9, m) \in Byte /\ Two(m) \in Byte
    BY <1>2, <1>4
  <2>3. At(GF11, l) = Plus(Plus(At(GF9, k), Two(k)), Plus(At(GF9, m), Two(m)))
    BY ONLY <2>1, <2>2, Interchange
  <2> QED BY <1>4, <2>3
<1>8. At(GF13, l) = Plus(At(GF13, k), At(GF13, m))
  <2>1. At(GF13, l) = Plus(Plus(At(GF9, k), At(GF9, m)), Plus(Four(k), Four(m)))
    BY <1>3, <1>4, <1>5
  <2>2. At(GF9, k) \in Byte /\ Four(k) \in Byte /\ At(GF9, m) \in Byte /\ Four(m) \in Byte
    BY <1>2, <1>4
  <2>3. At(GF13, l) = Plus(Plus(At(GF9, k), Four(k)), Plus(At(GF9, m), Four(m)))
    BY ONLY <2>1, <2>2, Interchange
  <2> QED BY <1>4, <2>3
<1>9. At(GF14, l) = Plus(At(GF14, k), At(GF14, m))
  <2>1. At(GF14, l) = Plus(Plus(At(GF13, k), At(GF13, m)), Plus(At(GF3, k), At(GF3, m)))
    BY <1>4, <1>6, <1>8
  <2>2. At(GF13, k) \in Byte /\ At(GF3, k) \in Byte /\ At(GF13, m) \in Byte /\ At(GF3, m) \in Byte
    BY <1>2, <1>4
  <2>3. At(GF14, l) = Plus(Plus(At(GF13, k), At(GF3, k)), Plus(At(GF13, m), At(GF3, m)))
    BY ONLY <2>1, <2>2, Interchange
  <2> QED BY <1>4, <2>3
<1> QED BY <1>5, <1>7, <1>8, <1>9

(* What the products of a byte by the entries of a column of the matrix    *)
(* and of its inverse add up to.                                           *)
LEMMA Columns ==
    ASSUME NEW n \in Byte
    PROVE  /\ Plus4(At(GF14, At(GF2, n)), At(GF11, n), At(GF13, n), At(GF9, At(GF3, n))) = n
           /\ Plus4(At(GF14, At(GF3, n)), At(GF11, At(GF2, n)), At(GF13, n), At(GF9, n)) = 0
           /\ Plus4(At(GF14, n), At(GF11, At(GF3, n)), At(GF13, At(GF2, n)), At(GF9, n)) = 0
           /\ Plus4(At(GF14, n), At(GF11, n), At(GF13, At(GF3, n)), At(GF9, At(GF2, n))) = 0
<1> DEFINE d == Two(n)
<1> DEFINE e == Four(n)
<1> DEFINE f == Eight(n)
<1> DEFINE h == Double(Eight(n))
<1>1. d \in Byte /\ e \in Byte /\ f \in Byte /\ h \in Byte
  BY Powers, DoubleBits
<1>2. Two(d) = e /\ Four(d) = f /\ Eight(d) = h
  BY DEF Two, Four, Eight
<1> HIDE DEF d, e, f, h
<1> DEFINE nine == Plus(f, n)
<1> DEFINE eleven == Plus(nine, d)
<1> DEFINE thirteen == Plus(nine, e)
<1> DEFINE fourteen == Plus(thirteen, Plus(d, n))
<1> DEFINE nine2 == Plus(h, d)
<1> DEFINE eleven2 == Plus(nine2, e)
<1> DEFINE thirteen2 == Plus(nine2, f)
<1> DEFINE fourteen2 == Plus(thirteen2, Plus(e, d))
<1>3. /\ At(GF2, n) = d /\ At(GF3, n) = Plus(d, n)
      /\ At(GF9, n) = nine /\ At(GF11, n) = eleven /\ At(GF13, n) = thirteen /\ At(GF14, n) = fourteen
  BY Tables DEF d, e, f
<1>4. /\ At(GF9, d) = nine2 /\ At(GF11, d) = eleven2 /\ At(GF13, d) = thirteen2 /\ At(GF14, d) = fourteen2
  BY <1>1, <1>2, Tables
<1>5. /\ At(GF9, Plus(d, n)) = Plus(nine2, nine) /\ At(GF11, Plus(d, n)) = Plus(eleven2, eleven)
      /\ At(GF13, Plus(d, n)) = Plus(thirteen2, thirteen) /\ At(GF14, Plus(d, n)) = Plus(fourteen2, fourteen)
  BY <1>1, <1>3, <1>4, TablesPlus
<1>6. /\ nine \in Byte /\ eleven \in Byte /\ thirteen \in Byte /\ fourteen \in Byte
      /\ nine2 \in Byte /\ eleven2 \in Byte /\ thirteen2 \in Byte /\ fourteen2 \in Byte
  BY <1>1, PlusBits
<1>7. \A k \in Byte, m \in Byte, w \in Weight : Bit(Plus(k, m), w) = Flip(Bit(k, w), Bit(m, w))
  BY PlusBits DEF Flip
<1>8. ASSUME NEW w \in Weight
      PROVE  /\ Bit(Plus4(fourteen2, eleven, thirteen, Plus(nine2, nine)), w) = Bit(n, w)
             /\ Bit(Plus4(Plus(fourteen2, fourteen), eleven2, thirteen, nine), w) = 0
             /\ Bit(Plus4(fourteen, Plus(eleven2, eleven), thirteen2, nine), w) = 0
             /\ Bit(Plus4(fourteen, eleven, Plus(thirteen2, thirteen), nine2), w) = 0
  <2> DEFINE N == Bit(n, w)
  <2> DEFINE D == Bit(d, w)
  <2> DEFINE E == Bit(e, w)
  <2> DEFINE F == Bit(f, w)
  <2> DEFINE H == Bit(h, w)
  <2>1. N \in {0, 1} /\ D \in {0, 1} /\ E \in {0, 1} /\ F \in {0, 1} /\ H \in {0, 1}
    BY <1>1, BitTyped
  <2>2. /\ Bit(Plus(d, n), w) = Flip(D, N) /\ Bit(Plus(e, d), w) = Flip(E, D)
        /\ Bit(nine, w) = Flip(F, N) /\ Bit(nine2, w) = Flip(H, D)
    BY <1>1, <1>7
  <2>3. /\ Bit(eleven, w) = Flip(Flip(F, N), D) /\ Bit(eleven2, w) = Flip(Flip(H, D), E)
        /\ Bit(thirteen, w) = Flip(Flip(F, N), E) /\ Bit(thirteen2, w) = Flip(Flip(H, D), F)
    BY <1>1, <1>6, <1>7, <2>2
  <2>4. /\ Bit(fourteen, w) = Flip(Flip(Flip(F, N), E), Flip(D, N))
        /\ Bit(fourteen2, w) = Flip(Flip(Flip(H, D), F), Flip(E, D))
    BY <1>1, <1>6, <1>7, <2>2, <2>3, PlusBits
  <2> HIDE DEF nine, eleven, thirteen, fourteen, nine2, eleven2, thirteen2, fourteen2
  <2>5. \A a, b2, c, k \in Byte :
           Bit(Plus4(a, b2, c, k), w) = Flip(Flip(Bit(a, w), Bit(b2, w)), Flip(Bit(c, w), Bit(k, w)))
    BY <1>7, PlusBits DEF Plus4
  <2>6. /\ Bit(Plus(nine2, nine), w) = Flip(Bit(nine2, w), Bit(nine, w))
        /\ Bit(Plus(eleven2, eleven), w) = Flip(Bit(eleven2, w), Bit(eleven, w))
        /\ Bit(Plus(thirteen2, thirteen), w) = Flip(Bit(thirteen2, w), Bit(thirteen, w))
        /\ Bit(Plus(fourteen2, fourteen), w) = Flip(Bit(fourteen2, w), Bit(fourteen, w))
        /\ Plus(nine2, nine) \in Byte /\ Plus(eleven2, eleven) \in Byte
        /\ Plus(thirteen2, thirteen) \in Byte /\ Plus(fourteen2, fourteen) \in Byte
    BY <1>6, <1>7, PlusBits
  <2> HIDE DEF N, D, E, F, H
  <2>7. Bit(Plus4(fourteen2, eleven, thirteen, Plus(nine2, nine)), w) = N
    <3>1. Bit(Plus4(fourteen2, eleven, thirteen, Plus(nine2, nine)), w)
             = Flip(Flip(Flip(Flip(Flip(H, D), F), Flip(E, D)), Flip(Flip(F, N), D)),
                      Flip(Flip(Flip(F, N), E), Flip(Flip(H, D), Flip(F, N))))
      BY <1>6, <2>2, <2>3, <2>4, <2>5, <2>6
    <3>2. Flip(Flip(Flip(Flip(Flip(H, D), F), Flip(E, D)), Flip(Flip(F, N), D)),
                      Flip(Flip(Flip(F, N), E), Flip(Flip(H, D), Flip(F, N)))) = N
      BY <2>1 DEF Flip
    <3> QED BY <3>1, <3>2
  <2>8. Bit(Plus4(Plus(fourteen2, fourteen), eleven2, thirteen, nine), w) = 0
    <3>1. Bit(Plus4(Plus(fourteen2, fourteen), eleven2, thirteen, nine), w)
             = Flip(Flip(Flip(Flip(Flip(Flip(H, D), F), Flip(E, D)), Flip(Flip(Flip(F, N), E), Flip(D, N))), Flip(Flip(H, D), E)),
                      Flip(Flip(Flip(F, N), E), Flip(F, N)))
      BY <1>6, <2>2, <2>3, <2>4, <2>5, <2>6
    <3>2. Flip(Flip(Flip(Flip(Flip(Flip(H, D), F), Flip(E, D)), Flip(Flip(Flip(F, N), E), Flip(D, N))), Flip(Flip(H, D), E)),
                      Flip(Flip(Flip(F, N), E), Flip(F, N))) = 0
      BY <2>1 DEF Flip
    <3> QED BY <3>1, <3>2
  <2>9. Bit(Plus4(fourteen, Plus(eleven2, eleven), thirteen2, nine), w) = 0
    <3>1. Bit(Plus4(fourteen, Plus(eleven2, eleven), thirteen2, nine), w)
             = Flip(Flip(Flip(Flip(Flip(F, N), E), Flip(D, N)), Flip(Flip(Flip(H, D), E), Flip(Flip(F, N), D))),
                      Flip(Flip(Flip(H, D), F), Flip(F, N)))
      BY <1>6, <2>2, <2>3, <2>4, <2>5, <2>6
    <3>2. Flip(Flip(Flip(Flip(Flip(F, N), E), Flip(D, N)), Flip(Flip(Flip(H, D), E), Flip(Flip(F, N), D))),
                      Flip(Flip(Flip(H, D), F), Flip(F, N))) = 0
      BY <2>1 DEF Flip
    <3> QED BY <3>1, <3>2
  <2>10. Bit(Plus4(fourteen, eleven, Plus(thirteen2, thirteen), nine2), w) = 0
    <3>1. Bit(Plus4(fourteen, eleven, Plus(thirteen2, thirteen), nine2), w)
             = Flip(Flip(Flip(Flip(Flip(F, N), E), Flip(D, N)), Flip(Flip(F, N), D)),
                      Flip(Flip(Flip(Flip(H, D), F), Flip(Flip(F, N), E)), Flip(H, D)))
      BY <1>6, <2>2, <2>3, <2>4, <2>5, <2>6
    <3>2. Flip(Flip(Flip(Flip(Flip(F, N), E), Flip(D, N)), Flip(Flip(F, N), D)),
                      Flip(Flip(Flip(Flip(H, D), F), Flip(Flip(F, N), E)), Flip(H, D))) = 0
      BY <2>1 DEF Flip
    <3> QED BY <3>1, <3>2
  <2> QED BY <2>7, <2>8, <2>9, <2>10 DEF N
<1>9. 0 \in Byte /\ \A w \in Weight : Bit(0, w) = 0
  BY DEF Bit, Byte, Weight
<1>10. /\ Plus4(fourteen2, eleven, thirteen, Plus(nine2, nine)) \in Byte
       /\ Plus4(Plus(fourteen2, fourteen), eleven2, thirteen, nine) \in Byte
       /\ Plus4(fourteen, Plus(eleven2, eleven), thirteen2, nine) \in Byte
       /\ Plus4(fourteen, eleven, Plus(thirteen2, thirteen), nine2) \in Byte
  BY <1>6, PlusBits DEF Plus4
<1> HIDE DEF nine, eleven, thirteen, fourteen, nine2, eleven2, thirteen2, fourteen2
<1> QED BY <1>3, <1>4, <1>5, <1>8, <1>9, <1>10, SameBits
LEMMA Plus4Typed ==
    \A k, l, m, n \in Byte :
      Plus4(k, l, m, n) \in Byte
<1> TAKE k, l, m, n \in Byte
<1> QED BY PlusBits DEF Plus4

(* The sum of two sums of four, and of four of them by columns. *)
Four4 == [1 .. 4 -> Byte]
Sum4(q) == Plus4(q[1], q[2], q[3], q[4])

LEMMA Sum4Plus ==
    ASSUME NEW q \in Four4, NEW u \in Four4
    PROVE  /\ [c \in 1 .. 4 |-> Plus(q[c], u[c])] \in Four4
           /\ Plus(Sum4(q), Sum4(u)) = Sum4([c \in 1 .. 4 |-> Plus(q[c], u[c])])
<1>1. /\ q[1] \in Byte /\ q[2] \in Byte /\ q[3] \in Byte /\ q[4] \in Byte
      /\ u[1] \in Byte /\ u[2] \in Byte /\ u[3] \in Byte /\ u[4] \in Byte
  BY DEF Four4
<1>2. /\ Plus(q[1], q[2]) \in Byte /\ Plus(q[3], q[4]) \in Byte
      /\ Plus(u[1], u[2]) \in Byte /\ Plus(u[3], u[4]) \in Byte
  BY <1>1, PlusBits
<1>3. Plus(Sum4(q), Sum4(u))
         = Plus(Plus(Plus(q[1], q[2]), Plus(u[1], u[2])), Plus(Plus(q[3], q[4]), Plus(u[3], u[4])))
  BY <1>2, Interchange DEF Sum4, Plus4
<1>4. /\ Plus(Plus(q[1], q[2]), Plus(u[1], u[2])) = Plus(Plus(q[1], u[1]), Plus(q[2], u[2]))
      /\ Plus(Plus(q[3], q[4]), Plus(u[3], u[4])) = Plus(Plus(q[3], u[3]), Plus(q[4], u[4]))
  <2>1. q[1] \in Byte /\ q[2] \in Byte /\ u[1] \in Byte /\ u[2] \in Byte
    BY <1>1
  <2>2. q[3] \in Byte /\ q[4] \in Byte /\ u[3] \in Byte /\ u[4] \in Byte
    BY <1>1
  <2>3. Plus(Plus(q[1], q[2]), Plus(u[1], u[2])) = Plus(Plus(q[1], u[1]), Plus(q[2], u[2]))
    BY ONLY <2>1, Interchange
  <2>4. Plus(Plus(q[3], q[4]), Plus(u[3], u[4])) = Plus(Plus(q[3], u[3]), Plus(q[4], u[4]))
    BY ONLY <2>2, Interchange
  <2> QED BY <2>3, <2>4
<1>5. [c \in 1 .. 4 |-> Plus(q[c], u[c])] \in Four4
  BY PlusBits DEF Four4
<1> QED BY <1>3, <1>4, <1>5 DEF Sum4, Plus4

LEMMA Transpose ==
    ASSUME NEW m \in [1 .. 4 -> Four4]
    PROVE  Plus4(Sum4(m[1]), Sum4(m[2]), Sum4(m[3]), Sum4(m[4]))
              = Sum4([c \in 1 .. 4 |-> Plus4(m[1][c], m[2][c], m[3][c], m[4][c])])
<1> DEFINE q == [c \in 1 .. 4 |-> Plus(m[1][c], m[2][c])]
<1> DEFINE u == [c \in 1 .. 4 |-> Plus(m[3][c], m[4][c])]
<1>1. /\ Plus(Sum4(m[1]), Sum4(m[2])) = Sum4(q) /\ q \in Four4
      /\ Plus(Sum4(m[3]), Sum4(m[4])) = Sum4(u) /\ u \in Four4
  BY Sum4Plus
<1>2. Plus(Sum4(q), Sum4(u)) = Sum4([c \in 1 .. 4 |-> Plus(q[c], u[c])])
  BY <1>1, Sum4Plus
<1>3. \A c \in 1 .. 4 : Plus(q[c], u[c]) = Plus4(m[1][c], m[2][c], m[3][c], m[4][c])
  BY DEF Plus4
<1> HIDE DEF q, u
<1>4. [c \in 1 .. 4 |-> Plus(q[c], u[c])] = [c \in 1 .. 4 |-> Plus4(m[1][c], m[2][c], m[3][c], m[4][c])]
  BY <1>3
<1> QED BY <1>1, <1>2, <1>4 DEF Plus4

(* A table applied to a sum of four. *)
LEMMA TablesPlus4 ==
    \A k, l, m, n \in Byte :
      /\ At(GF9, Plus4(k, l, m, n)) = Plus4(At(GF9, k), At(GF9, l), At(GF9, m), At(GF9, n))
           /\ At(GF11, Plus4(k, l, m, n)) = Plus4(At(GF11, k), At(GF11, l), At(GF11, m), At(GF11, n))
           /\ At(GF13, Plus4(k, l, m, n)) = Plus4(At(GF13, k), At(GF13, l), At(GF13, m), At(GF13, n))
           /\ At(GF14, Plus4(k, l, m, n)) = Plus4(At(GF14, k), At(GF14, l), At(GF14, m), At(GF14, n))
<1> TAKE k, l, m, n \in Byte
<1>1. Plus(k, l) \in Byte /\ Plus(m, n) \in Byte
  BY PlusBits
<1> QED BY <1>1, TablesPlus DEF Plus4

LEMMA Rotate4 ==
    \A k, l, m, n \in Byte :
      Plus4(k, l, m, n) = Plus4(n, k, l, m)
<1> TAKE k, l, m, n \in Byte
<1>1. Plus(k, l) \in Byte /\ Plus(m, n) \in Byte /\ Plus(n, m) = Plus(m, n) /\ Plus(l, k) = Plus(k, l)
  BY PlusBits, PlusCommutes
<1>2. Plus(Plus(n, k), Plus(l, m)) = Plus(Plus(n, k), Plus(m, l))
  BY PlusCommutes
<1>3. Plus(Plus(n, k), Plus(m, l)) = Plus(Plus(n, m), Plus(k, l))
  BY Interchange
<1>4. Plus(Plus(n, m), Plus(k, l)) = Plus(Plus(k, l), Plus(m, n))
  BY <1>1, PlusCommutes
<1> QED BY <1>2, <1>3, <1>4 DEF Plus4

(* One byte of mixcolumns_inv after mixcolumns, for a column k, l, m, n. *)
LEMMA ColumnInverse ==
    ASSUME NEW k \in Byte, NEW l \in Byte, NEW m \in Byte, NEW n \in Byte
    PROVE  Plus4(At(GF14, Plus4(At(GF2, k), At(GF3, l), m, n)), At(GF11, Plus4(At(GF2, l), At(GF3, m), n, k)),
                 At(GF13, Plus4(At(GF2, m), At(GF3, n), k, l)), At(GF9, Plus4(At(GF2, n), At(GF3, k), l, m))) = k
<1>1. \A p \in Byte : /\ At(GF2, p) \in Byte /\ At(GF3, p) \in Byte /\ At(GF9, p) \in Byte
                      /\ At(GF11, p) \in Byte /\ At(GF13, p) \in Byte /\ At(GF14, p) \in Byte
  BY TablesTyped
<1>3. Plus4(At(GF2, l), At(GF3, m), n, k) = Plus4(k, At(GF2, l), At(GF3, m), n)
  BY <1>1, Rotate4
<1>4. Plus4(At(GF2, m), At(GF3, n), k, l) = Plus4(k, l, At(GF2, m), At(GF3, n))
  BY <1>1, Rotate4
<1>5. Plus4(At(GF2, n), At(GF3, k), l, m) = Plus4(At(GF3, k), l, m, At(GF2, n))
  BY <1>1, Rotate4
<1>6. At(GF14, Plus4(At(GF2, k), At(GF3, l), m, n))
         = Plus4(At(GF14, At(GF2, k)), At(GF14, At(GF3, l)), At(GF14, m), At(GF14, n))
  <2>1. At(GF2, k) \in Byte /\ At(GF3, l) \in Byte
    BY <1>1
  <2> QED BY ONLY <2>1, m \in Byte, n \in Byte, TablesPlus4
<1>7. At(GF11, Plus4(k, At(GF2, l), At(GF3, m), n))
         = Plus4(At(GF11, k), At(GF11, At(GF2, l)), At(GF11, At(GF3, m)), At(GF11, n))
  <2>1. At(GF2, l) \in Byte /\ At(GF3, m) \in Byte
    BY <1>1
  <2> QED BY ONLY <2>1, k \in Byte, n \in Byte, TablesPlus4
<1>8. At(GF13, Plus4(k, l, At(GF2, m), At(GF3, n)))
         = Plus4(At(GF13, k), At(GF13, l), At(GF13, At(GF2, m)), At(GF13, At(GF3, n)))
  <2>1. At(GF2, m) \in Byte /\ At(GF3, n) \in Byte
    BY <1>1
  <2> QED BY ONLY <2>1, k \in Byte, l \in Byte, TablesPlus4
<1>9. At(GF9, Plus4(At(GF3, k), l, m, At(GF2, n)))
         = Plus4(At(GF9, At(GF3, k)), At(GF9, l), At(GF9, m), At(GF9, At(GF2, n)))
  <2>1. At(GF3, k) \in Byte /\ At(GF2, n) \in Byte
    BY <1>1
  <2> QED BY ONLY <2>1, l \in Byte, m \in Byte, TablesPlus4
<1>10. /\ Plus4(At(GF14, At(GF2, k)), At(GF11, k), At(GF13, k), At(GF9, At(GF3, k))) = k
       /\ Plus4(At(GF14, At(GF3, l)), At(GF11, At(GF2, l)), At(GF13, l), At(GF9, l)) = 0
       /\ Plus4(At(GF14, m), At(GF11, At(GF3, m)), At(GF13, At(GF2, m)), At(GF9, m)) = 0
       /\ Plus4(At(GF14, n), At(GF11, n), At(GF13, At(GF3, n)), At(GF9, At(GF2, n))) = 0
  BY Columns
<1>11. Plus4(k, 0, 0, 0) = k
  BY PlusZero DEF Plus4, Byte
<1>12. Plus4(Plus4(At(GF14, At(GF2, k)), At(GF14, At(GF3, l)), At(GF14, m), At(GF14, n)),
             Plus4(At(GF11, k), At(GF11, At(GF2, l)), At(GF11, At(GF3, m)), At(GF11, n)),
             Plus4(At(GF13, k), At(GF13, l), At(GF13, At(GF2, m)), At(GF13, At(GF3, n))),
             Plus4(At(GF9, At(GF3, k)), At(GF9, l), At(GF9, m), At(GF9, At(GF2, n))))
         = Plus4(Plus4(At(GF14, At(GF2, k)), At(GF11, k), At(GF13, k), At(GF9, At(GF3, k))),
                 Plus4(At(GF14, At(GF3, l)), At(GF11, At(GF2, l)), At(GF13, l), At(GF9, l)),
                 Plus4(At(GF14, m), At(GF11, At(GF3, m)), At(GF13, At(GF2, m)), At(GF9, m)),
                 Plus4(At(GF14, n), At(GF11, n), At(GF13, At(GF3, n)), At(GF9, At(GF2, n))))
  <2> DEFINE mat == << << At(GF14, At(GF2, k)), At(GF14, At(GF3, l)), At(GF14, m), At(GF14, n) >>,
                    << At(GF11, k), At(GF11, At(GF2, l)), At(GF11, At(GF3, m)), At(GF11, n) >>,
                    << At(GF13, k), At(GF13, l), At(GF13, At(GF2, m)), At(GF13, At(GF3, n)) >>,
                    << At(GF9, At(GF3, k)), At(GF9, l), At(GF9, m), At(GF9, At(GF2, n)) >> >>
  <2>1. mat \in [1 .. 4 -> Four4]
    BY <1>1 DEF Four4
  <2>2. Plus4(Sum4(mat[1]), Sum4(mat[2]), Sum4(mat[3]), Sum4(mat[4]))
           = Sum4([c \in 1 .. 4 |-> Plus4(mat[1][c], mat[2][c], mat[3][c], mat[4][c])])
    BY ONLY <2>1, Transpose
  <2>3. /\ Sum4(mat[1]) = Plus4(At(GF14, At(GF2, k)), At(GF14, At(GF3, l)), At(GF14, m), At(GF14, n))
        /\ Sum4(mat[2]) = Plus4(At(GF11, k), At(GF11, At(GF2, l)), At(GF11, At(GF3, m)), At(GF11, n))
    BY ONLY DEF Sum4
  <2>4. /\ Sum4(mat[3]) = Plus4(At(GF13, k), At(GF13, l), At(GF13, At(GF2, m)), At(GF13, At(GF3, n)))
        /\ Sum4(mat[4]) = Plus4(At(GF9, At(GF3, k)), At(GF9, l), At(GF9, m), At(GF9, At(GF2, n)))
    BY ONLY DEF Sum4
  <2> DEFINE col == [c \in 1 .. 4 |-> Plus4(mat[1][c], mat[2][c], mat[3][c], mat[4][c])]
  <2>5. /\ col[1] = Plus4(At(GF14, At(GF2, k)), At(GF11, k), At(GF13, k), At(GF9, At(GF3, k)))
        /\ col[2] = Plus4(At(GF14, At(GF3, l)), At(GF11, At(GF2, l)), At(GF13, l), At(GF9, l))
    BY ONLY SMTT(60)
  <2>6. /\ col[3] = Plus4(At(GF14, m), At(GF11, At(GF3, m)), At(GF13, At(GF2, m)), At(GF9, m))
        /\ col[4] = Plus4(At(GF14, n), At(GF11, n), At(GF13, At(GF3, n)), At(GF9, At(GF2, n)))
    BY ONLY SMTT(60)
  <2> HIDE DEF col
  <2>7. Sum4(col) = Plus4(col[1], col[2], col[3], col[4])
    BY ONLY DEF Sum4
  <2> HIDE DEF mat
  <2>8. Plus4(Sum4(mat[1]), Sum4(mat[2]), Sum4(mat[3]), Sum4(mat[4])) = Sum4(col)
    BY ONLY <2>2 DEF col
  <2> QED BY ONLY <2>3, <2>4, <2>5, <2>6, <2>7, <2>8
<1> QED BY <1>3, <1>4, <1>5, <1>6, <1>7, <1>8, <1>9, <1>10, <1>11, <1>12
-----------------------------------------------------------------------------
(* Blocks: each step of a round can be taken back.                         *)

LEMMA XorBlock ==
    ASSUME NEW w \in Block, NEW v \in Block
    PROVE  xorblock(w, v) \in Block /\ xorblock(xorblock(w, v), v) = w
<1>1. \A l \in 0 .. 15 : w[l] \in Byte /\ v[l] \in Byte /\ DOMAIN w = 0 .. 15
  BY DEF Block
<1>2. xorblock(w, v) = [l \in 0 .. 15 |-> Plus(w[l], v[l])]
  BY DEF xorblock, Block
<1>3. xorblock(w, v) \in Block
  BY <1>1, <1>2, PlusBits DEF Block
<1>4. xorblock(xorblock(w, v), v) = [l \in 0 .. 15 |-> Plus(Plus(w[l], v[l]), v[l])]
  BY <1>2 DEF xorblock
<1>5. w = [l \in 0 .. 15 |-> w[l]]
  BY DEF Block
<1>6. [l \in 0 .. 15 |-> Plus(Plus(w[l], v[l]), v[l])] = [l \in 0 .. 15 |-> w[l]]
  BY <1>1, PlusTwice
<1> QED BY <1>3, <1>4, <1>5, <1>6

LEMMA ShiftFacts ==
    \A l \in 0 .. 15 : /\ Shifted[l + 1] \in 0 .. 15 /\ ShiftedBack[l + 1] \in 0 .. 15
                       /\ Shifted[ShiftedBack[l + 1] + 1] = l
                       /\ ShiftedBack[Shifted[l + 1] + 1] = l
BY DEF Shifted, ShiftedBack

LEMMA SubShiftRows ==
    ASSUME NEW w \in Block
    PROVE  subshiftrows(w) \in Block /\ subshiftrows_inv(subshiftrows(w)) = w
<1>1. \A l \in 0 .. 15 : w[l] \in Byte
  BY DEF Block
<1>2. subshiftrows(w) \in Block
  BY <1>1, ShiftFacts, TablesTyped DEF subshiftrows, Block
<1>3. ASSUME NEW l \in 0 .. 15 PROVE subshiftrows_inv(subshiftrows(w))[l] = w[l]
  <2>1. subshiftrows_inv(subshiftrows(w))[l] = At(RSBOX, subshiftrows(w)[ShiftedBack[l + 1]])
    BY DEF subshiftrows_inv
  <2>2. subshiftrows(w)[ShiftedBack[l + 1]] = At(SBOX, w[Shifted[ShiftedBack[l + 1] + 1]])
    BY ShiftFacts DEF subshiftrows
  <2> QED BY <1>1, <2>1, <2>2, ShiftFacts, SubstitutionInverse
<1>4. subshiftrows_inv(subshiftrows(w)) = [l \in 0 .. 15 |-> subshiftrows_inv(subshiftrows(w))[l]]
  BY DEF subshiftrows_inv
<1>5. w = [l \in 0 .. 15 |-> w[l]]
  BY DEF Block
<1> QED BY <1>2, <1>3, <1>4, <1>5

LEMMA MixColumns4 ==
    ASSUME NEW w \in Block
    PROVE  mixcolumns(w) \in Block /\ mixcolumns_inv(mixcolumns(w)) = w
<1> DEFINE next(k, n) == k - (k % 4) + ((k + n) % 4)
<1> DEFINE mix == mixcolumns(w)
<1>1. \A l \in 0 .. 15 : w[l] \in Byte
  BY DEF Block
<1>2. \A l \in 0 .. 15 : next(l, 1) \in 0 .. 15 /\ next(l, 2) \in 0 .. 15 /\ next(l, 3) \in 0 .. 15
  OBVIOUS
<1>3. \A l \in 0 .. 15 : mix[l] = Plus4(At(GF2, w[l]), At(GF3, w[next(l, 1)]), w[next(l, 2)], w[next(l, 3)])
  BY DEF mixcolumns, Below
<1>4. mix \in Block
  <2>1. \A l \in 0 .. 15 : Plus4(At(GF2, w[l]), At(GF3, w[next(l, 1)]), w[next(l, 2)], w[next(l, 3)]) \in Byte
    BY <1>1, <1>2, TablesTyped, Plus4Typed
  <2> QED BY <2>1 DEF mixcolumns, Below, Block
<1>5. ASSUME NEW l \in 0 .. 15 PROVE mixcolumns_inv(mix)[l] = w[l]
  <2> DEFINE l1 == next(l, 1)
  <2> DEFINE l2 == next(l, 2)
  <2> DEFINE l3 == next(l, 3)
  <2>1. /\ l1 \in 0 .. 15 /\ l2 \in 0 .. 15 /\ l3 \in 0 .. 15
        /\ next(l1, 1) = l2 /\ next(l1, 2) = l3 /\ next(l1, 3) = l
        /\ next(l2, 1) = l3 /\ next(l2, 2) = l /\ next(l2, 3) = l1
        /\ next(l3, 1) = l /\ next(l3, 2) = l1 /\ next(l3, 3) = l2
    OBVIOUS
  <2>2. mixcolumns_inv(mix)[l] = Plus4(At(GF14, mix[l]), At(GF11, mix[l1]), At(GF13, mix[l2]), At(GF9, mix[l3]))
    BY DEF mixcolumns_inv, Below
  <2> HIDE DEF l1, l2, l3, next, mix
  <2>3. /\ mix[l] = Plus4(At(GF2, w[l]), At(GF3, w[l1]), w[l2], w[l3])
        /\ mix[l1] = Plus4(At(GF2, w[l1]), At(GF3, w[l2]), w[l3], w[l])
        /\ mix[l2] = Plus4(At(GF2, w[l2]), At(GF3, w[l3]), w[l], w[l1])
        /\ mix[l3] = Plus4(At(GF2, w[l3]), At(GF3, w[l]), w[l1], w[l2])
    BY <1>3, <2>1 DEF l1, l2, l3
  <2>4. w[l] \in Byte /\ w[l1] \in Byte /\ w[l2] \in Byte /\ w[l3] \in Byte
    BY <1>1, <2>1
  <2>5. Plus4(At(GF14, Plus4(At(GF2, w[l]), At(GF3, w[l1]), w[l2], w[l3])),
              At(GF11, Plus4(At(GF2, w[l1]), At(GF3, w[l2]), w[l3], w[l])),
              At(GF13, Plus4(At(GF2, w[l2]), At(GF3, w[l3]), w[l], w[l1])),
              At(GF9, Plus4(At(GF2, w[l3]), At(GF3, w[l]), w[l1], w[l2]))) = w[l]
    BY ONLY <2>4, ColumnInverse
  <2> QED BY <2>2, <2>3, <2>5
<1>6. mixcolumns_inv(mix) = [l \in 0 .. 15 |-> mixcolumns_inv(mix)[l]]
  BY DEF mixcolumns_inv
<1>7. w = [l \in 0 .. 15 |-> w[l]]
  BY DEF Block
<1> QED BY <1>4, <1>5, <1>6, <1>7
-----------------------------------------------------------------------------
(* One block: w is encrypted to v under the round keys K.  A trail is what *)
(* the block is in each round.                                             *)
Keys == [n \in 0 .. 10 |-> RoundKey(n)]
Round(w, k) == xorblock(mixcolumns(subshiftrows(w)), k)
Trail(K, w, s, n) ==
    /\ s \in [1 .. 10 -> Block] /\ s[1] = xorblock(w, K[0])
    /\ \A l \in 1 .. n - 1 : s[l + 1] = Round(s[l], K[l])
FinalRound(w, k) == xorblock(subshiftrows(w), k)
Encrypts(K, w, v) == \E s : Trail(K, w, s, 10) /\ v = FinalRound(s[10], K[10])

LEMMA Rounds ==
    ASSUME NEW w \in Block, NEW k \in Block
    PROVE  /\ Round(w, k) \in Block /\ FinalRound(w, k) \in Block
           /\ subshiftrows_inv(mixcolumns_inv(xorblock(Round(w, k), k))) = w
           /\ subshiftrows_inv(xorblock(FinalRound(w, k), k)) = w
BY SubShiftRows, MixColumns4, XorBlock DEF Round, FinalRound

LEMMA KeysTyped ==
    ASSUME rk \in Seq(Word), Len(rk) = 44
    PROVE  Keys \in [0 .. 10 -> Block]
<1>1. \A n \in 0 .. 10, l \in 0 .. 15 : 4 * n + l \div 4 + 1 \in 1 .. Len(rk) /\ l % 4 \in 0 .. 3
  OBVIOUS
<1>9. \A m \in 1 .. Len(rk) : rk[m] \in Word
  BY ElementOfSeq
<1>2. \A n \in 0 .. 10, l \in 0 .. 15 : rk[4 * n + l \div 4 + 1] \in Word
  BY ONLY <1>1, <1>9
<1>3. \A n \in 0 .. 10, l \in 0 .. 15 : rk[4 * n + l \div 4 + 1][l % 4] \in Byte
  BY ZenonT(60), <1>1, <1>2 DEF Word
<1> QED BY <1>3 DEF Keys, RoundKey, Block

(* Two blocks that are encrypted to the same are the same: from the last   *)
(* round back, the trails agree.                                           *)
LEMMA EncryptsInjective ==
    ASSUME NEW K \in [0 .. 10 -> Block], NEW w \in Block, NEW v \in Block, NEW y,
           Encrypts(K, w, y), Encrypts(K, v, y)
    PROVE  w = v
<1>1. PICK s : Trail(K, w, s, 10) /\ y = FinalRound(s[10], K[10])
  BY DEF Encrypts
<1>2. PICK t : Trail(K, v, t, 10) /\ y = FinalRound(t[10], K[10])
  BY DEF Encrypts
<1>3. \A l \in 1 .. 10 : s[l] \in Block /\ t[l] \in Block /\ K[l] \in Block
  BY <1>1, <1>2 DEF Trail
<1>4. s[10] = t[10]
  <2>1. s[10] \in Block /\ t[10] \in Block /\ K[10] \in Block
    BY <1>3
  <2>2. /\ subshiftrows_inv(xorblock(FinalRound(s[10], K[10]), K[10])) = s[10]
        /\ subshiftrows_inv(xorblock(FinalRound(t[10], K[10]), K[10])) = t[10]
    BY ONLY <2>1, Rounds
  <2>3. FinalRound(s[10], K[10]) = FinalRound(t[10], K[10])
    BY <1>1, <1>2
  <2> QED BY ONLY <2>2, <2>3
<1>5. \A l \in 1 .. 9 : s[l + 1] = t[l + 1] => s[l] = t[l]
  <2> SUFFICES ASSUME NEW l \in 1 .. 9, s[l + 1] = t[l + 1] PROVE s[l] = t[l]
    OBVIOUS
  <2>1. s[l + 1] = Round(s[l], K[l]) /\ t[l + 1] = Round(t[l], K[l])
    BY <1>1, <1>2 DEF Trail
  <2>2. s[l] \in Block /\ t[l] \in Block /\ K[l] \in Block
    BY <1>3
  <2>3. /\ subshiftrows_inv(mixcolumns_inv(xorblock(Round(s[l], K[l]), K[l]))) = s[l]
        /\ subshiftrows_inv(mixcolumns_inv(xorblock(Round(t[l], K[l]), K[l]))) = t[l]
    BY ONLY <2>2, Rounds
  <2>4. Round(s[l], K[l]) = Round(t[l], K[l])
    BY <2>1
  <2> QED BY ONLY <2>3, <2>4
<1>6. s[1] = t[1]
  <2> DEFINE same(l) == s[l] = t[l]
  <2>1. \A l \in 1 .. 9 : same(l + 1) => same(l)
    BY <1>5
  <2>2. same(10)
    BY <1>4
  <2> HIDE DEF same
  <2>3. same(9) /\ same(8) /\ same(7)
    <3>1. same(9 + 1) => same(9)
      BY ONLY <2>1, 9 \in 1 .. 9
    <3>2. same(9)
      BY ONLY <2>2, <3>1, 9 + 1 = 10
    <3>3. same(8 + 1) => same(8)
      BY ONLY <2>1, 8 \in 1 .. 9
    <3>4. same(8)
      BY ONLY <3>2, <3>3, 8 + 1 = 9
    <3> QED BY ONLY <2>1, <3>2, <3>4
  <2>4. same(6) /\ same(5) /\ same(4)
    BY ONLY <2>1, <2>3
  <2>5. same(3) /\ same(2) /\ same(1)
    BY ONLY <2>1, <2>4
  <2> QED BY ONLY <2>5 DEF same
<1>7. xorblock(w, K[0]) = xorblock(v, K[0])
  BY <1>1, <1>2, <1>6 DEF Trail
<1>8. K[0] \in Block
  OBVIOUS
<1>9. xorblock(xorblock(w, K[0]), K[0]) = w /\ xorblock(xorblock(v, K[0]), K[0]) = v
  BY ONLY <1>8, w \in Block, v \in Block, XorBlock
<1> QED BY ONLY <1>7, <1>9

(* And a block is encrypted to one block only. *)
LEMMA EncryptsFunctional ==
    ASSUME NEW K \in [0 .. 10 -> Block], NEW w, NEW y, NEW z,
           Encrypts(K, w, y), Encrypts(K, w, z)
    PROVE  y = z
<1>1. PICK s : Trail(K, w, s, 10) /\ y = FinalRound(s[10], K[10])
  BY DEF Encrypts
<1>2. PICK t : Trail(K, w, t, 10) /\ z = FinalRound(t[10], K[10])
  BY DEF Encrypts
<1>3. s[1] = t[1]
  BY <1>1, <1>2 DEF Trail
<1>4. \A l \in 1 .. 9 : s[l] = t[l] => s[l + 1] = t[l + 1]
  BY <1>1, <1>2 DEF Trail
<1>5. s[2] = t[2]
  BY <1>3, <1>4
<1>6. s[3] = t[3]
  BY <1>4, <1>5
<1>7. s[4] = t[4]
  BY <1>4, <1>6
<1>8. s[5] = t[5]
  BY <1>4, <1>7
<1>9. s[6] = t[6]
  BY <1>4, <1>8
<1>10. s[7] = t[7]
  BY <1>4, <1>9
<1>11. s[8] = t[8]
  BY <1>4, <1>10
<1>12. s[9] = t[9]
  BY <1>4, <1>11
<1>13. s[10] = t[10]
  BY <1>4, <1>12
<1> QED BY <1>1, <1>2, <1>13

-----------------------------------------------------------------------------
(* The invariant.  While the buffer is encrypted, the blocks before b are, *)
(* each mixed with what then stood before it; while it is decrypted, those *)
(* after b are the message again.                                          *)
Typed ==
    /\ case \in CbcCases \union Signed
    /\ rk \in Seq(Word) /\ Len(rk) % 4 = 0 /\ Len(rk) \in 4 .. 44
    /\ mode \in {"expand", "enc", "dec", "mac", "end"}
    /\ mode # "expand" => Len(rk) = 44
    /\ buf \in Seq(Block) /\ Len(buf) = Len(case.message) /\ Len(buf) > 0
    /\ b \in 1 .. Len(buf) /\ r \in 0 .. 10
    /\ mode \in {"enc", "dec"} => case \in CbcCases
    /\ mode = "mac" => case \in Signed

Plain(n) == buf[n] = case.message[n]
Mixed(n) == xorblock(case.message[n], Previous(n))
Encrypted(n) == Encrypts(Keys, Mixed(n), buf[n])

Expanding == mode = "expand" => buf = case.message /\ b = 1 /\ r = 0
Encrypting ==
    mode = "enc" =>
        /\ \A n \in b .. Len(buf) : Plain(n)
        /\ \A n \in 1 .. b - 1 : Encrypted(n)
        /\ r > 0 => \E s : Trail(Keys, Mixed(b), s, r) /\ x = s[r]
Decrypting ==
    mode = "dec" =>
        /\ \A n \in b + 1 .. Len(buf) : Plain(n)
        /\ \A n \in 1 .. b : Encrypted(n)
        /\ r > 0 => r < 10 /\ \E s : Trail(Keys, Mixed(b), s, 10) /\ x = s[r + 1]
Decrypted == mode = "end" /\ case \in CbcCases => \A n \in 1 .. Len(buf) : Plain(n)

(* What the MAC is after the first n blocks. *)
ChainInput(c, n) == IF n = 1 THEN case.message[1] ELSE xorblock(c[n - 1], case.message[n - 1])
Chain(c, n) ==
    /\ c \in [1 .. Len(case.message) -> Block]
    /\ \A l \in 1 .. n : Encrypts(Keys, ChainInput(c, l), c[l])
Signing ==
    mode = "mac" =>
        /\ buf = case.message
        /\ \E c : /\ Chain(c, b - 1)
                  /\ r = 0 /\ b > 1 => x = c[b - 1]
                  /\ r > 0 => \E s : Trail(Keys, ChainInput(c, b), s, r) /\ x = s[r]
Finished ==
    mode = "end" /\ case \in Signed =>
        \E c : Chain(c, Len(case.message)) /\ x = c[Len(case.message)]

CipherInv == Typed /\ Expanding /\ Encrypting /\ Decrypting /\ Decrypted /\ Signing /\ Finished
-----------------------------------------------------------------------------
(* Trails: how they start, grow and end. *)
LEMMA TrailStarts ==
    ASSUME NEW K \in [0 .. 10 -> Block], NEW w \in Block
    PROVE  \E s : Trail(K, w, s, 1) /\ s[1] = xorblock(w, K[0])
<1> DEFINE s == [l \in 1 .. 10 |-> xorblock(w, K[0])]
<1>1. K[0] \in Block
  OBVIOUS
<1>2. xorblock(w, K[0]) \in Block
  BY ONLY <1>1, w \in Block, XorBlock
<1>3. s \in [1 .. 10 -> Block] /\ s[1] = xorblock(w, K[0])
  BY <1>2
<1> HIDE DEF s
<1>4. Trail(K, w, s, 1)
  BY <1>3 DEF Trail
<1> QED BY <1>3, <1>4

LEMMA TrailGrows ==
    ASSUME NEW K \in [0 .. 10 -> Block], NEW w, NEW s, NEW n \in 1 .. 9, Trail(K, w, s, n)
    PROVE  \E t : Trail(K, w, t, n + 1) /\ t[n + 1] = Round(s[n], K[n])
<1> DEFINE t == [s EXCEPT ![n + 1] = Round(s[n], K[n])]
<1>1. s \in [1 .. 10 -> Block] /\ s[1] = xorblock(w, K[0]) /\ \A l \in 1 .. n - 1 : s[l + 1] = Round(s[l], K[l])
  BY DEF Trail
<1>2. s[n] \in Block /\ K[n] \in Block
  BY <1>1
<1>3. Round(s[n], K[n]) \in Block
  BY ONLY <1>2, Rounds
<1>4. /\ t \in [1 .. 10 -> Block] /\ t[n + 1] = Round(s[n], K[n])
      /\ \A l \in 1 .. n : t[l] = s[l]
  BY <1>1, <1>3
<1> HIDE DEF t
<1>5. ASSUME NEW l \in 1 .. n PROVE t[l + 1] = Round(t[l], K[l])
  <2>1. CASE l = n
    BY <1>4, <2>1
  <2>2. CASE l < n
    <3>1. l \in 1 .. n - 1 /\ l + 1 \in 1 .. n
      BY <2>2
    <3> QED BY <1>1, <1>4, <3>1
  <2> QED BY <2>1, <2>2
<1>6. t[1] = xorblock(w, K[0])
  BY <1>1, <1>4
<1>7. (n + 1) - 1 = n
  OBVIOUS
<1> QED BY <1>4, <1>5, <1>6, <1>7 DEF Trail

LEMMA TrailEnds ==
    ASSUME NEW K \in [0 .. 10 -> Block], NEW w, NEW s, Trail(K, w, s, 10)
    PROVE  FinalRound(s[10], K[10]) \in Block /\ Encrypts(K, w, FinalRound(s[10], K[10]))
<1>1. s[10] \in Block /\ K[10] \in Block
  BY DEF Trail
<1>2. FinalRound(s[10], K[10]) \in Block
  BY ONLY <1>1, Rounds
<1> QED BY <1>2 DEF Encrypts
-----------------------------------------------------------------------------
(* What the invariant says of the blocks at hand. *)
LEMMA CaseFacts ==
    ASSUME Typed
    PROVE  /\ case.message \in Seq(Block) /\ Len(case.message) \in Nat \ {0}
           /\ Len(buf) = Len(case.message)
           /\ \A n \in 1 .. Len(buf) : case.message[n] \in Block /\ buf[n] \in Block
           /\ case \in CbcCases => case \notin Signed /\ case.iv \in Block
<1>1. case.message \in Seq(Block) /\ (case \in CbcCases => case \notin Signed /\ case.iv \in Block)
  BY CaseAssumption DEF Typed
<1>2. buf \in Seq(Block) /\ Len(buf) = Len(case.message) /\ Len(buf) > 0
  BY DEF Typed
<1>3. Len(case.message) \in Nat \ {0}
  BY <1>1, <1>2, LenProperties
<1>4. \A n \in 1 .. Len(buf) : case.message[n] \in Block
  BY <1>1, <1>2, ElementOfSeq
<1>5. \A n \in 1 .. Len(buf) : buf[n] \in Block
  BY <1>2, ElementOfSeq
<1> QED BY <1>1, <1>2, <1>3, <1>4, <1>5

LEMMA MixedTyped ==
    ASSUME Typed, case \in CbcCases, NEW n \in 1 .. Len(buf)
    PROVE  /\ Previous(n) \in Block /\ Mixed(n) \in Block
           /\ xorblock(Mixed(n), Previous(n)) = case.message[n]
<1>1. Previous(n) \in Block
  <2>1. CASE n = 1
    BY <2>1, CaseFacts DEF Previous
  <2>2. CASE n # 1
    <3>1. n - 1 \in 1 .. Len(buf)
      BY <2>2, CaseFacts
    <3> QED BY <2>2, <3>1, CaseFacts DEF Previous
  <2> QED BY <2>1, <2>2
<1>2. case.message[n] \in Block
  BY CaseFacts
<1>3. /\ xorblock(case.message[n], Previous(n)) \in Block
      /\ xorblock(xorblock(case.message[n], Previous(n)), Previous(n)) = case.message[n]
  BY ONLY <1>1, <1>2, XorBlock
<1> QED BY <1>1, <1>3 DEF Mixed

LEMMA ScheduleTyped ==
    ASSUME Typed, mode # "expand"
    PROVE  /\ Keys \in [0 .. 10 -> Block]
           /\ \A n \in 0 .. 10 : Keys[n] = RoundKey(n) /\ Keys[n] \in Block
<1>1. Keys \in [0 .. 10 -> Block]
  BY KeysTyped DEF Typed
<1> QED BY <1>1 DEF Keys

LEMMA ChainTyped ==
    ASSUME Typed, case \in Signed, NEW c, NEW n, Chain(c, n), NEW l \in 1 .. Len(buf)
    PROVE  ChainInput(c, l) \in Block
<1>1. CASE l = 1
  BY <1>1, CaseFacts DEF ChainInput
<1>2. CASE l # 1
  <2>1. l - 1 \in 1 .. Len(buf) /\ l - 1 \in 1 .. Len(case.message)
    BY <1>2, CaseFacts
  <2>2. c[l - 1] \in Block /\ case.message[l - 1] \in Block
    BY <2>1, CaseFacts DEF Chain
  <2>3. xorblock(c[l - 1], case.message[l - 1]) \in Block
    BY ONLY <2>2, XorBlock
  <2> QED BY <1>2, <2>3 DEF ChainInput
<1> QED BY <1>1, <1>2

(* The chain only grows at its end. *)
LEMMA ChainGrows ==
    ASSUME Typed, NEW c, NEW n \in 1 .. Len(case.message), Chain(c, n - 1),
           NEW y \in Block, Encrypts(Keys, ChainInput(c, n), y)
    PROVE  Chain([c EXCEPT ![n] = y], n)
<1> DEFINE d == [c EXCEPT ![n] = y]
<1>1. c \in [1 .. Len(case.message) -> Block] /\ \A l \in 1 .. n - 1 : Encrypts(Keys, ChainInput(c, l), c[l])
  BY DEF Chain
<1>2. d \in [1 .. Len(case.message) -> Block] /\ d[n] = y
  BY <1>1
<1>3. \A l \in 1 .. Len(case.message) : l # n => d[l] = c[l]
  BY <1>1
<1>4. Len(case.message) \in Nat
  BY CaseFacts
<1> HIDE DEF d
<1>5. ASSUME NEW l \in 1 .. n PROVE ChainInput(d, l) = ChainInput(c, l)
  <2>1. l # 1 => l - 1 \in 1 .. Len(case.message) /\ l - 1 # n
    BY <1>4
  <2> QED BY <1>3, <2>1 DEF ChainInput
<1>6. ASSUME NEW l \in 1 .. n PROVE Encrypts(Keys, ChainInput(d, l), d[l])
  <2>1. CASE l = n
    BY <1>2, <1>5, <2>1
  <2>2. CASE l # n
    <3>1. l \in 1 .. n - 1 /\ l \in 1 .. Len(case.message)
      BY <1>4, <2>2
    <3>2. Encrypts(Keys, ChainInput(c, l), c[l]) /\ d[l] = c[l]
      BY <1>1, <1>3, <2>2, <3>1
    <3> QED BY <1>5, <3>2
  <2> QED BY <2>1, <2>2
<1>7. Chain(d, n)
  BY <1>2, <1>6 DEF Chain
<1> QED BY <1>7 DEF d
-----------------------------------------------------------------------------
(* The invariant holds at first, and each action keeps it. *)
LEMMA WordXor ==
    ASSUME NEW w \in Word, NEW v \in Word
    PROVE  xorblock(w, v) \in Word
<1>1. \A k \in 0 .. 3 : w[k] \in Byte /\ v[k] \in Byte
  BY DEF Word
<1>2. DOMAIN w = 0 .. 3
  BY DEF Word
<1>3. \A k \in 0 .. 3 : Plus(w[k], v[k]) \in Byte
  BY <1>1, PlusBits
<1> QED BY <1>2, <1>3 DEF xorblock, Word

LEMMA FourWords ==
    ASSUME NEW w \in [1 .. 4 -> Word]
    PROVE  w \in Seq(Word) /\ Len(w) = 4
<1>1. w[1] \in Word /\ w[2] \in Word /\ w[3] \in Word /\ w[4] \in Word
  OBVIOUS
<1>2. << w[1], w[2], w[3], w[4] >> \in Seq(Word) /\ Len(<< w[1], w[2], w[3], w[4] >>) = 4
  BY <1>1
<1>3. w = << w[1], w[2], w[3], w[4] >>
  OBVIOUS
<1> QED BY <1>2, <1>3

LEMMA CipherInitial == Init => CipherInv
<1> SUFFICES ASSUME Init PROVE CipherInv
  OBVIOUS
<1> USE DEF Init
<1>1. case.message \in Seq(Block) /\ case.message # << >>
  BY CaseAssumption
<1>2. Len(case.message) \in Nat /\ Len(case.message) > 0
  BY <1>1, EmptySeq, LenProperties
<1>3. rk \in [1 .. 4 -> Word]
  <2>1. CASE case \in Signed
    <3>1. \A n \in 1 .. 4, k \in 0 .. 3 : mac_key[n][k + 1] \in Byte
      BY DEF mac_key, Byte
    <3> QED BY <2>1, <3>1 DEF InitialKey, Word
  <2>2. CASE case \notin Signed
    BY <2>2, CaseAssumption DEF InitialKey
  <2> QED BY <2>1, <2>2
<1>4. rk \in Seq(Word) /\ Len(rk) = 4
  BY <1>3, FourWords
<1>5. Typed
  BY <1>1, <1>2, <1>4 DEF Typed
<1>6. Expanding /\ Encrypting /\ Decrypting /\ Decrypted /\ Signing /\ Finished
  BY DEF Expanding, Encrypting, Decrypting, Decrypted, Signing, Finished
<1> QED BY <1>5, <1>6 DEF CipherInv

LEMMA StepKeyExpansion == CipherInv /\ KeyExpansion => CipherInv'
<1> SUFFICES ASSUME CipherInv, KeyExpansion PROVE CipherInv'
  OBVIOUS
<1> DEFINE i == Len(rk)
<1> DEFINE constant == [k \in 0 .. 3 |-> IF k = 0 THEN rc[i \div 4] ELSE 0]
<1> DEFINE first == xorblock(xorblock(rk[i - 3], subword(rotword(rk[i]))), constant)
<1> DEFINE second == xorblock(rk[i - 2], first)
<1> DEFINE third == xorblock(rk[i - 1], second)
<1> DEFINE fourth == xorblock(rk[i], third)
<1> HIDE DEF i
<1>1. rk \in Seq(Word) /\ i = Len(rk) /\ i \in 4 .. 40 /\ i % 4 = 0
  <2>1. rk \in Seq(Word) /\ i \in 4 .. 44 /\ i % 4 = 0 /\ i < 44
    BY DEF CipherInv, Typed, KeyExpansion, i
  <2>2. \A n \in 4 .. 44 : n % 4 = 0 /\ n < 44 => n \in 4 .. 40
    OBVIOUS
  <2> QED BY <2>1, <2>2 DEF i
<1>2. rk' = rk \o << first, second, third, fourth >>
  BY DEF KeyExpansion, i
<1>3. i - 3 \in 1 .. i /\ i - 2 \in 1 .. i /\ i - 1 \in 1 .. i /\ i \in 1 .. i /\ i \div 4 \in 1 .. 10
  <2>1. \A n \in 4 .. 40 : /\ n - 3 \in 1 .. n /\ n - 2 \in 1 .. n /\ n - 1 \in 1 .. n
                           /\ n \in 1 .. n /\ n \div 4 \in 1 .. 10
    OBVIOUS
  <2> QED BY ONLY <1>1, <2>1
<1>4. \A n \in 1 .. i : rk[n] \in Word
  BY <1>1, ElementOfSeq
<1>5. subword(rotword(rk[i])) \in Word
  <2>1. \A k \in 0 .. 3 : rk[i][(k + 1) % 4] \in Byte
    BY <1>3, <1>4 DEF Word
  <2>2. \A k \in 0 .. 3 : At(SBOX, rk[i][(k + 1) % 4]) \in Byte
    BY <2>1, TablesTyped
  <2>3. subword(rotword(rk[i])) = [k \in 0 .. 3 |-> At(SBOX, rk[i][(k + 1) % 4])]
    BY DEF subword, rotword
  <2> QED BY <2>2, <2>3 DEF Word
<1>6. constant \in Word
  <2>1. \A n \in 1 .. 10 : rc[n] \in Byte
    BY DEF rc, Byte
  <2>3. 0 \in Byte
    BY DEF Byte
  <2>2. rc[i \div 4] \in Byte /\ 0 \in Byte
    BY ONLY <1>3, <2>1, <2>3
  <2> QED BY <2>2 DEF Word
<1> HIDE DEF constant
<1>7. first \in Word
  BY <1>3, <1>4, <1>5, <1>6, WordXor
<1> HIDE DEF first
<1>8. second \in Word
  BY <1>3, <1>4, <1>7, WordXor
<1> HIDE DEF second
<1>9. third \in Word
  BY <1>3, <1>4, <1>8, WordXor
<1> HIDE DEF third
<1>10. fourth \in Word
  BY <1>3, <1>4, <1>9, WordXor
<1> HIDE DEF fourth
<1>11. << first, second, third, fourth >> \in Seq(Word) /\ Len(<< first, second, third, fourth >>) = 4
  BY <1>7, <1>8, <1>9, <1>10
<1>12. rk' \in Seq(Word) /\ Len(rk') = i + 4
  BY <1>1, <1>2, <1>11, ConcatProperties
<1>13. Len(rk') \in 4 .. 44 /\ Len(rk') % 4 = 0
  <2>1. \A n \in 4 .. 40 : n % 4 = 0 => n + 4 \in 4 .. 44 /\ (n + 4) % 4 = 0
    OBVIOUS
  <2> QED BY ONLY <1>1, <1>12, <2>1
<1>14. Typed'
  BY <1>12, <1>13 DEF CipherInv, Typed, KeyExpansion
<1>15. (Expanding /\ Encrypting /\ Decrypting /\ Decrypted /\ Signing /\ Finished)'
  BY DEF CipherInv, KeyExpansion, Expanding, Encrypting, Decrypting, Decrypted, Signing, Finished
<1> QED BY <1>14, <1>15 DEF CipherInv

LEMMA StepKeyReady == CipherInv /\ KeyReady => CipherInv'
<1> SUFFICES ASSUME CipherInv, KeyReady PROVE CipherInv'
  OBVIOUS
<1>1. Typed /\ buf = case.message /\ b = 1 /\ r = 0
  BY DEF CipherInv, KeyReady, Expanding
<1>2. Typed'
  BY <1>1 DEF KeyReady, Typed
<1>3. Expanding' /\ Decrypting' /\ Decrypted' /\ Finished'
  BY <1>1 DEF KeyReady, Expanding, Decrypting, Decrypted, Finished
<1>4. Encrypting'
  BY <1>1 DEF KeyReady, Encrypting, Plain
<1>5. Signing'
  <2> DEFINE c == [l \in 1 .. Len(case.message) |-> case.message[l]]
  <2>1. c \in [1 .. Len(case.message) -> Block]
    BY <1>1, CaseFacts
  <2>2. Chain(c, 0)'
    BY <2>1 DEF Chain, KeyReady
  <2> HIDE DEF c
  <2>3. b' - 1 = 0 /\ r' = 0 /\ buf' = case'.message
    BY <1>1 DEF KeyReady
  <2> QED BY <1>1, <2>2, <2>3 DEF Signing, KeyReady
<1> QED BY <1>2, <1>3, <1>4, <1>5 DEF CipherInv

LEMMA KeysKept ==
    ASSUME rk' = rk
    PROVE  Keys' = Keys
BY DEF Keys, RoundKey
(* What a step that writes neither the buffer nor the schedule leaves. *)
LEMMA BlocksKept ==
    ASSUME UNCHANGED <<case, rk, buf>>
    PROVE  \A n : /\ Plain(n)' <=> Plain(n)
                  /\ Mixed(n)' = Mixed(n)
                  /\ Encrypted(n)' <=> Encrypted(n)
<1>1. Keys' = Keys
  BY KeysKept
<1>2. TAKE n
<1>3. Previous(n)' = Previous(n)
  BY DEF Previous
<1>4. Mixed(n)' = Mixed(n)
  BY <1>3 DEF Mixed
<1>5. Encrypted(n)' <=> Encrypted(n)
  BY <1>1, <1>4 DEF Encrypted
<1> QED BY <1>4, <1>5 DEF Plain

LEMMA ChainKept ==
    ASSUME UNCHANGED <<case, rk>>
    PROVE  \A c, n : ChainInput(c, n)' = ChainInput(c, n) /\ (Chain(c, n)' <=> Chain(c, n))
<1>1. Keys' = Keys
  BY KeysKept
<1>2. \A c, n : ChainInput(c, n)' = ChainInput(c, n)
  BY DEF ChainInput
<1>3. TAKE c, n
<1>4. Chain(c, n)' <=> Chain(c, n)
  BY <1>1, <1>2 DEF Chain
<1> QED BY <1>2, <1>4

LEMMA StepEncBlock == CipherInv /\ EncBlock => CipherInv'
<1> SUFFICES ASSUME CipherInv, EncBlock PROVE CipherInv'
  OBVIOUS
<1>1. Typed /\ mode # "expand" /\ b \in 1 .. Len(buf)
  BY DEF CipherInv, Typed, EncBlock
<1>2. Typed'
  BY <1>1 DEF EncBlock, Typed
<1>3. Expanding' /\ Decrypting' /\ Decrypted' /\ Finished'
  BY <1>1 DEF EncBlock, Expanding, Decrypting, Decrypted, Finished
<1>4. Keys \in [0 .. 10 -> Block] /\ Keys[0] = RoundKey(0) /\ Keys' = Keys
  BY <1>1, ScheduleTyped, KeysKept DEF EncBlock
<1>5. /\ \A n : (Plain(n)' <=> Plain(n)) /\ Mixed(n)' = Mixed(n) /\ (Encrypted(n)' <=> Encrypted(n))
      /\ \A c, n : ChainInput(c, n)' = ChainInput(c, n) /\ (Chain(c, n)' <=> Chain(c, n))
  BY BlocksKept, ChainKept DEF EncBlock
<1>6. Encrypting'
  <2>1. CASE mode = "enc"
    <3>1. Encrypting
      BY DEF CipherInv
    <3>2. case \in CbcCases
      BY <1>1, <2>1 DEF Typed
    <3>3. Input = Mixed(b)
      <4>1. Plain(b)
        BY <1>1, <2>1, <3>1, CaseFacts DEF Encrypting
      <4> QED BY <2>1, <4>1 DEF Input, Plain, Mixed
    <3>4. Mixed(b) \in Block
      BY <1>1, <3>2, MixedTyped
    <3>5. PICK s : Trail(Keys, Mixed(b), s, 1) /\ s[1] = xorblock(Mixed(b), Keys[0])
      BY <1>4, <3>4, TrailStarts
    <3>6. Trail(Keys, Mixed(b), s, 1)' /\ x' = s[1]
      BY <1>4, <1>5, <3>3, <3>5 DEF EncBlock
    <3> QED BY <1>5, <2>1, <3>1, <3>6 DEF Encrypting, EncBlock
  <2>2. CASE mode # "enc"
    BY <2>2 DEF Encrypting, EncBlock
  <2> QED BY <2>1, <2>2
<1>7. Signing'
  <2>1. CASE mode = "mac"
    <3>1. Signing
      BY DEF CipherInv
    <3>2. case \in Signed
      BY <1>1, <2>1 DEF Typed
    <3>8. PICK c : /\ Chain(c, b - 1)
                   /\ r = 0 /\ b > 1 => x = c[b - 1]
                   /\ r > 0 => \E s : Trail(Keys, ChainInput(c, b), s, r) /\ x = s[r]
      BY <2>1, <3>1 DEF Signing
    <3>3. Chain(c, b - 1) /\ (b > 1 => x = c[b - 1])
      BY <3>8 DEF EncBlock
    <3>4. Input = ChainInput(c, b)
      BY <1>1, <2>1, <3>1, <3>3 DEF Input, MacInput, ChainInput, Signing
    <3>5. ChainInput(c, b) \in Block
      BY <1>1, <3>2, <3>3, ChainTyped
    <3>6. PICK s : Trail(Keys, ChainInput(c, b), s, 1) /\ s[1] = xorblock(ChainInput(c, b), Keys[0])
      BY <1>4, <3>5, TrailStarts
    <3>7. Trail(Keys', ChainInput(c, b)', s, r') /\ x' = s[1] /\ r' = 1
      BY <1>4, <1>5, <3>4, <3>6 DEF EncBlock
    <3>9. Chain(c, b - 1)' /\ buf' = case'.message /\ b' = b
      BY <1>5, <2>1, <3>1, <3>3 DEF EncBlock, Signing
    <3> QED BY <3>7, <3>9 DEF Signing
  <2>2. CASE mode # "mac"
    BY <2>2 DEF Signing, EncBlock
  <2> QED BY <2>1, <2>2
<1> QED BY <1>2, <1>3, <1>6, <1>7 DEF CipherInv

LEMMA StepEncRound == CipherInv /\ EncRound => CipherInv'
<1> SUFFICES ASSUME CipherInv, EncRound PROVE CipherInv'
  OBVIOUS
<1>1. Typed /\ mode # "expand" /\ b \in 1 .. Len(buf) /\ r \in 1 .. 9
  BY DEF CipherInv, Typed, EncRound
<1>2. Typed'
  BY <1>1 DEF EncRound, Typed
<1>3. Expanding' /\ Decrypting' /\ Decrypted' /\ Finished'
  BY <1>1 DEF EncRound, Expanding, Decrypting, Decrypted, Finished
<1>4. Keys \in [0 .. 10 -> Block] /\ Keys[r] = RoundKey(r) /\ Keys' = Keys
  BY <1>1, ScheduleTyped, KeysKept DEF EncRound
<1>5. /\ \A n : (Plain(n)' <=> Plain(n)) /\ Mixed(n)' = Mixed(n) /\ (Encrypted(n)' <=> Encrypted(n))
      /\ \A c, n : ChainInput(c, n)' = ChainInput(c, n) /\ (Chain(c, n)' <=> Chain(c, n))
  BY BlocksKept, ChainKept DEF EncRound
<1>6. x' = Round(x, Keys[r])
  BY <1>4 DEF EncRound, Round
<1>7. Encrypting'
  <2>1. CASE mode = "enc"
    <3>1. Encrypting
      BY DEF CipherInv
    <3>2. PICK s : Trail(Keys, Mixed(b), s, r) /\ x = s[r]
      BY <1>1, <2>1, <3>1 DEF Encrypting
    <3>3. PICK t : Trail(Keys, Mixed(b), t, r + 1) /\ t[r + 1] = Round(s[r], Keys[r])
      BY <1>1, <1>4, <3>2, TrailGrows
    <3>4. Trail(Keys', Mixed(b)', t, r') /\ x' = t[r'] /\ b' = b
      BY <1>4, <1>5, <1>6, <3>2, <3>3 DEF EncRound
    <3> QED BY <1>5, <2>1, <3>1, <3>4 DEF Encrypting, EncRound
  <2>2. CASE mode # "enc"
    BY <2>2 DEF Encrypting, EncRound
  <2> QED BY <2>1, <2>2
<1>8. Signing'
  <2>1. CASE mode = "mac"
    <3>1. Signing
      BY DEF CipherInv
    <3>7. PICK c : /\ Chain(c, b - 1)
                   /\ r = 0 /\ b > 1 => x = c[b - 1]
                   /\ r > 0 => \E s : Trail(Keys, ChainInput(c, b), s, r) /\ x = s[r]
      BY <2>1, <3>1 DEF Signing
    <3>2. Chain(c, b - 1) /\ \E s : Trail(Keys, ChainInput(c, b), s, r) /\ x = s[r]
      BY <1>1, <3>7
    <3>3. PICK s : Trail(Keys, ChainInput(c, b), s, r) /\ x = s[r]
      BY <3>2
    <3>4. PICK t : Trail(Keys, ChainInput(c, b), t, r + 1) /\ t[r + 1] = Round(s[r], Keys[r])
      BY <1>1, <1>4, <3>3, TrailGrows
    <3>5. Trail(Keys', ChainInput(c, b)', t, r') /\ x' = t[r'] /\ r' > 0
      BY <1>1, <1>4, <1>5, <1>6, <3>3, <3>4 DEF EncRound
    <3>6. Chain(c, b - 1)' /\ buf' = case'.message /\ b' = b
      BY <1>5, <2>1, <3>1, <3>2 DEF EncRound, Signing
    <3> QED BY <3>5, <3>6 DEF Signing
  <2>2. CASE mode # "mac"
    BY <2>2 DEF Signing, EncRound
  <2> QED BY <2>1, <2>2
<1> QED BY <1>2, <1>3, <1>7, <1>8 DEF CipherInv
(* What a write of block b leaves. *)
LEMMA BlockWritten ==
    ASSUME Typed, UNCHANGED <<case, rk>>, NEW y \in Block, buf' = [buf EXCEPT ![b] = y]
    PROVE  /\ buf' \in Seq(Block) /\ Len(buf') = Len(buf) /\ buf'[b] = y
           /\ \A n \in 1 .. Len(buf) : n # b => (Plain(n)' <=> Plain(n))
           /\ \A n \in 1 .. b : Mixed(n)' = Mixed(n)
           /\ \A n \in 1 .. b - 1 : Encrypted(n)' <=> Encrypted(n)
<1>1. buf \in Seq(Block) /\ Len(buf) \in Nat /\ b \in 1 .. Len(buf)
  BY CaseFacts DEF Typed
<1>2. /\ buf' \in Seq(Block) /\ Len(buf') = Len(buf)
      /\ \A n \in 1 .. Len(buf) : buf'[n] = IF n = b THEN y ELSE buf[n]
  BY <1>1, ExceptSeq
<1>3. Keys' = Keys
  BY KeysKept
<1>4. \A n \in 1 .. Len(buf) : n # b => (Plain(n)' <=> Plain(n))
  BY <1>2 DEF Plain
<1>5. ASSUME NEW n \in 1 .. b PROVE Mixed(n)' = Mixed(n)
  <2>1. n # 1 => n - 1 \in 1 .. Len(buf) /\ n - 1 # b
    BY <1>1
  <2>2. Previous(n)' = Previous(n)
    BY <1>2, <2>1 DEF Previous
  <2> QED BY <2>2 DEF Mixed
<1>6. ASSUME NEW n \in 1 .. b - 1 PROVE Encrypted(n)' <=> Encrypted(n)
  <2>1. n \in 1 .. b /\ n \in 1 .. Len(buf) /\ n # b
    BY <1>1
  <2>2. buf'[n] = buf[n] /\ Mixed(n)' = Mixed(n)
    BY <1>2, <1>5, <2>1
  <2> QED BY <1>3, <2>2 DEF Encrypted
<1> QED BY <1>1, <1>2, <1>4, <1>5, <1>6

LEMMA StepEncLast == CipherInv /\ EncLast => CipherInv'
<1> SUFFICES ASSUME CipherInv, EncLast PROVE CipherInv'
  OBVIOUS
<1>1. /\ Typed /\ mode # "expand" /\ b \in 1 .. Len(buf) /\ Len(buf) \in Nat
      /\ UNCHANGED <<case, rk>> /\ Len(buf) = Len(case.message)
  BY CaseFacts DEF CipherInv, Typed, EncLast
<1>6. PICK k \in 1 .. Len(buf) : k = b
  BY <1>1
<1>2. Keys \in [0 .. 10 -> Block] /\ Keys[10] = RoundKey(10) /\ Keys' = Keys
  BY <1>1, ScheduleTyped, KeysKept
<1>3. x' = FinalRound(x, Keys[10])
  BY <1>2 DEF EncLast, LastRound, FinalRound
<1>4. CASE mode = "enc"
  <2>1. Encrypting /\ case \in CbcCases
    BY <1>1, <1>4 DEF CipherInv, Typed
  <2>2. PICK s : Trail(Keys, Mixed(b), s, 10) /\ x = s[10]
    BY <1>4, <2>1 DEF Encrypting, EncLast
  <2>3. x' \in Block /\ Encrypts(Keys, Mixed(b), x')
    BY <1>2, <1>3, <2>2, TrailEnds
  <2>4. buf' = [buf EXCEPT ![b] = x']
    BY <1>4 DEF EncLast
  <2>5. /\ buf' \in Seq(Block) /\ Len(buf') = Len(buf) /\ buf'[b] = x'
        /\ \A n \in 1 .. Len(buf) : n # b => (Plain(n)' <=> Plain(n))
        /\ \A n \in 1 .. b : Mixed(n)' = Mixed(n)
        /\ \A n \in 1 .. b - 1 : Encrypted(n)' <=> Encrypted(n)
    BY <1>1, <2>3, <2>4, BlockWritten
  <2>6. b \in 1 .. b
    BY <1>1
  <2>7. \A n \in 1 .. b : Encrypted(n)'
    <3>1. Encrypted(k)'
      <4>1. Mixed(k)' = Mixed(b) /\ buf'[k] = x'
        BY <1>6, <2>5, <2>6
      <4> QED BY <1>2, <2>3, <4>1 DEF Encrypted
    <3>2. \A n \in 1 .. b - 1 : Encrypted(n)'
      BY <1>4, <2>1, <2>5 DEF Encrypting
    <3>3. \A n \in 1 .. b : n = k \/ n \in 1 .. b - 1
      BY <1>1, <1>6
    <3> QED BY <3>1, <3>2, <3>3
  <2>8. \A n \in b + 1 .. Len(buf) : Plain(n)'
    <3>1. \A n \in b .. Len(buf) : Plain(n)
      BY <1>4, <2>1 DEF Encrypting
    <3>2. \A n \in b + 1 .. Len(buf) : n \in b .. Len(buf) /\ n \in 1 .. Len(buf) /\ n # b
      BY <1>1
    <3> QED BY <2>5, <3>1, <3>2
  <2>9. CASE b < Len(buf)
    <3>1. b' = b + 1 /\ mode' = "enc" /\ r' = 0 /\ b' \in 1 .. Len(buf') /\ b' - 1 = b
      BY <1>1, <1>4, <2>5, <2>9 DEF EncLast
    <3>2. Typed'
      BY <1>1, <2>1, <2>5, <3>1 DEF Typed
    <3>3. Encrypting'
      BY <2>5, <2>7, <2>8, <3>1 DEF Encrypting
    <3>4. (Expanding /\ Decrypting /\ Decrypted /\ Signing /\ Finished)'
      BY <3>1 DEF Expanding, Decrypting, Decrypted, Signing, Finished
    <3> QED BY <3>2, <3>3, <3>4 DEF CipherInv
  <2>10. CASE ~(b < Len(buf))
    <3>1. b' = b /\ mode' = "dec" /\ r' = 0 /\ b' \in 1 .. Len(buf')
      BY <1>1, <1>4, <2>5, <2>10 DEF EncLast
    <3>2. Typed'
      BY <1>1, <2>1, <2>5, <3>1 DEF Typed
    <3>3. Decrypting'
      BY <2>5, <2>7, <2>8, <3>1 DEF Decrypting
    <3>4. (Expanding /\ Encrypting /\ Decrypted /\ Signing /\ Finished)'
      BY <3>1 DEF Expanding, Encrypting, Decrypted, Signing, Finished
    <3> QED BY <3>2, <3>3, <3>4 DEF CipherInv
  <2> QED BY <2>9, <2>10
<1>5. CASE mode = "mac"
  <2>1. Signing /\ case \in Signed /\ buf' = buf
    BY <1>1, <1>5 DEF CipherInv, Typed, EncLast
  <2>2. PICK c : /\ Chain(c, b - 1)
                 /\ r = 0 /\ b > 1 => x = c[b - 1]
                 /\ r > 0 => \E s : Trail(Keys, ChainInput(c, b), s, r) /\ x = s[r]
    BY <1>5, <2>1 DEF Signing
  <2>3. PICK s : Trail(Keys, ChainInput(c, b), s, 10) /\ x = s[10]
    BY <2>2 DEF EncLast
  <2>4. x' \in Block /\ Encrypts(Keys, ChainInput(c, b), x')
    BY <1>2, <1>3, <2>3, TrailEnds
  <2>5. Chain([c EXCEPT ![b] = x'], b)
    BY <1>1, <2>2, <2>4, ChainGrows
  <2>10. [c EXCEPT ![b] = x'][b] = x'
    BY <1>1, <2>2 DEF Chain
  <2>6. PICK d : Chain(d, k) /\ d[k] = x'
    BY <1>6, <2>5, <2>10
  <2>7. Chain(d, k)'
    BY <1>1, <2>6, ChainKept
  <2>8. CASE b < Len(buf)
    <3>1. b' = b + 1 /\ mode' = "mac" /\ r' = 0 /\ b' \in 1 .. Len(buf') /\ b' - 1 = b
      BY <1>1, <1>5, <2>1, <2>8 DEF EncLast
    <3>2. Typed'
      BY <1>1, <2>1, <3>1 DEF Typed
    <3>3. Signing'
      <4>1. b' - 1 = k /\ x' = d[k] /\ buf' = case'.message
        BY <1>1, <1>5, <1>6, <2>1, <2>6, <3>1 DEF Signing
      <4> QED BY <2>7, <3>1, <4>1 DEF Signing
    <3>4. (Expanding /\ Encrypting /\ Decrypting /\ Decrypted /\ Finished)'
      BY <3>1 DEF Expanding, Encrypting, Decrypting, Decrypted, Finished
    <3> QED BY <3>2, <3>3, <3>4 DEF CipherInv
  <2>9. CASE ~(b < Len(buf))
    <3>1. b' = b /\ mode' = "end" /\ r' = 0 /\ b' \in 1 .. Len(buf') /\ b = Len(case.message)
      BY <1>1, <1>5, <2>1, <2>9 DEF EncLast
    <3>2. Typed'
      BY <1>1, <2>1, <3>1 DEF Typed
    <3>3. Finished'
      <4>1. k = Len(case'.message) /\ x' = d[k]
        BY <1>1, <1>6, <2>6, <3>1
      <4> QED BY <2>7, <3>1, <4>1 DEF Finished
    <3>4. case \notin CbcCases
      BY <2>1, CaseAssumption
    <3>5. (Expanding /\ Encrypting /\ Decrypting /\ Decrypted /\ Signing)'
      BY <1>1, <3>1, <3>4 DEF Expanding, Encrypting, Decrypting, Decrypted, Signing
    <3> QED BY <3>2, <3>3, <3>5 DEF CipherInv
  <2> QED BY <2>8, <2>9
<1> QED BY <1>4, <1>5 DEF EncLast
LEMMA StepDecBlock == CipherInv /\ DecBlock => CipherInv'
<1> SUFFICES ASSUME CipherInv, DecBlock PROVE CipherInv'
  OBVIOUS
<1>1. Typed /\ mode = "dec" /\ b \in 1 .. Len(buf) /\ Decrypting /\ r = 0 /\ r' = 9
  BY DEF CipherInv, Typed, DecBlock
<1>2. Typed'
  BY <1>1 DEF DecBlock, Typed
<1>3. (Expanding /\ Encrypting /\ Decrypted /\ Signing /\ Finished)'
  BY <1>1 DEF DecBlock, Expanding, Encrypting, Decrypted, Signing, Finished
<1>4. Keys \in [0 .. 10 -> Block] /\ Keys[10] = RoundKey(10) /\ Keys' = Keys
  BY <1>1, ScheduleTyped, KeysKept DEF DecBlock
<1>5. \A n : (Plain(n)' <=> Plain(n)) /\ Mixed(n)' = Mixed(n) /\ (Encrypted(n)' <=> Encrypted(n))
  BY BlocksKept DEF DecBlock
<1>6. Encrypted(b)
  BY <1>1, CaseFacts DEF Decrypting
<1>7. PICK s : Trail(Keys, Mixed(b), s, 10) /\ buf[b] = FinalRound(s[10], Keys[10])
  BY <1>6 DEF Encrypted, Encrypts
<1>8. x' = s[10]
  <2>1. s[10] \in Block /\ Keys[10] \in Block
    BY <1>4, <1>7 DEF Trail
  <2>2. subshiftrows_inv(xorblock(FinalRound(s[10], Keys[10]), Keys[10])) = s[10]
    BY ONLY <2>1, Rounds
  <2> QED BY <1>4, <1>7, <2>2 DEF DecBlock
<1>9. Trail(Keys', Mixed(b)', s, 10) /\ x' = s[r' + 1] /\ b' = b
  <2>1. 9 + 1 = 10
    OBVIOUS
  <2> QED BY <1>1, <1>4, <1>5, <1>7, <1>8, <2>1 DEF DecBlock
<1>10. Decrypting'
  <2>1. /\ \A n \in b' + 1 .. Len(buf') : Plain(n)'
        /\ \A n \in 1 .. b' : Encrypted(n)'
    BY <1>1, <1>5, <1>9 DEF Decrypting, DecBlock
  <2>2. r' < 10
    BY <1>1
  <2> QED BY <1>9, <2>1, <2>2 DEF Decrypting
<1> QED BY <1>2, <1>3, <1>10 DEF CipherInv

(* One round taken back on the trail. *)
LEMMA RoundUndone ==
    ASSUME NEW K \in [0 .. 10 -> Block], NEW w, NEW s, Trail(K, w, s, 10), NEW n \in 1 .. 9
    PROVE  subshiftrows_inv(mixcolumns_inv(xorblock(s[n + 1], K[n]))) = s[n]
<1>1. s[n] \in Block /\ K[n] \in Block
  BY DEF Trail
<1>2. subshiftrows_inv(mixcolumns_inv(xorblock(Round(s[n], K[n]), K[n]))) = s[n]
  BY ONLY <1>1, Rounds
<1>3. s[n + 1] = Round(s[n], K[n])
  BY DEF Trail
<1> QED BY <1>2, <1>3

LEMMA StepDecRound == CipherInv /\ DecRound => CipherInv'
<1> SUFFICES ASSUME CipherInv, DecRound PROVE CipherInv'
  OBVIOUS
<1>1. Typed /\ mode = "dec" /\ b \in 1 .. Len(buf) /\ Decrypting /\ r \in 2 .. 9 /\ r' = r - 1
  BY DEF CipherInv, Typed, DecRound
<1>2. Typed'
  BY <1>1 DEF DecRound, Typed
<1>3. (Expanding /\ Encrypting /\ Decrypted /\ Signing /\ Finished)'
  BY <1>1 DEF DecRound, Expanding, Encrypting, Decrypted, Signing, Finished
<1>4. Keys \in [0 .. 10 -> Block] /\ Keys[r] = RoundKey(r) /\ Keys' = Keys
  BY <1>1, ScheduleTyped, KeysKept DEF DecRound
<1>5. \A n : (Plain(n)' <=> Plain(n)) /\ Mixed(n)' = Mixed(n) /\ (Encrypted(n)' <=> Encrypted(n))
  BY BlocksKept DEF DecRound
<1>6. PICK s : Trail(Keys, Mixed(b), s, 10) /\ x = s[r + 1]
  BY <1>1 DEF Decrypting
<1>7. x' = s[r]
  <2>1. r \in 1 .. 9
    BY <1>1
  <2>2. subshiftrows_inv(mixcolumns_inv(xorblock(s[r + 1], Keys[r]))) = s[r]
    BY <1>4, <1>6, <2>1, RoundUndone
  <2> QED BY <1>4, <1>6, <2>2 DEF DecRound, UndoRound
<1>8. Trail(Keys', Mixed(b)', s, 10) /\ x' = s[r' + 1] /\ b' = b /\ r' < 10
  <2>1. r' + 1 = r /\ r' < 10
    BY <1>1
  <2> QED BY <1>4, <1>5, <1>6, <1>7, <2>1 DEF DecRound
<1>9. Decrypting'
  <2>1. /\ \A n \in b' + 1 .. Len(buf') : Plain(n)'
        /\ \A n \in 1 .. b' : Encrypted(n)'
    BY <1>1, <1>5, <1>8 DEF Decrypting, DecRound
  <2> QED BY <1>8, <2>1 DEF Decrypting
<1> QED BY <1>2, <1>3, <1>9 DEF CipherInv

LEMMA StepDecLast == CipherInv /\ DecLast => CipherInv'
<1> SUFFICES ASSUME CipherInv, DecLast PROVE CipherInv'
  OBVIOUS
<1>1. /\ Typed /\ mode = "dec" /\ b \in 1 .. Len(buf) /\ Decrypting /\ r = 1
      /\ UNCHANGED <<case, rk>> /\ Len(buf) \in Nat /\ Len(buf) = Len(case.message)
      /\ case \in CbcCases /\ case \notin Signed
  BY CaseFacts DEF CipherInv, Typed, DecLast
<1>2. PICK k \in 1 .. Len(buf) : k = b
  BY <1>1
<1>3. Keys \in [0 .. 10 -> Block] /\ Keys[0] = RoundKey(0) /\ Keys[1] = RoundKey(1) /\ Keys[0] \in Block
  BY <1>1, ScheduleTyped
<1>4. PICK s : Trail(Keys, Mixed(b), s, 10) /\ x = s[r + 1]
  BY <1>1 DEF Decrypting
<1>5. UndoRound(x) = s[1]
  <2>1. r \in 1 .. 9
    BY <1>1
  <2>2. subshiftrows_inv(mixcolumns_inv(xorblock(s[r + 1], Keys[r]))) = s[r]
    BY <1>3, <1>4, <2>1, RoundUndone
  <2> QED BY <1>1, <1>3, <1>4, <2>2 DEF UndoRound
<1>6. /\ Previous(b) \in Block /\ Mixed(b) \in Block
      /\ xorblock(Mixed(b), Previous(b)) = case.message[b]
  BY <1>1, MixedTyped
<1>7. xorblock(s[1], RoundKey(0)) = Mixed(b)
  <2>1. xorblock(xorblock(Mixed(b), Keys[0]), Keys[0]) = Mixed(b)
    BY ONLY <1>3, <1>6, XorBlock
  <2> QED BY <1>3, <1>4, <2>1 DEF Trail
<1>8. x' = case.message[b] /\ x' \in Block
  BY <1>1, <1>5, <1>6, <1>7, CaseFacts DEF DecLast
<1>9. buf' = [buf EXCEPT ![b] = x']
  BY DEF DecLast
<1>10. /\ buf' \in Seq(Block) /\ Len(buf') = Len(buf) /\ buf'[b] = x'
       /\ \A n \in 1 .. Len(buf) : n # b => (Plain(n)' <=> Plain(n))
       /\ \A n \in 1 .. b - 1 : Encrypted(n)' <=> Encrypted(n)
  BY <1>1, <1>8, <1>9, BlockWritten
<1>11. \A n \in b .. Len(buf) : Plain(n)'
  <2>1. Plain(k)'
    BY <1>1, <1>2, <1>8, <1>10 DEF Plain
  <2>2. \A n \in b + 1 .. Len(buf) : Plain(n)
    BY <1>1 DEF Decrypting
  <2>3. \A n \in b .. Len(buf) : n = k \/ (n \in b + 1 .. Len(buf) /\ n \in 1 .. Len(buf) /\ n # b)
    BY <1>1, <1>2
  <2> QED BY <1>10, <2>1, <2>2, <2>3
<1>12. \A n \in 1 .. b - 1 : Encrypted(n)'
  BY <1>1, <1>10 DEF Decrypting
<1>13. CASE b > 1
  <2>1. b' = b - 1 /\ mode' = "dec" /\ r' = 0 /\ b' \in 1 .. Len(buf') /\ b' + 1 = b
    BY <1>1, <1>10, <1>13 DEF DecLast
  <2>2. Typed'
    BY <1>1, <1>10, <2>1 DEF Typed
  <2>3. Decrypting'
    BY <1>10, <1>11, <1>12, <2>1 DEF Decrypting
  <2>4. (Expanding /\ Encrypting /\ Decrypted /\ Signing /\ Finished)'
    BY <2>1 DEF Expanding, Encrypting, Decrypted, Signing, Finished
  <2> QED BY <2>2, <2>3, <2>4 DEF CipherInv
<1>14. CASE ~(b > 1)
  <2>1. b' = b /\ mode' = "end" /\ r' = 0 /\ b' \in 1 .. Len(buf') /\ b = 1
    BY <1>1, <1>10, <1>14 DEF DecLast
  <2>2. Typed'
    BY <1>1, <1>10, <2>1 DEF Typed
  <2>3. Decrypted'
    BY <1>10, <1>11, <2>1 DEF Decrypted
  <2>4. (Expanding /\ Encrypting /\ Decrypting /\ Signing /\ Finished)'
    BY <1>1, <2>1 DEF Expanding, Encrypting, Decrypting, Signing, Finished
  <2> QED BY <2>2, <2>3, <2>4 DEF CipherInv
<1> QED BY <1>13, <1>14

LEMMA StepStutter == CipherInv /\ UNCHANGED vars => CipherInv'
<1> SUFFICES ASSUME CipherInv, UNCHANGED vars PROVE CipherInv'
  OBVIOUS
<1>1. UNCHANGED <<case, rk, buf, x, mode, b, r>>
  BY DEF vars
<1>2. /\ \A n : (Plain(n)' <=> Plain(n)) /\ Mixed(n)' = Mixed(n) /\ (Encrypted(n)' <=> Encrypted(n))
      /\ \A c, n : ChainInput(c, n)' = ChainInput(c, n) /\ (Chain(c, n)' <=> Chain(c, n))
      /\ Keys' = Keys
  BY <1>1, BlocksKept, ChainKept, KeysKept
<1>3. Typed' /\ Expanding'
  BY <1>1 DEF CipherInv, Typed, Expanding
<1>4. Mixed(b)' = Mixed(b)
  <2>1. PICK k : k = b
    OBVIOUS
  <2> QED BY <1>1, <1>2, <2>1
<1>5. Encrypting' /\ Decrypting' /\ Decrypted'
  BY <1>1, <1>2, <1>4 DEF CipherInv, Encrypting, Decrypting, Decrypted
<1>6. Finished'
  BY <1>1, <1>2 DEF CipherInv, Finished
<1>7. Signing'
  BY <1>1, <1>2 DEF CipherInv, Signing
<1> QED BY <1>3, <1>5, <1>6, <1>7 DEF CipherInv

LEMMA CipherInvariance == Spec => []CipherInv
<1>1. CipherInv /\ [Next]_vars => CipherInv'
  BY StepKeyExpansion, StepKeyReady, StepEncBlock, StepEncRound, StepEncLast,
     StepDecBlock, StepDecRound, StepDecLast, StepStutter DEF Next
<1> QED BY <1>1, CipherInitial, PTL DEF Spec

(* aes128_cbc_dec gets the message back from what aes128_cbc_enc made of   *)
(* it, in place and block by block from the last one, whatever the key,    *)
(* the initialization vector and the message are.                          *)
THEOREM AesDecryptsBack == Spec => []DecryptsBack
<1>1. CipherInv => DecryptsBack
  <2> SUFFICES ASSUME CipherInv, case \in CbcCases, mode \in {"dec", "end"}, r = 0,
                      NEW n \in 1 .. Len(buf), mode = "end" \/ n > b
               PROVE  buf[n] = case.message[n]
    BY DEF DecryptsBack
  <2>1. CASE mode = "end"
    BY <2>1 DEF CipherInv, Decrypted, Plain
  <2>2. CASE mode = "dec" /\ n > b
    <3>1. n \in b + 1 .. Len(buf)
      BY <2>2 DEF CipherInv, Typed
    <3> QED BY <2>2, <3>1 DEF CipherInv, Decrypting, Plain
  <2> QED BY <2>1, <2>2
<1> QED BY <1>1, CipherInvariance, PTL
-----------------------------------------------------------------------------
(* The steps of the code are those of the standard. *)

LEMMA RoundConstants == \A n \in 1 .. 10 : rc[n] = Rcon[n]
<1>1. 0 \in Byte /\ 27 \in Byte
  BY DEF Byte
<1>2. Plus(0, 27) = 27
  BY <1>1, PlusZero, PlusCommutes
<1>3. Double(128) = 27
  BY <1>2 DEF Double
<1>4. Double(Double(128)) = 54
  BY <1>3 DEF Double
<1> QED BY <1>3, <1>4 DEF rc, Rcon

LEMMA Tabulated ==
    ASSUME NEW n \in Byte
    PROVE  Doubled[n + 1] = At(GF2, n) /\ Tripled[n + 1] = At(GF3, n)
<1>1. Doubled[n + 1] = Double(n)
  <2>1. Doubled = [k \in 1 .. 256 |-> Double(k - 1)] \o << >>
    BY Zenon DEF Doubled, Tabulate
  <2>2. ([k \in 1 .. 256 |-> Double(k - 1)] \o << >>)[n + 1] = Double(n + 1 - 1)
    BY DEF Byte
  <2> QED BY <2>1, <2>2 DEF Byte
<1>2. Tripled[n + 1] = Plus(Double(n), n)
  <2>1. Tripled = [k \in 1 .. 256 |-> Triple(k - 1)] \o << >>
    BY Zenon DEF Tripled, Tabulate
  <2>2. ([k \in 1 .. 256 |-> Triple(k - 1)] \o << >>)[n + 1] = Triple(n + 1 - 1)
    BY DEF Byte
  <2> QED BY <2>1, <2>2 DEF Byte, Triple
<1>3. At(GF2, n) = Double(n)
  BY TableOfTwo
<1>4. At(GF3, n) = Plus(At(GF2, n), n)
  BY TablesTyped, TableOfThree
<1> QED BY <1>1, <1>2, <1>3, <1>4

(* Byte l of a block and the place of the state that has it. *)
LEMMA Places ==
    \A l \in 0 .. 15 :
        /\ l % 4 \in 0 .. 3 /\ l \div 4 \in 0 .. 3 /\ (l % 4) + 4 * (l \div 4) = l
        /\ Shifted[l + 1] = (l % 4) + 4 * ((l \div 4 + (l % 4)) % 4)
BY DEF Shifted

(* ShiftRows of SubBytes is subshiftrows. *)
LEMMA SubShiftAsFips ==
    ASSUME NEW w \in Block
    PROVE  /\ \A l \in 0 .. 15 : ShiftRows(SubBytes(ToState(w)))[l % 4][l \div 4] = subshiftrows(w)[l]
           /\ \A p \in 0 .. 3, c \in 0 .. 3 : ShiftRows(SubBytes(ToState(w)))[p][c] = subshiftrows(w)[p + 4 * c]
<1> DEFINE s == ShiftRows(SubBytes(ToState(w)))
<1>1. \A p \in 0 .. 3, c \in 0 .. 3 : s[p][c] = SubByte[w[p + 4 * ((c + p) % 4)] + 1]
  <2>1. \A p \in 0 .. 3, c \in 0 .. 3 : s[p][c] = SubBytes(ToState(w))[p][(c + p) % 4]
    BY DEF ShiftRows, State
  <2>2. \A p \in 0 .. 3, c \in 0 .. 3 : SubBytes(ToState(w))[p][c] = SubByte[ToState(w)[p][c] + 1]
    BY DEF SubBytes, State
  <2>3. \A p \in 0 .. 3, c \in 0 .. 3 : ToState(w)[p][c] = w[p + 4 * c]
    BY DEF ToState, State
  <2>4. \A p \in 0 .. 3, c \in 0 .. 3 : (c + p) % 4 \in 0 .. 3
    OBVIOUS
  <2> QED BY <2>1, <2>2, <2>3, <2>4
<1> HIDE DEF s
<1>2. \A l \in 0 .. 15 : s[l % 4][l \div 4] = subshiftrows(w)[l]
  <2> TAKE l \in 0 .. 15
  <2>1. s[l % 4][l \div 4] = SubByte[w[Shifted[l + 1]] + 1]
    BY <1>1, Places
  <2>2. w[Shifted[l + 1]] \in Byte
    BY ShiftFacts DEF Block
  <2>3. SubByte[w[Shifted[l + 1]] + 1] = At(SBOX, w[Shifted[l + 1]])
    BY <2>2, SubstitutionAssumption
  <2> QED BY <2>1, <2>3 DEF subshiftrows
<1>3. ASSUME NEW p \in 0 .. 3, NEW c \in 0 .. 3 PROVE s[p][c] = subshiftrows(w)[p + 4 * c]
  <2>1. p + 4 * c \in 0 .. 15 /\ (p + 4 * c) % 4 = p /\ (p + 4 * c) \div 4 = c
    OBVIOUS
  <2> QED BY <1>2, <2>1
<1> QED BY <1>2, <1>3 DEF s

(* MixColumns on the state is mixcolumns on the block. *)
LEMMA MixAsFips ==
    ASSUME NEW w \in Block, NEW s,
           \A p \in 0 .. 3, c \in 0 .. 3 : s[p][c] = w[p + 4 * c]
    PROVE  \A l \in 0 .. 15 : MixColumns(s)[l % 4][l \div 4] = mixcolumns(w)[l]
<1> TAKE l \in 0 .. 15
<1> DEFINE q == l % 4
<1> DEFINE c == l \div 4
<1>1. q \in 0 .. 3 /\ c \in 0 .. 3 /\ (q + 1) % 4 \in 0 .. 3 /\ (q + 2) % 4 \in 0 .. 3 /\ (q + 3) % 4 \in 0 .. 3
  BY Places
<1>2. /\ q + 4 * c = l
      /\ ((q + 1) % 4) + 4 * c = l - (l % 4) + ((l + 1) % 4)
      /\ ((q + 2) % 4) + 4 * c = l - (l % 4) + ((l + 2) % 4)
      /\ ((q + 3) % 4) + 4 * c = l - (l % 4) + ((l + 3) % 4)
  OBVIOUS
<1> HIDE DEF q, c
<1>3. /\ s[q][c] = w[l] /\ s[(q + 1) % 4][c] = Below(w, l, 1)
      /\ s[(q + 2) % 4][c] = Below(w, l, 2) /\ s[(q + 3) % 4][c] = Below(w, l, 3)
  BY <1>1, <1>2 DEF Below
<1>4. w[l] \in Byte /\ Below(w, l, 1) \in Byte
  <2>1. l - (l % 4) + ((l + 1) % 4) \in 0 .. 15
    OBVIOUS
  <2> QED BY <2>1 DEF Below, Block
<1>5. MixColumns(s)[q][c]
         = Plus(Plus(Doubled[s[q][c] + 1], Tripled[s[(q + 1) % 4][c] + 1]),
                Plus(s[(q + 2) % 4][c], s[(q + 3) % 4][c]))
  BY <1>1 DEF MixColumns, State
<1>6. Doubled[w[l] + 1] = At(GF2, w[l]) /\ Tripled[Below(w, l, 1) + 1] = At(GF3, Below(w, l, 1))
  BY <1>4, Tabulated
<1>7. MixColumns(s)[q][c] = mixcolumns(w)[l]
  BY <1>3, <1>5, <1>6 DEF mixcolumns, Plus4
<1> QED BY <1>7 DEF q, c

(* AddRoundKey on the state is xorblock with the round key. *)
IsStateOf(s, w) == \A l \in 0 .. 15 : s[l % 4][l \div 4] = w[l]

LEMMA AddAsFips ==
    ASSUME NEW w \in Block, NEW s, NEW n \in 0 .. 10, IsStateOf(s, w)
    PROVE  ToBlock(Add(s, rk, n)) = xorblock(w, RoundKey(n))
<1> USE DEF IsStateOf
<1>1. \A l \in 0 .. 15 : Add(s, rk, n)[l % 4][l \div 4] = Plus(w[l], rk[4 * n + l \div 4 + 1][l % 4])
  <2> TAKE l \in 0 .. 15
  <2>1. l % 4 \in 0 .. 3 /\ l \div 4 \in 0 .. 3
    BY Places
  <2>2. Add(s, rk, n)[l % 4][l \div 4] = Plus(s[l % 4][l \div 4], rk[4 * n + l \div 4 + 1][l % 4])
    BY <2>1 DEF Add, State
  <2> QED BY <2>2
<1>2. xorblock(w, RoundKey(n)) = [l \in 0 .. 15 |-> Plus(w[l], RoundKey(n)[l])]
  BY DEF xorblock, Block
<1>3. \A l \in 0 .. 15 : RoundKey(n)[l] = rk[4 * n + l \div 4 + 1][l % 4]
  BY DEF RoundKey
<1> QED BY <1>1, <1>2, <1>3 DEF ToBlock

LEMMA BlockAsFips ==
    ASSUME NEW w \in Block
    PROVE  AddRoundKey(w, rk, 0) = xorblock(w, RoundKey(0))
<1>1. IsStateOf(ToState(w), w)
  BY Places DEF ToState, State, IsStateOf
<1>2. 0 \in 0 .. 10
  OBVIOUS
<1> QED BY <1>1, <1>2, AddAsFips DEF AddRoundKey

LEMMA RoundAsFips ==
    ASSUME NEW w \in Block, NEW n \in 1 .. 10
    PROVE  CipherRound(w, rk, n)
             = xorblock(IF n < 10 THEN mixcolumns(subshiftrows(w)) ELSE subshiftrows(w), RoundKey(n))
<1> DEFINE s == ShiftRows(SubBytes(ToState(w)))
<1> DEFINE v == subshiftrows(w)
<1>1. v \in Block /\ mixcolumns(v) \in Block
  <2>1. v \in Block
    BY SubShiftRows
  <2> QED BY ONLY <2>1, MixColumns4
<1>2. /\ \A l \in 0 .. 15 : s[l % 4][l \div 4] = v[l]
      /\ \A p \in 0 .. 3, c \in 0 .. 3 : s[p][c] = v[p + 4 * c]
  BY SubShiftAsFips
<1> HIDE DEF s, v
<1>3. CASE n < 10
  <2>1. \A l \in 0 .. 15 : MixColumns(s)[l % 4][l \div 4] = mixcolumns(v)[l]
    BY <1>1, <1>2, MixAsFips
  <2>2. ToBlock(Add(MixColumns(s), rk, n)) = xorblock(mixcolumns(v), RoundKey(n))
    <3>1. IsStateOf(MixColumns(s), mixcolumns(v)) /\ n \in 0 .. 10
      BY <2>1 DEF IsStateOf
    <3> QED BY <1>1, <3>1, AddAsFips
  <2>3. CipherRound(w, rk, n) = ToBlock(Add(MixColumns(s), rk, n))
    BY <1>3 DEF CipherRound, s
  <2> QED BY <1>3, <2>2, <2>3 DEF v
<1>4. CASE ~(n < 10)
  <2>1. ToBlock(Add(s, rk, n)) = xorblock(v, RoundKey(n))
    <3>1. IsStateOf(s, v) /\ n \in 0 .. 10
      BY <1>2 DEF IsStateOf
    <3> QED BY <1>1, <3>1, AddAsFips
  <2>2. CipherRound(w, rk, n) = ToBlock(Add(s, rk, n))
    BY <1>4 DEF CipherRound, s
  <2> QED BY <1>4, <2>1, <2>2 DEF v
<1> QED BY <1>3, <1>4

(* The block that a round works on is one. *)
LEMMA WorkTyped ==
    ASSUME CipherInv, mode \in {"enc", "mac"}
    PROVE  /\ r > 0 => x \in Block
           /\ r = 0 => Input \in Block
<1>1. Typed /\ b \in 1 .. Len(buf) /\ r \in 0 .. 10
  BY DEF CipherInv, Typed
<1>2. CASE mode = "enc"
  <2>1. case \in CbcCases /\ Encrypting
    BY <1>1, <1>2 DEF CipherInv, Typed
  <2>2. ASSUME r > 0 PROVE x \in Block
    <3>1. PICK s : Trail(Keys, Mixed(b), s, r) /\ x = s[r]
      BY <1>2, <2>1, <2>2 DEF Encrypting
    <3>2. r \in 1 .. 10
      BY <1>1, <2>2
    <3> QED BY <3>1, <3>2 DEF Trail
  <2>3. ASSUME r = 0 PROVE Input \in Block
    <3>1. buf[b] \in Block /\ Previous(b) \in Block
      BY <1>1, <2>1, CaseFacts, MixedTyped
    <3>2. xorblock(buf[b], Previous(b)) \in Block
      BY ONLY <3>1, XorBlock
    <3> QED BY <1>2, <3>2 DEF Input
  <2> QED BY <2>2, <2>3
<1>3. CASE mode = "mac"
  <2>1. Signing /\ case \in Signed
    BY <1>1, <1>3 DEF CipherInv, Typed
  <2>2. PICK c : /\ Chain(c, b - 1)
                 /\ r = 0 /\ b > 1 => x = c[b - 1]
                 /\ r > 0 => \E s : Trail(Keys, ChainInput(c, b), s, r) /\ x = s[r]
    BY <1>3, <2>1 DEF Signing
  <2>3. ASSUME r > 0 PROVE x \in Block
    <3>1. PICK s : Trail(Keys, ChainInput(c, b), s, r) /\ x = s[r]
      BY <2>2, <2>3
    <3>2. r \in 1 .. 10
      BY <1>1, <2>3
    <3> QED BY <3>1, <3>2 DEF Trail
  <2>4. ASSUME r = 0 PROVE Input \in Block
    <3>1. Input = ChainInput(c, b)
      BY <1>1, <1>3, <2>1, <2>2, <2>4 DEF Input, MacInput, ChainInput, Signing
    <3> QED BY <1>1, <2>1, <2>2, <3>1, ChainTyped
  <2> QED BY <2>3, <2>4
<1> QED BY <1>2, <1>3

ScheduleAsFips == \A n \in 1 .. Len(rk') : rk'[n] = IF n <= Len(rk) THEN rk[n] ELSE ScheduleWord(rk', n)

LEMMA StepCipher ==
    ASSUME CipherInv, [Next]_vars, mode \in {"enc", "mac"}
    PROVE  UNCHANGED vars \/ x' = IF r = 0 THEN AddRoundKey(Input, rk, 0) ELSE CipherRound(x, rk, r)
<1>1. CASE EncBlock
  <2>1. r = 0 /\ Input \in Block
    BY <1>1, WorkTyped DEF EncBlock
  <2>2. AddRoundKey(Input, rk, 0) = xorblock(Input, RoundKey(0))
    BY <2>1, BlockAsFips
  <2> QED BY <1>1, <2>1, <2>2 DEF EncBlock
<1>2. CASE EncRound
  <2>1. r \in 1 .. 10 /\ r < 10 /\ r > 0 /\ x \in Block
    BY <1>2, WorkTyped DEF EncRound
  <2>2. CipherRound(x, rk, r) = xorblock(mixcolumns(subshiftrows(x)), RoundKey(r))
    BY <2>1, RoundAsFips
  <2>3. r # 0
    BY <2>1
  <2> QED BY <1>2, <2>2, <2>3 DEF EncRound
<1>3. CASE EncLast
  <2>1. r \in 1 .. 10 /\ ~(r < 10) /\ r > 0 /\ r = 10 /\ x \in Block
    BY <1>3, WorkTyped DEF EncLast
  <2>2. CipherRound(x, rk, r) = xorblock(subshiftrows(x), RoundKey(r))
    BY <2>1, RoundAsFips
  <2>3. r # 0
    BY <2>1
  <2> QED BY <1>3, <2>1, <2>2, <2>3 DEF EncLast, LastRound
<1>4. CASE KeyExpansion \/ KeyReady \/ DecBlock \/ DecRound \/ DecLast
  BY <1>4 DEF KeyExpansion, KeyReady, DecBlock, DecRound, DecLast
<1> QED BY <1>1, <1>2, <1>3, <1>4 DEF Next

LEMMA StepSchedule ==
    ASSUME CipherInv, KeyExpansion
    PROVE  ScheduleAsFips
<1> DEFINE i == Len(rk)
<1> DEFINE constant == [k \in 0 .. 3 |-> IF k = 0 THEN rc[i \div 4] ELSE 0]
<1> DEFINE turned == subword(rotword(rk[i]))
<1> DEFINE first == xorblock(xorblock(rk[i - 3], turned), constant)
<1> DEFINE second == xorblock(rk[i - 2], first)
<1> DEFINE third == xorblock(rk[i - 1], second)
<1> DEFINE fourth == xorblock(rk[i], third)
<1> HIDE DEF i
<1>1. rk \in Seq(Word) /\ i = Len(rk) /\ i \in 4 .. 40 /\ i % 4 = 0
  <2>1. rk \in Seq(Word) /\ i \in 4 .. 44 /\ i % 4 = 0 /\ i < 44
    BY DEF CipherInv, Typed, KeyExpansion, i
  <2>2. \A n \in 4 .. 44 : n % 4 = 0 /\ n < 44 => n \in 4 .. 40
    OBVIOUS
  <2> QED BY <2>1, <2>2 DEF i
<1>2. rk' = rk \o << first, second, third, fourth >>
  BY DEF KeyExpansion, i
<1>3. /\ i \in Nat /\ i - 3 \in 1 .. i /\ i - 2 \in 1 .. i /\ i - 1 \in 1 .. i /\ i \in 1 .. i
      /\ i \div 4 \in 1 .. 10 /\ (i + 1) \div 4 = i \div 4
      /\ (i + 1) % 4 = 1 /\ (i + 2) % 4 = 2 /\ (i + 3) % 4 = 3 /\ (i + 4) % 4 = 0
  <2>1. \A n \in 4 .. 40 :
          n % 4 = 0 =>
            /\ n \in Nat /\ n - 3 \in 1 .. n /\ n - 2 \in 1 .. n /\ n - 1 \in 1 .. n /\ n \in 1 .. n
            /\ n \div 4 \in 1 .. 10 /\ (n + 1) \div 4 = n \div 4
            /\ (n + 1) % 4 = 1 /\ (n + 2) % 4 = 2 /\ (n + 3) % 4 = 3 /\ (n + 4) % 4 = 0
    OBVIOUS
  <2> QED BY ONLY <1>1, <2>1
<1>4. \A n \in 1 .. i : rk[n] \in Word
  BY <1>1, ElementOfSeq
<1>5. /\ Len(rk') = i + 4 /\ \A n \in 1 .. i : rk'[n] = rk[n]
      /\ rk'[i + 1] = first /\ rk'[i + 2] = second /\ rk'[i + 3] = third /\ rk'[i + 4] = fourth
  <2> HIDE DEF first, second, third, fourth
  <2> DEFINE new == << first, second, third, fourth >>
  <2>1. /\ Len(rk \o new) = i + 4 /\ \A n \in 1 .. i : (rk \o new)[n] = rk[n]
        /\ (rk \o new)[i + 1] = first /\ (rk \o new)[i + 2] = second
        /\ (rk \o new)[i + 3] = third /\ (rk \o new)[i + 4] = fourth
    BY <1>1
  <2> QED BY <1>2, <2>1
<1>6. /\ rk[i - 3] \in Word /\ rk[i - 2] \in Word /\ rk[i - 1] \in Word /\ rk[i] \in Word
  BY <1>3, <1>4
<1>7. /\ first = [k \in 0 .. 3 |-> Plus(Plus(rk[i - 3][k], turned[k]), constant[k])]
      /\ second = [k \in 0 .. 3 |-> Plus(rk[i - 2][k], first[k])]
      /\ third = [k \in 0 .. 3 |-> Plus(rk[i - 1][k], second[k])]
      /\ fourth = [k \in 0 .. 3 |-> Plus(rk[i][k], third[k])]
  BY <1>6 DEF xorblock, Word
<1>8. \A k \in 0 .. 3 : turned[k] = SubByte[rk[i][(k + 1) % 4] + 1] /\ turned[k] \in Byte
  <2> TAKE k \in 0 .. 3
  <2>1. (k + 1) % 4 \in 0 .. 3
    OBVIOUS
  <2>2. rk[i][(k + 1) % 4] \in Byte
    BY <1>6, <2>1 DEF Word
  <2>3. turned[k] = At(SBOX, rk[i][(k + 1) % 4])
    BY DEF subword, rotword
  <2> QED BY <2>2, <2>3, SubstitutionAssumption, TablesTyped
<1> HIDE DEF turned
<1>9. first = ScheduleWord(rk', i + 1)
  <2> DEFINE n == i + 1
  <2>1. n - 4 = i - 3 /\ n - 1 = i /\ n % 4 = 1 /\ n \div 4 = i \div 4
    BY <1>3
  <2>2. rk'[n - 4] = rk[i - 3] /\ rk'[n - 1] = rk[i]
    BY <1>3, <1>5, <2>1
  <2> HIDE DEF n
  <2>3. ScheduleWord(rk', n) =
          [k \in 0 .. 3 |-> Plus(rk[i - 3][k],
             IF k > 0 THEN SubByte[rk[i][(k + 1) % 4] + 1]
             ELSE Plus(SubByte[rk[i][1] + 1], Rcon[i \div 4]))]
    BY <2>1, <2>2 DEF ScheduleWord
  <2>4. ASSUME NEW k \in 1 .. 3
        PROVE  Plus(Plus(rk[i - 3][k], turned[k]), constant[k]) = Plus(rk[i - 3][k], SubByte[rk[i][(k + 1) % 4] + 1])
    <3>1. rk[i - 3][k] \in Byte /\ turned[k] \in Byte /\ constant[k] = 0
      BY <1>6, <1>8 DEF Word
    <3>2. Plus(rk[i - 3][k], turned[k]) \in Byte
      BY ONLY <3>1, PlusBits
    <3>3. Plus(Plus(rk[i - 3][k], turned[k]), 0) = Plus(rk[i - 3][k], turned[k])
      BY ONLY <3>2, PlusZero
    <3> QED BY <1>8, <3>1, <3>3
  <2>5. Plus(Plus(rk[i - 3][0], turned[0]), constant[0])
          = Plus(rk[i - 3][0], Plus(SubByte[rk[i][1] + 1], Rcon[i \div 4]))
    <3>1. constant[0] = rc[i \div 4] /\ rc[i \div 4] = Rcon[i \div 4]
      BY <1>3, RoundConstants
    <3>2. rc[i \div 4] \in Byte
      <4>1. \A m \in 1 .. 10 : rc[m] \in Byte
        BY DEF rc, Byte
      <4> QED BY ONLY <1>3, <4>1
    <3>3. turned[0] = SubByte[rk[i][1] + 1] /\ turned[0] \in Byte /\ rk[i - 3][0] \in Byte
      <4>1. (0 + 1) % 4 = 1 /\ 0 \in 0 .. 3
        OBVIOUS
      <4> QED BY <1>6, <1>8, <4>1 DEF Word
    <3>4. Plus(Plus(rk[i - 3][0], turned[0]), rc[i \div 4]) = Plus(rk[i - 3][0], Plus(turned[0], rc[i \div 4]))
      BY ONLY <3>2, <3>3, PlusAssociates
    <3> QED BY <3>1, <3>3, <3>4
  <2>6. \A k \in 0 .. 3 : k = 0 \/ (k \in 1 .. 3 /\ k > 0)
    OBVIOUS
  <2> HIDE DEF constant, first
  <2> QED BY SMTT(60), <1>7, <2>3, <2>4, <2>5, <2>6 DEF n
<1> HIDE DEF constant, first
<1>10. second = ScheduleWord(rk', i + 2)
  <2>1. (i + 2) - 4 = i - 2 /\ (i + 2) - 1 = i + 1 /\ (i + 2) % 4 # 1
    BY <1>3
  <2>2. rk'[(i + 2) - 4] = rk[i - 2] /\ rk'[(i + 2) - 1] = first
    BY <1>3, <1>5, <2>1
  <2> HIDE DEF second
  <2> QED BY <1>7, <2>1, <2>2 DEF ScheduleWord
<1> HIDE DEF second
<1>11. third = ScheduleWord(rk', i + 3)
  <2>1. (i + 3) - 4 = i - 1 /\ (i + 3) - 1 = i + 2 /\ (i + 3) % 4 # 1
    BY <1>3
  <2>2. rk'[(i + 3) - 4] = rk[i - 1] /\ rk'[(i + 3) - 1] = second
    BY <1>3, <1>5, <2>1
  <2> HIDE DEF third
  <2> QED BY <1>7, <2>1, <2>2 DEF ScheduleWord
<1> HIDE DEF third
<1>12. fourth = ScheduleWord(rk', i + 4)
  <2>1. (i + 4) - 4 = i /\ (i + 4) - 1 = i + 3 /\ (i + 4) % 4 # 1
    BY <1>3
  <2>2. rk'[(i + 4) - 4] = rk[i] /\ rk'[(i + 4) - 1] = third
    BY <1>3, <1>5, <2>1
  <2> HIDE DEF fourth
  <2> QED BY <1>7, <2>1, <2>2 DEF ScheduleWord
<1> HIDE DEF fourth
<1>13. ASSUME NEW n \in 1 .. Len(rk')
       PROVE  rk'[n] = IF n <= Len(rk) THEN rk[n] ELSE ScheduleWord(rk', n)
  <2>1. n \in 1 .. i \/ (~(n <= i) /\ (n = i + 1 \/ n = i + 2 \/ n = i + 3 \/ n = i + 4))
    <3>1. n \in 1 .. i + 4
      BY <1>5
    <3>2. \A m \in 4 .. 40 : \A l \in 1 .. m + 4 :
            l \in 1 .. m \/ (~(l <= m) /\ (l = m + 1 \/ l = m + 2 \/ l = m + 3 \/ l = m + 4))
      OBVIOUS
    <3> QED BY ONLY <1>1, <3>1, <3>2
  <2>2. n \in 1 .. i => n <= i
    BY <1>3
  <2> QED BY <1>1, <1>5, <1>9, <1>10, <1>11, <1>12, <2>1, <2>2
<1> QED BY <1>13 DEF ScheduleAsFips

(* Every step of aes128_keyexpansion and of aes128_enc is the step of the  *)
(* standard, for every key and message: the tables are the products they   *)
(* stand for, and the byte offsets those of rows and columns.              *)
THEOREM AesStepsAsFips == Spec => StepsAsFips
<1> DEFINE Goal == /\ mode = "expand" => ScheduleAsFips
                   /\ mode \in {"enc", "mac"} =>
                        x' = IF r = 0 THEN AddRoundKey(Input, rk, 0) ELSE CipherRound(x, rk, r)
<1>1. CipherInv /\ [Next]_vars => [Goal]_vars
  <2> SUFFICES ASSUME CipherInv, [Next]_vars, ~UNCHANGED vars PROVE Goal
    OBVIOUS
  <2>1. ASSUME mode = "expand" PROVE ScheduleAsFips
    <3>1. CASE KeyExpansion
      BY <3>1, StepSchedule
    <3>2. CASE KeyReady
      <4>1. rk' = rk
        BY <3>2 DEF KeyReady
      <4>2. \A n \in 1 .. Len(rk) : n <= Len(rk)
        OBVIOUS
      <4> QED BY <4>1, <4>2 DEF ScheduleAsFips
    <3> QED BY <2>1, <3>1, <3>2 DEF Next, EncBlock, EncRound, EncLast, DecBlock, DecRound, DecLast
  <2>2. ASSUME mode \in {"enc", "mac"}
        PROVE  x' = IF r = 0 THEN AddRoundKey(Input, rk, 0) ELSE CipherRound(x, rk, r)
    BY <2>2, StepCipher
  <2> QED BY <2>1, <2>2
<1>2. CipherInv /\ [Next]_vars =>
        [/\ mode = "expand" =>
               \A n \in 1 .. Len(rk') : rk'[n] = IF n <= Len(rk) THEN rk[n] ELSE ScheduleWord(rk', n)
         /\ mode \in {"enc", "mac"} =>
               x' = IF r = 0 THEN AddRoundKey(Input, rk, 0) ELSE CipherRound(x, rk, r)]_vars
  BY <1>1 DEF ScheduleAsFips
<1> QED BY <1>2, CipherInvariance, PTL DEF Spec, StepsAsFips
-----------------------------------------------------------------------------
(* The MAC of the message m under the round keys K: with every block, what *)
(* the block before it became is encrypted once more.                      *)
MixedIn(m, c, n) == IF n = 1 THEN m[1] ELSE xorblock(c[n - 1], m[n - 1])
MacOf(K, m, y) ==
    \E c \in [1 .. Len(m) -> Block] :
        (\A n \in 1 .. Len(m) : Encrypts(K, MixedIn(m, c, n), c[n])) /\ y = c[Len(m)]

(* calc_sig computes this MAC, and its key schedule is one of 11 blocks.   *)
THEOREM AesSigns ==
    Spec => [](mode = "end" /\ case \in Signed => Keys \in [0 .. 10 -> Block] /\ MacOf(Keys, case.message, x))
<1>1. CipherInv => (mode = "end" /\ case \in Signed => Keys \in [0 .. 10 -> Block] /\ MacOf(Keys, case.message, x))
  <2> SUFFICES ASSUME CipherInv, mode = "end", case \in Signed
               PROVE  Keys \in [0 .. 10 -> Block] /\ MacOf(Keys, case.message, x)
    OBVIOUS
  <2>1. Keys \in [0 .. 10 -> Block]
    BY ScheduleTyped DEF CipherInv
  <2>2. PICK c : Chain(c, Len(case.message)) /\ x = c[Len(case.message)]
    BY DEF CipherInv, Finished
  <2>3. \A n : ChainInput(c, n) = MixedIn(case.message, c, n)
    BY DEF ChainInput, MixedIn
  <2>4. /\ c \in [1 .. Len(case.message) -> Block]
        /\ \A n \in 1 .. Len(case.message) : Encrypts(Keys, MixedIn(case.message, c, n), c[n])
    BY <2>2, <2>3 DEF Chain
  <2> QED BY <2>1, <2>2, <2>4 DEF MacOf
<1> QED BY <1>1, CipherInvariance, PTL

LEMMA Least ==
    ASSUME NEW S \in SUBSET Nat, S # {}
    PROVE  \E n \in S : \A l \in S : n <= l
<1>1. PICK n \in S : \A l \in S : ~ <<l, n>> \in OpToRel(<, Nat)
  BY NatLessThanWellFounded, WFMin, Zenon
<1>2. \A l \in S : ~ l < n
  BY <1>1 DEF OpToRel
<1> QED BY <1>2

(* c and d are made of messages m and v that are the same up to block h.   *)
Alike(K, m, v, c, d, h) ==
    /\ m[1] = v[1] /\ \A n \in 1 .. h - 1 : m[n] = v[n]
    /\ \A n \in 1 .. h : Encrypts(K, MixedIn(m, c, n), c[n]) /\ Encrypts(K, MixedIn(v, d, n), d[n])

LEMMA SameSoFar ==
    ASSUME NEW K \in [0 .. 10 -> Block], NEW m, NEW v, NEW c, NEW d, NEW h \in Nat, Alike(K, m, v, c, d, h)
    PROVE  \A n \in 1 .. h : c[n] = d[n]
<1> USE DEF Alike
<1> DEFINE S == {n \in 1 .. h : c[n] # d[n]}
<1> SUFFICES ASSUME S # {} PROVE FALSE
  OBVIOUS
<1>6. S \in SUBSET Nat
  OBVIOUS
<1>1. PICK n \in S : \A l \in S : n <= l
  BY ONLY <1>6, S # {}, Least
<1>2. n \in 1 .. h /\ c[n] # d[n]
  OBVIOUS
<1>3. MixedIn(m, c, n) = MixedIn(v, d, n)
  <2>1. n # 1 => n - 1 \in 1 .. h - 1 /\ n - 1 \in 1 .. h /\ ~ (n <= n - 1)
    BY <1>2
  <2>2. n # 1 => c[n - 1] = d[n - 1] /\ m[n - 1] = v[n - 1]
    BY <1>1, <2>1
  <2> QED BY <2>2 DEF MixedIn
<1>4. Encrypts(K, MixedIn(m, c, n), c[n]) /\ Encrypts(K, MixedIn(m, c, n), d[n])
  BY <1>2, <1>3
<1>5. c[n] = d[n]
  BY ONLY <1>4, K \in [0 .. 10 -> Block], EncryptsFunctional
<1> QED BY <1>2, <1>5

(* calc_sig is a function of the key, the number of blocks and the blocks  *)
(* it mixes in, the first and all but the last: the tool that signs and    *)
(* the monitor that verifies get the same signature for the same code, and *)
(* AppHeader!calc_sig leaves out nothing that the MAC depends on.          *)
THEOREM MacDetermined ==
    ASSUME NEW K \in [0 .. 10 -> Block], NEW m \in Seq(Block), NEW v \in Seq(Block), NEW y, NEW z,
           Len(m) = Len(v), Len(m) > 0, m[1] = v[1], \A n \in 1 .. Len(m) - 1 : m[n] = v[n],
           MacOf(K, m, y), MacOf(K, v, z)
    PROVE  y = z
<1>1. PICK c \in [1 .. Len(m) -> Block] :
        (\A n \in 1 .. Len(m) : Encrypts(K, MixedIn(m, c, n), c[n])) /\ y = c[Len(m)]
  BY DEF MacOf
<1>2. PICK d \in [1 .. Len(v) -> Block] :
        (\A n \in 1 .. Len(v) : Encrypts(K, MixedIn(v, d, n), d[n])) /\ z = d[Len(v)]
  BY DEF MacOf
<1>3. Len(m) \in Nat /\ Len(m) \in 1 .. Len(m)
  BY LenProperties
<1>4. \A n \in 1 .. Len(m) : c[n] = d[n]
  <2>1. \A n \in 1 .. Len(m) : Encrypts(K, MixedIn(m, c, n), c[n]) /\ Encrypts(K, MixedIn(v, d, n), d[n])
    BY <1>1, <1>2
  <2>2. m[1] = v[1] /\ \A n \in 1 .. Len(m) - 1 : m[n] = v[n]
    OBVIOUS
  <2>3. Alike(K, m, v, c, d, Len(m))
    BY <2>1, <2>2 DEF Alike
  <2> QED BY <1>3, <2>3, SameSoFar
<1> QED BY <1>1, <1>2, <1>3, <1>4

LEMMA XorCommutes ==
    ASSUME NEW w \in Block, NEW v \in Block
    PROVE  xorblock(w, v) = xorblock(v, w)
<1>1. \A l \in 0 .. 15 : w[l] \in Byte /\ v[l] \in Byte
  BY DEF Block
<1>2. \A l \in 0 .. 15 : Plus(w[l], v[l]) = Plus(v[l], w[l])
  BY <1>1, PlusCommutes
<1> QED BY <1>2 DEF xorblock, Block

(* Different blocks stay different when the same block is mixed in.        *)
LEMMA XorInjective ==
    ASSUME NEW w \in Block, NEW v \in Block, NEW u \in Block, w # v
    PROVE  xorblock(w, u) # xorblock(v, u) /\ xorblock(u, w) # xorblock(u, v)
<1>1. xorblock(xorblock(w, u), u) = w /\ xorblock(xorblock(v, u), u) = v
  BY ONLY w \in Block, v \in Block, u \in Block, XorBlock
<1>2. xorblock(u, w) = xorblock(w, u) /\ xorblock(u, v) = xorblock(v, u)
  BY ONLY w \in Block, v \in Block, u \in Block, XorCommutes
<1> QED BY <1>1, <1>2, w # v

(* Code of which one block is damaged, other than the first and the last,  *)
(* does not have the signature that the whole code has: comp_sig notices.  *)
THEOREM MacNoticesDamage ==
    ASSUME NEW K \in [0 .. 10 -> Block], NEW m \in Seq(Block), NEW v \in Seq(Block), NEW y, NEW z,
           Len(m) = Len(v), NEW j \in 2 .. Len(m) - 1, m[j] # v[j],
           \A n \in 1 .. Len(m) : n # j => m[n] = v[n],
           MacOf(K, m, y), MacOf(K, v, z)
    PROVE  y # z
<1>1. PICK c \in [1 .. Len(m) -> Block] :
        (\A n \in 1 .. Len(m) : Encrypts(K, MixedIn(m, c, n), c[n])) /\ y = c[Len(m)]
  BY DEF MacOf
<1>2. PICK d \in [1 .. Len(v) -> Block] :
        (\A n \in 1 .. Len(v) : Encrypts(K, MixedIn(v, d, n), d[n])) /\ z = d[Len(v)]
  BY DEF MacOf
<1>3. Len(m) \in Nat /\ j \in Nat /\ \A n \in 1 .. Len(m) : m[n] \in Block /\ v[n] \in Block /\ c[n] \in Block /\ d[n] \in Block
  <2>1. Len(m) \in Nat /\ Len(v) = Len(m)
    BY LenProperties
  <2>2. \A n \in 1 .. Len(m) : m[n] \in Block
    BY ElementOfSeq
  <2>3. \A n \in 1 .. Len(v) : v[n] \in Block
    BY ElementOfSeq
  <2>4. \A n \in 1 .. Len(m) : c[n] \in Block /\ d[n] \in Block
    BY <2>1
  <2> QED BY <2>1, <2>2, <2>3, <2>4
<1>4. \A n \in 1 .. j : c[n] = d[n]
  <2>1. \A n \in 1 .. j : n \in 1 .. Len(m)
    BY <1>3
  <2>2. \A n \in 1 .. j : Encrypts(K, MixedIn(m, c, n), c[n]) /\ Encrypts(K, MixedIn(v, d, n), d[n])
    BY <1>1, <1>2, <2>1
  <2>3. m[1] = v[1] /\ \A n \in 1 .. j - 1 : m[n] = v[n]
    <3>1. 1 \in 1 .. Len(m) /\ 1 # j /\ \A n \in 1 .. j - 1 : n \in 1 .. Len(m) /\ n # j
      BY <1>3
    <3> QED BY <3>1
  <2>4. j \in Nat
    BY <1>3
  <2>5. Alike(K, m, v, c, d, j)
    BY <2>2, <2>3 DEF Alike
  <2> QED BY <2>4, <2>5, SameSoFar
(* Two results differ where what was encrypted does. *)
<1>5. ASSUME NEW n \in 2 .. Len(m), xorblock(c[n - 1], m[n - 1]) # xorblock(d[n - 1], v[n - 1])
      PROVE  c[n] # d[n]
  <2>1. n \in 1 .. Len(m) /\ n - 1 \in 1 .. Len(m) /\ n # 1
    BY <1>3
  <2> DEFINE w == xorblock(c[n - 1], m[n - 1])
  <2> DEFINE u == xorblock(d[n - 1], v[n - 1])
  <2>2. Encrypts(K, w, c[n]) /\ Encrypts(K, u, d[n])
    BY <1>1, <1>2, <2>1 DEF MixedIn
  <2>3. c[n - 1] \in Block /\ d[n - 1] \in Block /\ m[n - 1] \in Block /\ v[n - 1] \in Block
    BY <1>3, <2>1
  <2>4. w \in Block /\ u \in Block
    BY ONLY <2>3, XorBlock
  <2> HIDE DEF w, u
  <2>5. c[n] = d[n] => w = u
    BY ONLY <2>2, <2>4, K \in [0 .. 10 -> Block], EncryptsInjective
  <2> QED BY <1>5, <2>5 DEF w, u
<1>6. c[j + 1] # d[j + 1]
  <2>1. j + 1 \in 2 .. Len(m) /\ (j + 1) - 1 = j /\ j \in 1 .. Len(m) /\ j \in 1 .. j
    BY <1>3
  <2>2. c[j] = d[j] /\ c[j] \in Block /\ m[j] \in Block /\ v[j] \in Block
    BY <1>3, <1>4, <2>1
  <2>3. xorblock(c[j], m[j]) # xorblock(c[j], v[j])
    BY ONLY <2>2, m[j] # v[j], XorInjective
  <2> QED BY <1>5, <2>1, <2>2, <2>3
<1>7. \A n \in j + 1 .. Len(m) : c[n] # d[n]
  <2> DEFINE S == {n \in j + 1 .. Len(m) : c[n] = d[n]}
  <2> SUFFICES ASSUME S # {} PROVE FALSE
    OBVIOUS
  <2>1. S \in SUBSET Nat
    BY <1>3
  <2>2. PICK n \in S : \A l \in S : n <= l
    BY ONLY <2>1, S # {}, Least
  <2>3. n \in j + 1 .. Len(m) /\ c[n] = d[n]
    OBVIOUS
  <2>4. n # j + 1
    BY <1>6, <2>3
  <2>5. /\ n \in 2 .. Len(m) /\ n - 1 \in j + 1 .. Len(m) /\ n - 1 \in 1 .. Len(m)
        /\ n - 1 # j /\ ~ (n <= n - 1)
    BY <1>3, <2>3, <2>4
  <2>6. c[n - 1] # d[n - 1] /\ m[n - 1] = v[n - 1]
    BY <2>2, <2>5
  <2>7. c[n - 1] \in Block /\ d[n - 1] \in Block /\ m[n - 1] \in Block
    BY <1>3, <2>5
  <2>8. xorblock(c[n - 1], m[n - 1]) # xorblock(d[n - 1], m[n - 1])
    BY ONLY <2>6, <2>7, XorInjective
  <2> QED BY <1>5, <2>3, <2>5, <2>6, <2>8
<1>8. Len(m) \in j + 1 .. Len(m)
  BY <1>3
<1> QED BY <1>1, <1>2, <1>7, <1>8
=============================================================================
