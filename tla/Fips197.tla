------------------------------ MODULE Fips197 ------------------------------
(***************************************************************************)
(* AES-128 as FIPS-197 defines it: on bytes that are elements of a field,  *)
(* without tables.  A schedule is a sequence of words, a word a function   *)
(* on 0 .. 3, a block one on 0 .. 15.                                      *)
(***************************************************************************)
EXTENDS Integers, Sequences, SequencesExt

(* A bit of a byte is named by its weight.                                 *)
Byte == 0 .. 255
Weight == {1, 2, 4, 8, 16, 32, 64, 128}
Bit(n, w) == (n \div w) % 2

(* The values of f at 0 .. 255, as a sequence (so that they are computed   *)
(* once).                                                                  *)
Tabulate(f(_)) == [k \in 1 .. 256 |-> f(k - 1)] \o << >>

(* The sum of two elements is their exclusive or.                          *)
Xor(k, m) ==
    LET bit(w) == IF Bit(k, w) = Bit(m, w) THEN 0 ELSE w
    IN bit(1) + bit(2) + bit(4) + bit(8) + bit(16) + bit(32) + bit(64) + bit(128)
Sums == Tabulate(LAMBDA k : Tabulate(LAMBDA m : Xor(k, m)))
Plus(k, m) == Sums[k + 1][m + 1]

(* Double is the product by x, modulo x^8 + x^4 + x^3 + x + 1.             *)
Double(n) == IF n < 128 THEN 2 * n ELSE Plus(2 * n - 256, 27)
Triple(n) == Plus(Double(n), n)
Product(n, m) ==
    FoldLeft(LAMBDA sum, w : Plus(Double(sum), Bit(m, w) * n), 0, << 128, 64, 32, 16, 8, 4, 2, 1 >>)
Doubled == Tabulate(Double)
Tripled == Tabulate(Triple)

(* The element 0 has no inverse and is mapped to itself.                   *)
FieldInverse(n) == IF n = 0 THEN 0 ELSE CHOOSE m \in 1 .. 255 : Product(n, m) = 1

SubByte == Tabulate(LAMBDA n :
    LET inv == FieldInverse(n)
        of(k) == Bit(inv, 2 ^ (k % 8))
        bit(k) == (Bit(99, 2 ^ k) + of(k) + of(k + 4) + of(k + 5) + of(k + 6) + of(k + 7)) % 2
    IN FoldLeft(LAMBDA sum, k : sum + bit(k) * 2 ^ k, 0, << 0, 1, 2, 3, 4, 5, 6, 7 >>))

(* A state s has rows of columns: byte j of a block is s[j % 4][j \div 4]. *)
State(at(_, _)) == [q \in 0 .. 3 |-> [c \in 0 .. 3 |-> at(q, c)]]
ToState(x) == State(LAMBDA q, c : x[q + 4 * c])
ToBlock(s) == [j \in 0 .. 15 |-> s[j % 4][j \div 4]]

SubBytes(s) == State(LAMBDA q, c : SubByte[s[q][c] + 1])
ShiftRows(s) == State(LAMBDA q, c : s[q][(c + q) % 4])
MixColumns(s) ==
    State(LAMBDA q, c : Plus(Plus(Doubled[s[q][c] + 1], Tripled[s[(q + 1) % 4][c] + 1]),
                             Plus(s[(q + 2) % 4][c], s[(q + 3) % 4][c])))
Add(s, w, n) == State(LAMBDA q, c : Plus(s[q][c], w[4 * n + c + 1][q]))

AddRoundKey(x, w, n) == ToBlock(Add(ToState(x), w, n))
CipherRound(x, w, n) ==
    LET s == ShiftRows(SubBytes(ToState(x)))
    IN ToBlock(Add(IF n < 10 THEN MixColumns(s) ELSE s, w, n))

(* Word n of a schedule; the round constants are the powers of x.          *)
Rcon == << 1, 2, 4, 8, 16, 32, 64, 128, Double(128), Double(Double(128)) >>
ScheduleWord(w, n) ==
    [k \in 0 .. 3 |-> Plus(w[n - 4][k],
        CASE n % 4 # 1 -> w[n - 1][k]
          [] n % 4 = 1 /\ k > 0 -> SubByte[w[n - 1][(k + 1) % 4] + 1]
          [] n % 4 = 1 /\ k = 0 -> Plus(SubByte[w[n - 1][1] + 1], Rcon[n \div 4]))]
=============================================================================
