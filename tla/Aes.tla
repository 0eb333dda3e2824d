-------------------------------- MODULE Aes --------------------------------
(***************************************************************************)
(* monitor/aes128.c, one round of the cipher at a time: a buffer is either *)
(* encrypted in place by aes128_cbc_enc and then decrypted in place by     *)
(* aes128_cbc_dec, or signed by calc_sig.  A block is a function on        *)
(* 0 .. 15 and a word the four bytes it has in memory, lowest first, so    *)
(* that the cast of rk to bytes is indexing.                               *)
(***************************************************************************)
EXTENDS AesTables, Fips197

CONSTANTS
    CbcCases,   \* records [key, iv, message]: four words, a block, a sequence of blocks
    Signed      \* records [signature, message, genuine] for calc_sig

Word == [0 .. 3 -> Byte]
Block == [0 .. 15 -> Byte]

(* The asserts of aes128.c ask for whole blocks, and one at least.         *)
ASSUME CaseAssumption ==
    /\ CbcCases \intersect Signed = {}
    /\ \A c \in CbcCases : c.key \in [1 .. 4 -> Word] /\ c.iv \in Block
    /\ \A c \in CbcCases \union Signed : c.message \in Seq(Block) \ {<< >>}

(* A statement without parameters: TLC decides it, entry by entry.         *)
ASSUME SubstitutionAssumption == \A n \in Byte : At(SBOX, n) = SubByte[n + 1]

VARIABLES
    case,   \* what is done to which message
    rk,     \* the words of the key schedule so far
    buf,    \* the buffer, one block after another
    x,      \* the block aes128_enc or aes128_dec works on: buf[b], or the MAC
    mode,   \* "expand", "enc", "dec", "mac" or "end": which function runs
    b,      \* the block that the loop of that function is at
    r       \* the round of aes128_enc or aes128_dec; 0 between two blocks

vars == <<case, rk, buf, x, mode, b, r>>

(* What byte j of the buffer is replaced by, from the assignments.         *)
Shifted == <<0, 5, 10, 15, 4, 9, 14, 3, 8, 13, 2, 7, 12, 1, 6, 11>>
ShiftedBack == <<0, 13, 10, 7, 4, 1, 14, 11, 8, 5, 2, 15, 12, 9, 6, 3>>

subword(w) == [k \in 0 .. 3 |-> At(SBOX, w[k])]
rotword(w) == [k \in 0 .. 3 |-> w[(k + 1) % 4]]
subshiftrows(w) == [j \in 0 .. 15 |-> At(SBOX, w[Shifted[j + 1]])]
subshiftrows_inv(w) == [j \in 0 .. 15 |-> At(RSBOX, w[ShiftedBack[j + 1]])]

Plus4(k, l, m, n) == Plus(Plus(k, l), Plus(m, n))

(* Byte k places further down the column of byte j. *)
Below(w, j, k) == w[j - (j % 4) + ((j + k) % 4)]
mixcolumns(w) ==
    [j \in 0 .. 15 |-> Plus4(At(GF2, w[j]), At(GF3, Below(w, j, 1)), Below(w, j, 2), Below(w, j, 3))]
mixcolumns_inv(w) ==
    [j \in 0 .. 15 |-> Plus4(At(GF14, w[j]), At(GF11, Below(w, j, 1)), At(GF13, Below(w, j, 2)), At(GF9, Below(w, j, 3)))]

xorblock(w, v) == [j \in DOMAIN w |-> Plus(w[j], v[j])]
RoundKey(n) == [j \in 0 .. 15 |-> rk[4 * n + j \div 4 + 1][j % 4]]

(* The key of calc_sig, lowest byte of each word first. *)
mac_key == << <<43, 126, 21, 22>>, <<40, 174, 210, 166>>, <<171, 247, 21, 136>>, <<9, 207, 79, 60>> >>
InitialKey ==
    IF case \in Signed THEN [n \in 1 .. 4 |-> [k \in 0 .. 3 |-> mac_key[n][k + 1]]]
    ELSE case.key

Init ==
    /\ case \in CbcCases \union Signed
    /\ rk = InitialKey /\ buf = case.message
    /\ x = case.message[1]
    /\ mode = "expand" /\ b = 1 /\ r = 0

(* The next four words of the schedule: the first depends on the last one  *)
(* and the round constant, the others each on the one before.              *)
KeyExpansion ==
    /\ mode = "expand" /\ Len(rk) < 44
    /\ LET i == Len(rk)
           constant == [k \in 0 .. 3 |-> IF k = 0 THEN rc[i \div 4] ELSE 0]
           first == xorblock(xorblock(rk[i - 3], subword(rotword(rk[i]))), constant)
           second == xorblock(rk[i - 2], first)
           third == xorblock(rk[i - 1], second)
       IN rk' = rk \o << first, second, third, xorblock(rk[i], third) >>
    /\ UNCHANGED <<case, buf, x, mode, b, r>>

KeyReady ==
    /\ mode = "expand" /\ Len(rk) = 44
    /\ mode' = IF case \in Signed THEN "mac" ELSE "enc"
    /\ UNCHANGED <<case, rk, buf, x, b, r>>

(* Mutant: each block is mixed with the initialization vector. *)
PreviousIv(n) == case.iv

(* The block that is mixed into block n. *)
Previous(n) == IF n = 1 THEN case.iv ELSE buf[n - 1]

(* Mutant: from the second on, the block at i is mixed into the MAC. *)
MacInputOwn == IF b = 1 THEN buf[1] ELSE xorblock(x, buf[b])

(* A copy of the first block; from then on the MAC and the block before    *)
(* the one at i.                                                           *)
MacInput == IF b = 1 THEN buf[1] ELSE xorblock(x, buf[b - 1])

Input == IF mode = "enc" THEN xorblock(buf[b], Previous(b)) ELSE MacInput

EncBlock ==
    /\ mode \in {"enc", "mac"} /\ r = 0 /\ r' = 1
    /\ x' = xorblock(Input, RoundKey(0))
    /\ UNCHANGED <<case, rk, buf, mode, b>>

EncRound ==
    /\ mode \in {"enc", "mac"} /\ r \in 1 .. 9 /\ r' = r + 1
    /\ x' = xorblock(mixcolumns(subshiftrows(x)), RoundKey(r))
    /\ UNCHANGED <<case, rk, buf, mode, b>>

(* Mutant: the columns are mixed in the last round as well. *)
LastRoundMixes(w) == xorblock(mixcolumns(subshiftrows(w)), RoundKey(10))

LastRound(w) == xorblock(subshiftrows(w), RoundKey(10))

EncLast ==
    /\ mode \in {"enc", "mac"} /\ r = 10 /\ r' = 0
    /\ x' = LastRound(x)
    /\ buf' = IF mode = "enc" THEN [buf EXCEPT ![b] = x'] ELSE buf
    /\ IF b < Len(buf) THEN b' = b + 1 /\ mode' = mode
       ELSE b' = b /\ mode' = IF mode = "enc" THEN "dec" ELSE "end"
    /\ UNCHANGED <<case, rk>>

DecBlock ==
    /\ mode = "dec" /\ r = 0 /\ r' = 9
    /\ x' = subshiftrows_inv(xorblock(buf[b], RoundKey(10)))
    /\ UNCHANGED <<case, rk, buf, mode, b>>

(* Mutant: the columns are mixed before the round key is added. *)
UndoRoundMixed(w) == subshiftrows_inv(xorblock(mixcolumns_inv(w), RoundKey(r)))

UndoRound(w) == subshiftrows_inv(mixcolumns_inv(xorblock(w, RoundKey(r))))

DecRound ==
    /\ mode = "dec" /\ r \in 2 .. 9 /\ r' = r - 1
    /\ x' = UndoRound(x)
    /\ UNCHANGED <<case, rk, buf, mode, b>>

(* The loop goes backwards: block b - 1 is still encrypted when block b    *)
(* needs it.                                                               *)
DecLast ==
    /\ mode = "dec" /\ r = 1 /\ r' = 0
    /\ x' = xorblock(xorblock(UndoRound(x), RoundKey(0)), Previous(b))
    /\ buf' = [buf EXCEPT ![b] = x']
    /\ IF b > 1 THEN b' = b - 1 /\ mode' = mode ELSE b' = b /\ mode' = "end"
    /\ UNCHANGED <<case, rk>>

comp_sig(sig1, sig2) == \A j \in 0 .. 15 : sig1[j] = sig2[j]

Next == KeyExpansion \/ KeyReady \/ EncBlock \/ EncRound \/ EncLast \/ DecBlock \/ DecRound \/ DecLast

Spec == Init /\ [][Next]_vars
-----------------------------------------------------------------------------
(* Every step of aes128_keyexpansion and of aes128_enc, with its tables    *)
(* and its byte offsets, is the step that the standard defines by the      *)
(* arithmetic of the field.                                                *)
StepsAsFips ==
    [][/\ mode = "expand" =>
            \A n \in 1 .. Len(rk') : rk'[n] = IF n <= Len(rk) THEN rk[n] ELSE ScheduleWord(rk', n)
       /\ mode \in {"enc", "mac"} =>
            x' = IF r = 0 THEN AddRoundKey(Input, rk, 0) ELSE CipherRound(x, rk, r)]_vars

(* aes128_cbc_enc as a whole gives the published result of a published     *)
(* example.                                                                *)
KnownAnswer ==
    mode = "dec" /\ b = Len(buf) /\ r = 0 /\ "answer" \in DOMAIN case => buf = case.answer

(* aes128_dec and aes128_cbc_dec get the message back, in place, block by  *)
(* block from the last one.                                                *)
DecryptsBack ==
    case \in CbcCases /\ mode \in {"dec", "end"} /\ r = 0 =>
        \A n \in 1 .. Len(buf) : mode = "end" \/ n > b => buf[n] = case.message[n]

(* The code that test.c carries as signed is accepted by calc_sig and      *)
(* comp_sig, and the same code with the broken signature is not: what      *)
(* app_format_sig.c once computed is what the monitor computes.            *)
PayloadsAsLabelled ==
    case \in Signed /\ mode = "end" => (comp_sig(case.signature, x) <=> case.genuine)
=============================================================================
