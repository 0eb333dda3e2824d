-------------------------- MODULE AppHeader_proofs --------------------------
(***************************************************************************)
(* What the tools write the monitor reads, verifies and loads: for every   *)
(* selection of sections, every layout of them and every binary.           *)
(***************************************************************************)
EXTENDS AppHeader, SequenceTheorems, TLAPS

(* The words of headers and of binaries. *)
HeaderWord == [1 .. 8 -> 0 .. 255]
Word == HeaderWord \union UNION {{b[n] : n \in DOMAIN b} : b \in Binaries}

LEMMA ZeroWord == Zero \in HeaderWord /\ \A b \in 1 .. 8 : Zero[b] = 0
  BY DEF Zero, HeaderWord

(* A number survives being split into bytes and put together again. *)
LEMMA NumberValue ==
    ASSUME NEW n \in Small
    PROVE  Number(n) \in HeaderWord /\ Value(Number(n)) = n
<1> DEFINE low == n % 256
<1> DEFINE rest == n \div 256
<1> DEFINE high == n \div 65536
<1>1. n \in Nat /\ high < 256
  BY SMT DEF Small
<1>2. low \in 0 .. 255 /\ rest \in Nat /\ n = 256 * rest + low
  BY <1>1
<1>3. high \in 0 .. 255 /\ 65536 * high <= n /\ n < 65536 * high + 65536
  BY <1>1, SMT
<1>4. rest % 256 \in 0 .. 255 /\ rest = 256 * (rest \div 256) + (rest % 256) /\ rest \div 256 \in Nat
  BY <1>2
<1> HIDE DEF low, rest, high
<1>5. rest \div 256 = high
  BY <1>1, <1>2, <1>3, <1>4, SMT
<1>6. n = low + 256 * (rest % 256) + 65536 * high
  BY <1>2, <1>4, <1>5, SMT
<1>7. Number(n) = [b \in 1 .. 8 |-> CASE b = 1 -> low [] b = 2 -> rest % 256 [] b = 3 -> high [] OTHER -> 0]
  BY SMT DEF Number, low, rest, high
<1> DEFINE w == Number(n)
<1> HIDE DEF w
<1>8. w \in HeaderWord /\ w[1] = low /\ w[2] = rest % 256 /\ w[3] = high
  BY <1>2, <1>3, <1>4, <1>7, SMT DEF HeaderWord, w
<1>9. Value(w) = n
  BY <1>6, <1>8, SMT DEF Value
<1> QED BY <1>8, <1>9 DEF w

(* A name is one word, not zero, and ends where it was cut off. *)
LEMMA NameRead ==
    ASSUME NEW name \in Names
    PROVE  /\ NameWord(name) \in HeaderWord /\ NameWord(name) # Zero
           /\ \A i : i # MaxEntries => ReadName(i, NameWord(name)) = name
<1> DEFINE len == Len(name)
<1> DEFINE w == NameWord(name)
<1>1. name \in Seq(1 .. 255) /\ len \in 1 .. 8
  BY HeaderAssumption
<1>2. \A b \in 1 .. len : name[b] \in 1 .. 255
  BY <1>1, ElementOfSeq
<1> HIDE DEF len, w
<1>3. len \in 1 .. 8
  BY <1>1
<1>4. w = [b \in 1 .. 8 |-> IF b <= len THEN name[b] ELSE 0]
  BY DEF NameWord, len, w
<1>5. \A b \in 1 .. 8 : /\ b <= len => w[b] = name[b] /\ w[b] \in 1 .. 255 /\ w[b] # 0
                        /\ b > len => w[b] = 0
  <2> SUFFICES ASSUME NEW b \in 1 .. 8
               PROVE  /\ b <= len => w[b] = name[b] /\ w[b] \in 1 .. 255 /\ w[b] # 0
                      /\ b > len => w[b] = 0
    OBVIOUS
  <2>1. w[b] = IF b <= len THEN name[b] ELSE 0
    BY <1>4
  <2>2. CASE b <= len
    <3>1. b \in 1 .. len /\ ~(b > len)
      BY <1>3, <2>2
    <3>2. name[b] \in 1 .. 255
      BY <1>2, <3>1
    <3>3. name[b] # 0
      BY <3>2
    <3> QED BY <2>1, <2>2, <3>1, <3>2, <3>3
  <2>3. CASE b > len
    <3>1. ~(b <= len)
      BY <1>3, <2>3
    <3> QED BY <2>1, <3>1
  <2> QED BY <1>3, <2>2, <2>3
<1>6. w \in HeaderWord
  <2>1. \A b \in 1 .. 8 : w[b] \in 0 .. 255
    <3> SUFFICES ASSUME NEW b \in 1 .. 8 PROVE w[b] \in 0 .. 255
      OBVIOUS
    <3>1. w[b] \in 1 .. 255 \/ w[b] = 0
      <4>1. b <= len \/ b > len
        BY <1>3
      <4> QED BY <1>5, <4>1
    <3> QED BY <3>1
  <2>2. w = [b \in 1 .. 8 |-> w[b]]
    BY <1>4
  <2> QED BY <2>1, <2>2 DEF HeaderWord
<1>7. w # Zero
  <2>1. 1 \in 1 .. 8 /\ 1 <= len
    BY <1>3
  <2>2. w[1] # 0
    BY <1>5, <2>1
  <2> QED BY <2>1, <2>2, ZeroWord
<1> DEFINE IsLength(n) == (n = 8 \/ w[n + 1] = 0) /\ \A b \in 1 .. n : w[b] # 0
<1>8. (CHOOSE n \in 0 .. 8 : IsLength(n)) = len
  <2>1. len \in 0 .. 8 /\ IsLength(len)
    BY <1>1, <1>5
  <2>2. ASSUME NEW n \in 0 .. 8, IsLength(n) PROVE n = len
    <3>1. n <= len
      <4>1. len < n => len + 1 \in 1 .. n /\ len + 1 \in 1 .. 8
        BY <1>1
      <4> QED BY <1>1, <1>5, <2>2, <4>1
    <3>2. n >= len
      <4>1. n < len => n + 1 \in 1 .. 8 /\ n + 1 <= len /\ n # 8
        BY <1>1
      <4> QED BY <1>1, <1>5, <2>2, <4>1
    <3> QED BY <1>1, <3>1, <3>2
  <2> QED BY <2>1, <2>2
<1>9. SubSeq(w, 1, len) = name
  <2>0. \A b \in 1 .. len : b \in 1 .. 8 /\ b <= len
    BY <1>3
  <2>1. \A b \in 1 .. len : w[b] \in 1 .. 255 /\ w[b] = name[b]
    BY <1>5, <2>0
  <2>2. /\ SubSeq(w, 1, len) \in Seq(1 .. 255)
        /\ Len(SubSeq(w, 1, len)) = len
        /\ \A b \in 1 .. len : SubSeq(w, 1, len)[b] = w[b]
    BY <1>1, <2>1, SubSeqProperties
  <2>3. \A b \in 1 .. len : SubSeq(w, 1, len)[b] = name[b]
    BY <2>1, <2>2
  <2> QED BY <1>1, <2>2, <2>3, SeqEqual DEF len
<1>10. \A i : i # MaxEntries => ReadName(i, w) = SubSeq(w, 1, CHOOSE n \in 0 .. 8 : IsLength(n))
  BY DEF ReadName
<1> QED BY <1>6, <1>7, <1>8, <1>9, <1>10 DEF w

(* What an entry is read as. *)
Item(i) == [section |-> sections[i], offset |-> Layout[sections[i]].offset,
            size |-> Layout[sections[i]].size, rwx |-> Layout[sections[i]].rwx]

(* What an entry is made of. *)
LEMMA EntryWords ==
    ASSUME NEW name \in Names
    PROVE  /\ Entry(name) = << NameWord(name), Number(Layout[name].offset), Number(Layout[name].size),
                               Number(Layout[name].rwx) >>
           /\ Entry(name) \in Seq(Word) /\ Len(Entry(name)) = 4
           /\ Layout[name].rwx \in 0 .. 255 /\ Layout[name].rwx \in Small
<1> DEFINE l == Layout[name]
<1>1. l.offset \in Small /\ l.size \in Small /\ l.rwx \in 0 .. 255 /\ l.rwx \in Small
  <2>1. \A x \in 0 .. 255 : x \in Small
    BY SMT DEF Small
  <2> QED BY <2>1, HeaderAssumption
<1> HIDE DEF l
<1>2. Entry(name) = << NameWord(name), Number(l.offset), Number(l.size), Number(l.rwx) >>
  BY DEF Entry, l
<1>3. /\ NameWord(name) \in Word /\ Number(l.offset) \in Word /\ Number(l.size) \in Word /\ Number(l.rwx) \in Word
  BY <1>1, NumberValue, NameRead DEF Word
<1>4. Entry(name) \in Seq(Word) /\ Len(Entry(name)) = 4
  BY <1>2, <1>3
<1> QED BY <1>1, <1>2, <1>4 DEF l

(* An entry is four words, the first of which is not zero, and is read as  *)
(* what it was written from.                                               *)
LEMMA EntryRead ==
    ASSUME NEW i \in Nat, sections[i] \in Names, NEW n, n # MaxEntries
    PROVE  LET e == Entry(sections[i]) IN
           /\ e \in Seq(Word) /\ Len(e) = 4 /\ e[1] # Zero
           /\ Item(i) = [section |-> ReadName(n, e[1]), offset |-> Value(e[2]), size |-> Value(e[3]), rwx |-> Value(e[4]) % 256]
<1> DEFINE e == Entry(sections[i])
<1> DEFINE l == Layout[sections[i]]
<1>1. l.offset \in Small /\ l.size \in Small /\ l.rwx \in 0 .. 255 /\ l.rwx \in Small
  BY EntryWords, HeaderAssumption
<1>1a. l.rwx % 256 = l.rwx
  BY <1>1
<1> HIDE DEF l
<1>2. e = << NameWord(sections[i]), Number(l.offset), Number(l.size), Number(l.rwx) >>
  BY DEF Entry, l
<1>3. NameWord(sections[i]) # Zero /\ Entry(sections[i]) \in Seq(Word) /\ Len(Entry(sections[i])) = 4
  BY NameRead, EntryWords
<1>4. /\ ReadName(n, NameWord(sections[i])) = sections[i]
      /\ Value(Number(l.offset)) = l.offset /\ Value(Number(l.size)) = l.size /\ Value(Number(l.rwx)) = l.rwx
  BY <1>1, NumberValue, NameRead
<1>5. Item(i) = [section |-> sections[i], offset |-> l.offset, size |-> l.size, rwx |-> l.rwx]
  BY DEF Item, l
<1> HIDE DEF e
<1>6. e[1] = NameWord(sections[i]) /\ e[2] = Number(l.offset) /\ e[3] = Number(l.size) /\ e[4] = Number(l.rwx)
  BY <1>2
<1>7. e \in Seq(Word) /\ Len(e) = 4
  BY <1>3 DEF e
<1> QED BY <1>1a, <1>3, <1>4, <1>5, <1>6, <1>7 DEF e

(* Words that are those of t, from the one after n on. *)
LEMMA Behind ==
    ASSUME NEW S, NEW s, NEW t \in Seq(S), NEW n \in Nat, \A l \in 1 .. Len(t) : s[n + l] = t[l]
    PROVE  SubSeq(s, n + 1, n + Len(t)) = t
<1> DEFINE len == Len(t)
<1>1. len \in Nat /\ \A l \in 1 .. len : t[l] \in S /\ s[n + l] = t[l]
  BY LenProperties, ElementOfSeq
<1> HIDE DEF len
<1> DEFINE last == n + len
<1> DEFINE u == SubSeq(s, n + 1, last)
<1>2. \A i \in n + 1 .. last : s[i] \in S
  <2>1. \A i \in n + 1 .. last : i - n \in 1 .. len /\ n + (i - n) = i
    BY <1>1
  <2> QED BY <1>1, <2>1
<1>3. n + 1 \in Int /\ last \in Int
  BY <1>1
<1>4. last - (n + 1) + 1 = len /\ \A i \in 1 .. len : n + 1 + i - 1 = n + i
  BY <1>1
<1>5. (IF n + 1 <= last THEN len ELSE 0) = len
  BY <1>1
<1> HIDE DEF last
<1>6. /\ u \in Seq(S) /\ Len(u) = IF n + 1 <= last THEN last - (n + 1) + 1 ELSE 0
      /\ \A i \in 1 .. last - (n + 1) + 1 : u[i] = s[n + 1 + i - 1]
  BY <1>2, <1>3, SubSeqProperties
<1> HIDE DEF u
<1>7. Len(u) = len /\ \A i \in 1 .. len : u[i] = t[i]
  BY <1>1, <1>4, <1>5, <1>6
<1>8. u = t
  BY <1>6, <1>7, SeqEqual DEF len
<1> QED BY <1>8 DEF u, last, len

(* What is behind a prefix of known length. *)
LEMMA BehindPrefix ==
    ASSUME NEW S, NEW s \in Seq(S), NEW t \in Seq(S), NEW n, n = Len(s)
    PROVE  SubSeq(s \o t, n + 1, Len(s \o t)) = t
<1> DEFINE st == s \o t
<1> DEFINE len == Len(t)
<1>1. n \in Nat /\ len \in Nat
  BY LenProperties
<1>2. /\ Len(st) = n + len
      /\ \A i \in 1 .. n + len : st[i] = IF i <= n THEN s[i] ELSE t[i - n]
  BY ConcatProperties
<1> HIDE DEF st, len
<1>3. \A l \in 1 .. len : st[n + l] = t[l]
  <2>1. \A l \in 1 .. len : n + l \in 1 .. n + len /\ ~(n + l <= n) /\ n + l - n = l
    BY <1>1
  <2> QED BY <1>2, <2>1
<1>4. SubSeq(st, n + 1, n + len) = t
  BY <1>1, <1>3, Behind DEF len
<1> QED BY <1>2, <1>4 DEF st

-----------------------------------------------------------------------------
(* How far the words of b are the header: n entries, or all and zeros.     *)
FirstEntries(b, n) == \A i \in 1 .. n, v \in 1 .. 4 : b[4 * i - 4 + v] = Entry(sections[i])[v]
IsHeader(b) ==
    /\ FirstEntries(b, Len(sections))
    /\ \A l \in 4 * Len(sections) + 1 .. HeaderWords : b[l] = Zero
Items(n) == [i \in 1 .. n |-> Item(i)]

Whole == step \notin {"open", "no file", "header", "read"}
Written == Whole /\ step # "sign"
Filed == Written /\ step # "write"

(* Input, and which of the two tools is at work. *)
Input ==
    /\ config \in [SECURITY : BOOLEAN, SIG_BROKEN : BOOLEAN]
    /\ kind \in {"app", "payload"} /\ binary \in Binaries
    /\ sections \in IF kind = "app" THEN Found ELSE {<< >>}
    /\ step \in {"header", "read", "parse", "verify", "load"} => kind = "app"
    /\ step = "verify code" => kind = "payload"

(* The tools: the buffer is a prefix of the header, the header, and then   *)
(* header and binary, of which the signature is computed.                  *)
Tools ==
    /\ buf \in Seq(Word)
    /\ step \in {"open", "no file"} => buf = << >>
    /\ step = "header" => \E n \in 0 .. Len(sections) : Len(buf) = 4 * n /\ FirstEntries(buf, n)
    /\ step = "read" => Len(buf) = HeaderWords /\ IsHeader(buf)
    /\ Whole /\ kind = "app" =>
          /\ IsHeader(buf)
          /\ Len(buf) = HeaderWords + Len(binary) /\ \A l \in 1 .. Len(binary) : buf[HeaderWords + l] = binary[l]
    /\ Whole /\ kind = "payload" => buf = binary
    /\ Written => signature = SignatureOf(buf)
    /\ Filed => image = IF kind = "app" THEN signature \o buf ELSE CopiedInto(signature \o buf)

(* The monitor: it has read the first entries, or all of them, and goes on *)
(* only with a signature that matches.                                     *)
Reading ==
    /\ ~Filed => proc = << >> /\ p = 3
    /\ step = "parse" => \E n \in 0 .. Len(sections) : proc = Items(n) /\ p = 3 + 4 * n
    /\ kind = "app" /\ step \in {"verify", "load", "refused", "started"} => proc = Items(Len(sections))
    /\ step = "verify" => config.SECURITY
    /\ step \in {"load", "started"} => (config.SECURITY => ~ config.SIG_BROKEN)
    /\ step = "refused" => config.SECURITY /\ config.SIG_BROKEN
    /\ step = "started" => memory = binary

HInv == Input /\ Tools /\ Reading

LEMMA InputFacts ==
    ASSUME Input
    PROVE  /\ sections \in Seq(Names) /\ Len(sections) \in 0 .. 7
           /\ binary \in Seq(Word) /\ 8 * Len(binary) \in Small
<1>1. sections \in Seq(Names) /\ Len(sections) \in 0 .. 7
  <2>1. CASE kind = "app"
    <3>1. sections \in Seq(Names) /\ Len(sections) < 8
      BY <2>1, HeaderAssumption DEF Input, MaxEntries
    <3> DEFINE n == Len(sections)
    <3>2. n \in Nat /\ n < 8
      BY <3>1, LenProperties
    <3> HIDE DEF n
    <3>3. n \in 0 .. 7
      BY <3>2
    <3> QED BY <3>1, <3>3 DEF n
  <2>2. CASE kind = "payload"
    BY <2>2, EmptySeq DEF Input
  <2> QED BY <2>1, <2>2 DEF Input
<1>2. binary \in Seq(Word) /\ 8 * Len(binary) \in Small
  <2> DEFINE S == {binary[i] : i \in DOMAIN binary}
  <2>1. binary \in Seq(S) /\ 8 * Len(binary) \in Small
    BY HeaderAssumption DEF Input
  <2>2. S \subseteq Word
    <3>1. S \in {{b[n] : n \in DOMAIN b} : b \in Binaries}
      BY DEF Input
    <3> HIDE DEF S
    <3> QED BY <3>1 DEF Word
  <2> QED BY <2>1, <2>2, SeqMonotonic
<1> QED BY <1>1, <1>2

LEMMA InitHInv == Init => HInv
<1> SUFFICES ASSUME Init PROVE HInv
  OBVIOUS
<1>1. Input
  BY DEF Init, Input
<1>2. Tools
  BY EmptySeq DEF Init, Tools, Whole, Written, Filed
<1>3. Reading
  BY DEF Init, Reading, Whole, Written, Filed, SignatureWords
<1> QED BY <1>1, <1>2, <1>3 DEF HInv

(* The entries of the header stay what they are. *)
LEMMA EntriesKept ==
    ASSUME UNCHANGED sections
    PROVE  /\ \A n : Items(n)' = Items(n)
           /\ \A i : Entry(sections[i])' = Entry(sections[i])
           /\ buf' = buf => /\ \A n : FirstEntries(buf, n)' <=> FirstEntries(buf, n)
                            /\ IsHeader(buf)' <=> IsHeader(buf)
<1>1. \A n : Items(n)' = Items(n)
  BY DEF Items, Item
<1>2. \A i : Entry(sections[i])' = Entry(sections[i])
  OBVIOUS
<1>3. ASSUME buf' = buf, NEW n PROVE FirstEntries(buf, n)' <=> FirstEntries(buf, n)
  BY <1>2, <1>3 DEF FirstEntries
<1>4. ASSUME buf' = buf PROVE IsHeader(buf)' <=> IsHeader(buf)
  <2>1. FirstEntries(buf, Len(sections))' <=> FirstEntries(buf, Len(sections))
    BY <1>2, <1>4 DEF FirstEntries
  <2> QED BY <1>4, <2>1 DEF IsHeader
<1> QED BY <1>1, <1>2, <1>3, <1>4

(* Nothing of the header or the binary is written. *)
LEMMA StepOpen ==
    ASSUME HInv, OpenFails \/ Open
    PROVE  HInv'
<1>1. UNCHANGED <<config, kind, binary, sections, buf, signature, image, proc, p, memory>>
  BY DEF OpenFails, Open
<1>2. step = "open" /\ (step' = "no file" \/ (kind = "app" /\ step' = "header"))
  BY DEF OpenFails, Open
<1>3. Input'
  BY <1>1, <1>2 DEF HInv, Input
<1>4. Tools'
  <2>1. buf \in Seq(Word) /\ buf = << >>
    BY <1>2 DEF HInv, Tools
  <2>2. FirstEntries(buf, 0) /\ Len(buf) = 4 * 0 /\ 0 \in 0 .. Len(sections)
    BY <2>1, InputFacts DEF HInv, FirstEntries
  <2>3. Word' = Word /\ FirstEntries(buf, 0)'
    BY <1>1, <2>2, EntriesKept DEF Word
  <2> QED BY <1>1, <1>2, <2>1, <2>2, <2>3 DEF Tools, Whole, Written, Filed
<1>5. Reading'
  BY <1>1, <1>2 DEF HInv, Reading, Filed, Written, Whole
<1> QED BY <1>3, <1>4, <1>5 DEF HInv

LEMMA StepReadCode ==
    ASSUME HInv, ReadCode
    PROVE  HInv'
<1>1. /\ UNCHANGED <<config, kind, binary, sections, signature, image, proc, p, memory>>
      /\ step = "open" /\ kind = "payload" /\ step' = "sign" /\ buf' = binary
  BY DEF ReadCode
<1>2. Input'
  BY <1>1 DEF HInv, Input
<1>3. Tools'
  <2>1. binary \in Seq(Word)
    BY InputFacts DEF HInv
  <2> QED BY <1>1, <2>1 DEF Tools, Whole, Written, Filed, Word
<1>4. Reading'
  BY <1>1 DEF HInv, Reading, Filed, Written, Whole
<1> QED BY <1>2, <1>3, <1>4 DEF HInv

(* One entry more. *)
LEMMA StepWriteEntry ==
    ASSUME HInv, WriteEntry
    PROVE  HInv'
<1>1. /\ UNCHANGED <<config, kind, binary, sections, signature, image, proc, p, memory, step>>
      /\ step = "header" /\ Len(buf) < 4 * Len(sections) /\ Len(buf) < HeaderWords
      /\ buf' = buf \o Entry(sections[Len(buf) \div 4 + 1])
  BY DEF WriteEntry
<1>2. Input'
  BY <1>1 DEF HInv, Input
<1>3. PICK n \in 0 .. Len(sections) : Len(buf) = 4 * n /\ FirstEntries(buf, n)
  BY <1>1 DEF HInv, Tools
<1>4. sections \in Seq(Names) /\ Len(sections) \in 0 .. 7 /\ buf \in Seq(Word)
  BY InputFacts DEF HInv, Tools
<1> DEFINE len == Len(sections)
<1> DEFINE l == Len(buf)
<1> DEFINE e == Entry(sections[n + 1])
<1>5. n + 1 \in 1 .. len /\ l \div 4 + 1 = n + 1
  <2> HIDE DEF len, l
  <2>1. len \in 0 .. 7 /\ n \in 0 .. len /\ l = 4 * n /\ l < 4 * len
    BY <1>1, <1>3, <1>4 DEF len, l
  <2> QED BY <2>1
<1>6. sections[n + 1] \in Names
  BY <1>4, <1>5, ElementOfSeq
<1>7. e \in Seq(Word) /\ Len(e) = 4
  BY <1>6, EntryWords
<1> HIDE DEF len, l, e
<1>8. /\ buf' \in Seq(Word) /\ Len(buf') = 4 * n + 4
      /\ \A i \in 1 .. 4 * n + 4 : buf'[i] = IF i <= 4 * n THEN buf[i] ELSE e[i - 4 * n]
  <2>1. buf' = buf \o e /\ Len(buf) = 4 * n
    BY <1>1, <1>3, <1>5 DEF l, e
  <2>2. /\ buf \o e \in Seq(Word) /\ Len(buf \o e) = Len(buf) + Len(e)
        /\ \A i \in 1 .. Len(buf) + Len(e) : (buf \o e)[i] = IF i <= Len(buf) THEN buf[i] ELSE e[i - Len(buf)]
    BY <1>4, <1>7, ConcatProperties
  <2> QED BY <1>7, <2>1, <2>2
<1>9. FirstEntries(buf, n + 1)'
  <2> SUFFICES ASSUME NEW i \in 1 .. n + 1, NEW v \in 1 .. 4
               PROVE  buf'[4 * i - 4 + v] = Entry(sections[i])[v]
    BY <1>1 DEF FirstEntries
  <2>1. n \in Nat
    BY <1>3, <1>4
  <2>2. CASE i = n + 1
    <3>1. 4 * i - 4 + v \in 1 .. 4 * n + 4 /\ ~(4 * i - 4 + v <= 4 * n) /\ 4 * i - 4 + v - 4 * n = v
      BY <2>1, <2>2
    <3> DEFINE w == 4 * i - 4 + v
    <3> HIDE DEF w
    <3>2. buf'[w] = e[w - 4 * n]
      BY <1>8, <3>1 DEF w
    <3>3. w - 4 * n = v
      BY <3>1 DEF w
    <3>4. buf'[4 * i - 4 + v] = e[v]
      BY <3>2, <3>3 DEF w
    <3> QED BY <2>2, <3>4 DEF e
  <2>3. CASE i \in 1 .. n
    <3>1. 4 * i - 4 + v \in 1 .. 4 * n + 4 /\ 4 * i - 4 + v <= 4 * n
      BY <2>1, <2>3
    <3> DEFINE w == 4 * i - 4 + v
    <3> HIDE DEF w
    <3>3. buf'[w] = buf[w]
      BY <1>8, <3>1 DEF w
    <3>2. buf'[4 * i - 4 + v] = buf[4 * i - 4 + v]
      BY <3>3 DEF w
    <3> QED BY <1>3, <2>3, <3>2 DEF FirstEntries
  <2> QED BY <2>1, <2>2, <2>3
<1>10. Tools'
  <2>1. n + 1 \in 0 .. Len(sections') /\ Len(buf') = 4 * (n + 1)
    <3>1. 4 * (n + 1) = 4 * n + 4 /\ n + 1 \in 0 .. len
      BY <1>3, <1>4, <1>5 DEF len
    <3> QED BY <1>1, <1>8, <3>1 DEF len
  <2>2. step' = "header" /\ Word' = Word
    BY <1>1 DEF Word
  <2> QED BY <1>8, <1>9, <2>1, <2>2 DEF Tools, Whole, Written, Filed
<1>11. Reading'
  BY <1>1 DEF HInv, Reading, Filed, Written, Whole
<1> QED BY <1>2, <1>10, <1>11 DEF HInv

(* The rest of the header is zero. *)
LEMMA StepWritePad ==
    ASSUME HInv, WritePad
    PROVE  HInv'
<1>1. /\ UNCHANGED <<config, kind, binary, sections, signature, image, proc, p, memory>>
      /\ step = "header" /\ step' = "read" /\ Len(buf) >= 4 * Len(sections)
      /\ buf' = buf \o [w \in 1 .. HeaderWords - Len(buf) |-> Zero]
  BY DEF WritePad
<1>2. Input'
  BY <1>1 DEF HInv, Input
<1>3. PICK n \in 0 .. Len(sections) : Len(buf) = 4 * n /\ FirstEntries(buf, n)
  BY <1>1 DEF HInv, Tools
<1>4. sections \in Seq(Names) /\ Len(sections) \in 0 .. 7 /\ buf \in Seq(Word)
  BY InputFacts DEF HInv, Tools
<1> DEFINE len == Len(sections)
<1>5. len \in 0 .. 7 /\ n = len
  <2>1. len \in 0 .. 7 /\ n \in 0 .. len /\ 4 * n >= 4 * len
    BY <1>1, <1>3, <1>4
  <2> HIDE DEF len
  <2> QED BY <2>1
<1> HIDE DEF len
<1> DEFINE pad == [w \in 1 .. 62 - 4 * len |-> Zero]
<1>6. pad \in Seq(Word) /\ Len(pad) = 62 - 4 * len
  BY <1>5, ZeroWord DEF Word
<1>7. /\ buf' \in Seq(Word) /\ Len(buf') = 62
      /\ \A i \in 1 .. 62 : buf'[i] = IF i <= 4 * len THEN buf[i] ELSE Zero
  <2>1. buf' = buf \o pad /\ Len(buf) = 4 * len
    BY <1>1, <1>3, <1>5 DEF HeaderWords
  <2> DEFINE all == 4 * len
  <2>2. \A i \in 1 .. 62 : ~(i <= 4 * len) => pad[i - 4 * len] = Zero
    BY <1>5
  <2> HIDE DEF pad
  <2>3. /\ buf \o pad \in Seq(Word) /\ Len(buf \o pad) = Len(buf) + Len(pad)
        /\ \A i \in 1 .. Len(buf) + Len(pad) : (buf \o pad)[i] = IF i <= Len(buf) THEN buf[i] ELSE pad[i - Len(buf)]
    BY <1>4, <1>6, ConcatProperties
  <2>4. /\ buf' \in Seq(Word) /\ Len(buf') = 4 * len + (62 - 4 * len)
        /\ \A i \in 1 .. 4 * len + (62 - 4 * len) : buf'[i] = IF i <= 4 * len THEN buf[i] ELSE pad[i - 4 * len]
    BY <1>6, <2>1, <2>3
  <2>5. 4 * len + (62 - 4 * len) = 62
    BY <1>5
  <2>6. \A i \in 1 .. 62 : buf'[i] = IF i <= 4 * len THEN buf[i] ELSE pad[i - 4 * len]
    BY <2>4, <2>5
  <2>7. \A i \in 1 .. 62 : buf'[i] = IF i <= 4 * len THEN buf[i] ELSE Zero
    <3> SUFFICES ASSUME NEW i \in 1 .. 62 PROVE buf'[i] = IF i <= 4 * len THEN buf[i] ELSE Zero
      OBVIOUS
    <3>1. buf'[i] = IF i <= all THEN buf[i] ELSE pad[i - all]
      BY <2>6
    <3>2. ~(i <= all) => pad[i - all] = Zero
      BY <2>2
    <3> HIDE DEF all
    <3>3. buf'[i] = IF i <= all THEN buf[i] ELSE Zero
      BY <3>1, <3>2
    <3> QED BY <3>3 DEF all
  <2> QED BY <2>4, <2>5, <2>7
<1>8. IsHeader(buf)'
  <2>1. ASSUME NEW i \in 1 .. len, NEW v \in 1 .. 4 PROVE buf'[4 * i - 4 + v] = Entry(sections[i])[v]
    <3>1. 4 * i - 4 + v \in 1 .. 62 /\ 4 * i - 4 + v <= 4 * len
      BY <1>5
    <3>2. buf[4 * i - 4 + v] = Entry(sections[i])[v]
      BY <1>3, <1>5 DEF FirstEntries
    <3> QED BY <1>7, <3>1, <3>2
  <2>2. \A l \in 4 * len + 1 .. 62 : buf'[l] = Zero
    <3>1. \A l \in 4 * len + 1 .. 62 : l \in 1 .. 62 /\ ~(l <= 4 * len)
      BY <1>5
    <3> QED BY <1>7, <3>1
  <2>3. Len(sections') = len
    BY <1>1 DEF len
  <2> QED BY <1>1, <2>1, <2>2, <2>3 DEF IsHeader, FirstEntries, HeaderWords
<1>9. Tools'
  <2>1. step' = "read" /\ Word' = Word
    BY <1>1 DEF Word
  <2> QED BY <1>7, <1>8, <2>1 DEF Tools, Whole, Written, Filed, HeaderWords
<1>10. Reading'
  BY <1>1 DEF HInv, Reading, Filed, Written, Whole
<1> QED BY <1>2, <1>9, <1>10 DEF HInv

(* The binary follows the header. *)
LEMMA StepReadBinary ==
    ASSUME HInv, ReadBinary
    PROVE  HInv'
<1>1. /\ UNCHANGED <<config, kind, binary, sections, signature, image, proc, p, memory>>
      /\ step = "read" /\ step' = "sign" /\ buf' = buf \o binary
  BY DEF ReadBinary
<1>2. Input'
  BY <1>1 DEF HInv, Input
<1>3. /\ buf \in Seq(Word) /\ Len(buf) = HeaderWords /\ IsHeader(buf) /\ kind = "app"
      /\ binary \in Seq(Word) /\ Len(sections) \in 0 .. 7
  BY <1>1, InputFacts DEF HInv, Tools, Input
<1>4. /\ buf' \in Seq(Word) /\ Len(buf') = HeaderWords + Len(binary)
      /\ \A i \in 1 .. HeaderWords + Len(binary) :
            buf'[i] = IF i <= HeaderWords THEN buf[i] ELSE binary[i - HeaderWords]
  BY <1>1, <1>3, ConcatProperties
<1> DEFINE len == Len(binary)
<1>5. len \in Nat
  BY <1>3, LenProperties
<1> HIDE DEF len
<1>6. \A i \in 1 .. 62 : buf'[i] = buf[i]
  BY <1>4, <1>5 DEF HeaderWords, len
<1>7. \A l \in 1 .. len : buf'[HeaderWords + l] = binary[l]
  <2>1. \A l \in 1 .. len : 62 + l \in 1 .. 62 + len /\ ~(62 + l <= 62) /\ 62 + l - 62 = l
    BY <1>5
  <2> QED BY <1>4, <2>1 DEF HeaderWords, len
<1>8. IsHeader(buf)'
  <2> DEFINE n == Len(sections)
  <2>1. n \in 0 .. 7
    BY <1>3
  <2> HIDE DEF n
  <2>2. \A i \in 1 .. n, v \in 1 .. 4 : 4 * i - 4 + v \in 1 .. 62
    BY <2>1
  <2>3. \A l \in 4 * n + 1 .. 62 : l \in 1 .. 62
    BY <2>1
  <2> QED BY <1>1, <1>3, <1>6, <2>2, <2>3 DEF IsHeader, FirstEntries, HeaderWords, n
<1>9. Tools'
  <2>1. Word' = Word
    BY <1>1 DEF Word
  <2> QED BY <1>1, <1>3, <1>4, <1>7, <1>8, <2>1 DEF Tools, Whole, Written, Filed, len
<1>10. Reading'
  BY <1>1 DEF HInv, Reading, Filed, Written, Whole
<1> QED BY <1>2, <1>9, <1>10 DEF HInv

(* The rest of the tools' work leaves the words alone. *)
LEMMA ToolsKept ==
    ASSUME Tools, Whole, Whole', UNCHANGED <<config, kind, binary, sections, buf>>,
           Written' => signature' = SignatureOf(buf),
           Filed' => image' = IF kind = "app" THEN signature' \o buf ELSE CopiedInto(signature' \o buf)
    PROVE  Tools'
<1>1. Word' = Word /\ (IsHeader(buf)' <=> IsHeader(buf)) /\ SignatureOf(buf)' = SignatureOf(buf)
  <2>1. IsHeader(buf)' <=> IsHeader(buf)
    BY EntriesKept
  <2>2. SignatureOf(buf)' = SignatureOf(buf)
    BY DEF SignatureOf
  <2> QED BY <2>1, <2>2 DEF Word
<1>2. CopiedInto(signature \o buf)' = CopiedInto(signature' \o buf)
  BY DEF CopiedInto
<1>3. step' \notin {"open", "no file", "header", "read"}
  BY DEF Whole
<1> QED BY <1>1, <1>2, <1>3 DEF Tools, Whole

LEMMA StepSign ==
    ASSUME HInv, Sign \/ WriteFile \/ WriteCode
    PROVE  HInv'
<1>1. /\ UNCHANGED <<config, kind, binary, sections, buf, proc, p, memory>>
      /\ \/ step = "sign" /\ step' = "write" /\ signature' = SignatureOf(buf)
         \/ /\ step = "write" /\ kind = "app" /\ step' = "parse"
            /\ signature' = signature /\ image' = signature \o buf
         \/ /\ step = "write" /\ kind = "payload" /\ step' = "verify code"
            /\ signature' = signature /\ image' = CopiedInto(signature \o buf)
  BY DEF Sign, WriteFile, WriteCode
<1>2. Input'
  BY <1>1 DEF HInv, Input
<1>3. Tools'
  <2>1. step \in {"sign", "write"} /\ step' \in {"write", "parse", "verify code"}
    BY <1>1
  <2>2. Tools /\ Whole /\ Whole'
    BY <2>1 DEF HInv, Whole
  <2>3. signature' = SignatureOf(buf)
    BY <1>1, <2>2 DEF Tools, Written
  <2>4. Filed' => image' = IF kind = "app" THEN signature' \o buf ELSE CopiedInto(signature' \o buf)
    BY <1>1 DEF Filed, Written
  <2> QED BY <1>1, <2>2, <2>3, <2>4, ToolsKept
<1>4. Reading'
  <2>1. proc = << >> /\ p = 3
    BY <1>1 DEF HInv, Reading, Filed, Written
  <2>2. Items(0) = << >> /\ 0 \in 0 .. Len(sections) /\ 3 + 4 * 0 = 3
    BY InputFacts DEF HInv, Items
  <2>3. Items(0)' = Items(0)
    BY <1>1, EntriesKept
  <2> QED BY <1>1, <2>1, <2>2, <2>3 DEF Reading, Filed, Written, Whole
<1> QED BY <1>2, <1>3, <1>4 DEF HInv

(* A signature is two words, and the monitor's own unless it was broken. *)
LEMMA SignatureMatches ==
    ASSUME config \in [SECURITY : BOOLEAN, SIG_BROKEN : BOOLEAN], NEW words
    PROVE  LET s == SignatureOf(words) IN
           /\ s \in Seq({s[1], s[2]}) /\ Len(s) = 2
           /\ comp_sig(s, calc_sig(words)) <=> ~ config.SIG_BROKEN
<1> DEFINE c == calc_sig(words)
<1>1. PICK len, mixed : c = << << "first", len, mixed >>, << "second", len, mixed >> >>
  BY DEF calc_sig
<1>2. SignatureOf(words) = IF config.SIG_BROKEN THEN << << "broken" >>, c[2] >> ELSE c
  BY DEF SignatureOf
<1>3. << "broken" >> # << "first", len, mixed >>
  <2>1. Len(<< "broken" >>) = 1 /\ Len(<< "first", len, mixed >>) = 3
    OBVIOUS
  <2> QED BY <2>1
<1> HIDE DEF c
<1> DEFINE s == SignatureOf(words)
<1>4. s \in Seq({s[1], s[2]}) /\ Len(s) = 2
  <2>1. c[2] = << "second", len, mixed >>
    BY <1>1
  <2>2. PICK a, b : s = << a, b >>
    BY <1>1, <1>2
  <2> HIDE DEF s
  <2> QED BY <2>2
<1>5. comp_sig(s, c) <=> ~ config.SIG_BROKEN
  <2>1. CASE config.SIG_BROKEN
    <3>1. s[1] = << "broken" >> /\ c[1] = << "first", len, mixed >>
      BY <1>1, <1>2, <2>1
    <3> HIDE DEF s
    <3> QED BY <1>3, <2>1, <3>1 DEF comp_sig, SignatureWords
  <2>2. CASE ~ config.SIG_BROKEN
    BY <1>2, <2>2 DEF comp_sig
  <2> QED BY <2>1, <2>2
<1> QED BY <1>4, <1>5 DEF c

(* The file with an app: signature, header, binary. *)
LEMMA AppImage ==
    ASSUME HInv, Filed, kind = "app"
    PROVE  /\ From(SignatureWords) = buf /\ From(SkippedWords) = binary
           /\ comp_sig(image, calc_sig(buf)) <=> ~ config.SIG_BROKEN
           /\ \A l \in 1 .. HeaderWords : image[l + 2] = buf[l]
<1>1. /\ image = signature \o buf /\ signature = SignatureOf(buf) /\ buf \in Seq(Word) /\ binary \in Seq(Word)
      /\ Len(buf) = 62 + Len(binary) /\ \A l \in 1 .. Len(binary) : buf[62 + l] = binary[l]
      /\ config \in [SECURITY : BOOLEAN, SIG_BROKEN : BOOLEAN]
  BY InputFacts DEF HInv, Tools, Input, Filed, Written, HeaderWords
<1> DEFINE S == Word \union {signature[1], signature[2]}
<1>2. /\ signature \in Seq({signature[1], signature[2]}) /\ Len(signature) = 2
      /\ comp_sig(signature, calc_sig(buf)) <=> ~ config.SIG_BROKEN
  BY <1>1, SignatureMatches
<1>3. signature \in Seq(S) /\ buf \in Seq(S) /\ binary \in Seq(S)
  <2>1. {signature[1], signature[2]} \subseteq S /\ Word \subseteq S
    OBVIOUS
  <2> HIDE DEF S
  <2>2. signature \in Seq(S)
    BY <1>2, <2>1, SeqMonotonic
  <2>3. buf \in Seq(S) /\ binary \in Seq(S)
    BY <1>1, <2>1, SeqMonotonic
  <2> QED BY <2>2, <2>3
<1> HIDE DEF S
<1>4. From(SignatureWords) = buf
  <2>1. SubSeq(signature \o buf, 2 + 1, Len(signature \o buf)) = buf
    BY <1>2, <1>3, BehindPrefix
  <2> QED BY <1>1, <2>1 DEF From, SignatureWords
<1> DEFINE len == Len(binary)
<1>5. len \in Nat
  BY <1>1, LenProperties
<1>6. /\ Len(image) = 2 + Len(buf) /\ \A i \in 1 .. 2 + Len(buf) : image[i] = IF i <= 2 THEN signature[i] ELSE buf[i - 2]
  <2>1. /\ Len(signature \o buf) = Len(signature) + Len(buf)
        /\ \A i \in 1 .. Len(signature) + Len(buf) :
              (signature \o buf)[i] = IF i <= Len(signature) THEN signature[i] ELSE buf[i - Len(signature)]
    BY <1>3, ConcatProperties
  <2>2. image = signature \o buf /\ Len(signature) = 2
    BY <1>1, <1>2
  <2> QED BY <2>1, <2>2
<1> HIDE DEF len
<1>7. Len(buf) = 62 + len /\ Len(image) = 64 + len
  BY <1>1, <1>5, <1>6 DEF len
<1>8. image[1] = signature[1] /\ image[2] = signature[2]
  BY <1>5, <1>6, <1>7
<1>9. \A l \in 1 .. 62 + len : image[l + 2] = buf[l]
  <2>1. \A l \in 1 .. 62 + len : l + 2 \in 1 .. 2 + (62 + len) /\ ~(l + 2 <= 2) /\ l + 2 - 2 = l
    BY <1>5
  <2> QED BY <1>6, <1>7, <2>1
<1>10. From(SkippedWords) = binary
  <2>1. \A l \in 1 .. len : image[64 + l] = binary[l]
    <3>1. \A l \in 1 .. len : 62 + l \in 1 .. 62 + len /\ 62 + l + 2 = 64 + l
      BY <1>5
    <3> QED BY <1>1, <1>9, <3>1 DEF len
  <2>2. SubSeq(image, 64 + 1, 64 + Len(binary)) = binary
    BY <1>3, <2>1, Behind DEF len
  <2> QED BY <1>7, <2>2 DEF From, SkippedWords, len
<1>11. comp_sig(image, calc_sig(buf)) <=> ~ config.SIG_BROKEN
  BY <1>2, <1>8 DEF comp_sig, SignatureWords
<1>12. \A l \in 1 .. 62 : l \in 1 .. 62 + len
  BY <1>5
<1> QED BY <1>4, <1>9, <1>10, <1>11, <1>12 DEF HeaderWords

(* The chunk with new code: signature, size, code. *)
LEMMA CodeImage ==
    ASSUME HInv, Filed, kind = "payload"
    PROVE  /\ SubSeq(image, 5, 4 + Value(image[3]) \div 8) = binary
           /\ comp_sig(image, calc_sig(binary)) <=> ~ config.SIG_BROKEN
<1>1. /\ image = CopiedInto(signature \o buf) /\ signature = SignatureOf(binary) /\ buf = binary
      /\ binary \in Seq(Word) /\ 8 * Len(binary) \in Small
      /\ config \in [SECURITY : BOOLEAN, SIG_BROKEN : BOOLEAN]
  BY InputFacts DEF HInv, Tools, Input, Filed, Written
<1> DEFINE len == Len(binary)
<1> DEFINE size == Number(8 * len)
<1> DEFINE S == Word \union {signature[1], signature[2]}
<1> DEFINE head == << signature[1], signature[2] >> \o << size, Zero >>
<1>2. /\ signature \in Seq({signature[1], signature[2]}) /\ Len(signature) = 2
      /\ comp_sig(signature, calc_sig(binary)) <=> ~ config.SIG_BROKEN
  BY <1>1, SignatureMatches
<1>3. signature \in Seq(S) /\ binary \in Seq(S)
  <2>1. {signature[1], signature[2]} \subseteq S /\ Word \subseteq S
    OBVIOUS
  <2> HIDE DEF S
  <2> QED BY <1>1, <1>2, <2>1, SeqMonotonic
<1>4. size \in HeaderWord /\ Value(size) = 8 * len /\ Zero \in HeaderWord
  BY <1>1, NumberValue, ZeroWord
<1>5. size \in S /\ Zero \in S /\ signature[1] \in S /\ signature[2] \in S
  BY <1>4 DEF Word
<1> HIDE DEF S, size
<1>6. len \in Nat
  BY <1>1, LenProperties
<1> HIDE DEF len
<1>7. /\ signature \o binary \in Seq(S) /\ Len(signature \o binary) = 2 + len
      /\ \A i \in 1 .. 2 + len : (signature \o binary)[i] = IF i <= 2 THEN signature[i] ELSE binary[i - 2]
  <2>1. /\ signature \o binary \in Seq(S)
        /\ Len(signature \o binary) = Len(signature) + Len(binary)
        /\ \A i \in 1 .. Len(signature) + Len(binary) :
              (signature \o binary)[i] = IF i <= Len(signature) THEN signature[i] ELSE binary[i - Len(signature)]
    BY <1>3, ConcatProperties
  <2> QED BY <1>2, <2>1 DEF len
<1>8. SubSeq(signature \o binary, 1, 2) = << signature[1], signature[2] >>
  <2> DEFINE first == << signature[1], signature[2] >>
  <2>1. first \in Seq(S) /\ Len(first) = 2 /\ \A l \in 1 .. 2 : first[l] = signature[l]
    BY <1>5
  <2> HIDE DEF first
  <2>2. \A l \in 1 .. 2 : (signature \o binary)[0 + l] = first[l]
    <3>1. \A l \in 1 .. 2 : l \in 1 .. 2 + len /\ l <= 2 /\ 0 + l = l
      BY <1>6
    <3> QED BY <1>7, <2>1, <3>1
  <2> DEFINE zero == 0
  <2> DEFINE both == signature \o binary
  <2>3. zero \in Nat /\ \A l \in 1 .. Len(first) : both[zero + l] = first[l]
    BY <2>1, <2>2
  <2>4. zero + 1 = 1 /\ zero + Len(first) = 2
    BY <2>1
  <2> HIDE DEF zero, both
  <2>5. SubSeq(both, zero + 1, zero + Len(first)) = first
    BY <2>1, <2>3, Behind
  <2> QED BY <2>4, <2>5 DEF first, both
<1>9. SubSeq(signature \o binary, 3, Len(signature \o binary)) = binary
  <2>1. SubSeq(signature \o binary, 2 + 1, Len(signature \o binary)) = binary
    BY <1>2, <1>3, BehindPrefix
  <2> QED BY <2>1
<1>10. image = head \o binary
  <2>1. 8 * (Len(signature \o binary) - 2) = 8 * len
    BY <1>6, <1>7
  <2>2. image = CopiedInto(signature \o binary)
    BY <1>1
  <2>3. CopiedInto(signature \o binary) =
            SubSeq(signature \o binary, 1, 2) \o << Number(8 * (Len(signature \o binary) - 2)), Zero >>
                \o SubSeq(signature \o binary, 3, Len(signature \o binary))
    BY DEF CopiedInto, SignatureWords
  <2> QED BY <1>8, <1>9, <2>1, <2>2, <2>3 DEF size
<1>11. /\ head \in Seq(S) /\ Len(head) = 4
       /\ head[1] = signature[1] /\ head[2] = signature[2] /\ head[3] = size
  <2> DEFINE first == << signature[1], signature[2] >>
  <2> DEFINE second == << size, Zero >>
  <2>1. /\ first \in Seq(S) /\ Len(first) = 2 /\ first[1] = signature[1] /\ first[2] = signature[2]
        /\ second \in Seq(S) /\ Len(second) = 2 /\ second[1] = size
    BY <1>5
  <2> HIDE DEF first, second
  <2>2. /\ first \o second \in Seq(S) /\ Len(first \o second) = Len(first) + Len(second)
        /\ \A i \in 1 .. Len(first) + Len(second) :
              (first \o second)[i] = IF i <= Len(first) THEN first[i] ELSE second[i - Len(first)]
    BY <2>1, ConcatProperties
  <2> DEFINE both == first \o second
  <2> HIDE DEF both
  <2>3. /\ both \in Seq(S) /\ Len(both) = 4
        /\ \A i \in 1 .. 4 : both[i] = IF i <= 2 THEN first[i] ELSE second[i - 2]
    BY <2>1, <2>2 DEF both
  <2>4. both[1] = signature[1] /\ both[2] = signature[2] /\ both[3] = size
    BY <2>1, <2>3
  <2> QED BY <2>3, <2>4 DEF both, first, second
<1> HIDE DEF head
<1>12. \A i \in 1 .. 4 + len : image[i] = IF i <= 4 THEN head[i] ELSE binary[i - 4]
  <2>1. \A i \in 1 .. Len(head) + Len(binary) :
              (head \o binary)[i] = IF i <= Len(head) THEN head[i] ELSE binary[i - Len(head)]
    BY <1>3, <1>11, ConcatProperties
  <2> QED BY <1>10, <1>11, <2>1 DEF len
<1>13. image[1] = signature[1] /\ image[2] = signature[2] /\ image[3] = size
  BY <1>6, <1>11, <1>12
<1>14. SubSeq(image, 5, 4 + len) = binary
  <2>1. \A l \in 1 .. len : image[4 + l] = binary[l]
    <3>1. \A l \in 1 .. len : 4 + l \in 1 .. 4 + len /\ ~(4 + l <= 4) /\ 4 + l - 4 = l
      BY <1>6
    <3> QED BY <1>12, <3>1
  <2>2. SubSeq(image, 4 + 1, 4 + Len(binary)) = binary
    BY <1>3, <2>1, Behind DEF len
  <2> QED BY <2>2 DEF len
<1>15. Value(image[3]) \div 8 = len
  <2>1. (8 * len) \div 8 = len
    BY <1>6
  <2> QED BY <1>4, <1>13, <2>1
<1>16. comp_sig(image, calc_sig(binary)) <=> ~ config.SIG_BROKEN
  BY <1>2, <1>13 DEF comp_sig, SignatureWords
<1> QED BY <1>14, <1>15, <1>16

-----------------------------------------------------------------------------
(* The words stay what they are while the monitor reads them. *)
LEMMA ReadingKept ==
    ASSUME HInv, Filed, step' \in {"parse", "verify", "load", "refused", "started"},
           UNCHANGED <<config, kind, binary, sections, buf, signature, image>>,
           step' \in {"parse", "verify", "load"} => kind = "app"
    PROVE  Input' /\ Tools' /\ Filed'
<1>1. Filed' /\ Written' /\ Whole' /\ Whole
  BY DEF Filed, Written, Whole
<1>2. Input'
  BY DEF HInv, Input
<1>3. Tools'
  <2>1. signature' = SignatureOf(buf)
    BY <1>1 DEF HInv, Tools, Filed
  <2>2. image' = IF kind = "app" THEN signature' \o buf ELSE CopiedInto(signature' \o buf)
    BY DEF HInv, Tools
  <2> QED BY <1>1, <2>1, <2>2, ToolsKept DEF HInv
<1> QED BY <1>1, <1>2, <1>3

(* The word at which the monitor is begins the next entry, or is zero when *)
(* it has read them all.                                                   *)
LEMMA AtNext ==
    ASSUME HInv, step = "parse"
    PROVE  \E n \in 0 .. Len(sections) :
              /\ proc = Items(n) /\ p = 3 + 4 * n /\ n # MaxEntries /\ Len(proc) = n
              /\ n = Len(sections) => image[p] = Zero
              /\ n < Len(sections) =>
                    /\ n + 1 \in DOMAIN sections
                    /\ \A v \in 1 .. 4 : image[p + (v - 1)] = Entry(sections[n + 1])[v]
<1>1. PICK n \in 0 .. Len(sections) : proc = Items(n) /\ p = 3 + 4 * n
  BY DEF HInv, Reading
<1>2. kind = "app" /\ Filed /\ Whole
  BY DEF HInv, Input, Filed, Written, Whole
<1>3. /\ sections \in Seq(Names) /\ Len(sections) \in 0 .. 7 /\ IsHeader(buf)
      /\ \A l \in 1 .. 62 : image[l + 2] = buf[l]
  BY <1>2, InputFacts, AppImage DEF HInv, Tools, HeaderWords
<1> DEFINE len == Len(sections)
<1>4. len \in 0 .. 7 /\ n \in 0 .. len /\ DOMAIN sections = 1 .. len
  BY <1>3, LenProperties
<1> HIDE DEF len
<1>5. n # MaxEntries /\ n \in Nat
  BY <1>4 DEF MaxEntries
<1>6. Len(proc) = n
  BY <1>1, <1>5 DEF Items
<1>7. ASSUME n = len PROVE image[p] = Zero
  <2>1. 4 * n + 1 \in 4 * len + 1 .. 62 /\ 4 * n + 1 \in 1 .. 62 /\ 3 + 4 * n = (4 * n + 1) + 2
    BY <1>4, <1>7
  <2>2. buf[4 * n + 1] = Zero
    BY <1>3, <2>1 DEF IsHeader, HeaderWords, len
  <2> QED BY <1>1, <1>3, <2>1, <2>2
<1>8. ASSUME n < len PROVE /\ n + 1 \in DOMAIN sections
                           /\ \A v \in 1 .. 4 : image[p + (v - 1)] = Entry(sections[n + 1])[v]
  <2>1. n + 1 \in 1 .. len
    BY <1>4, <1>8
  <2>2. ASSUME NEW v \in 1 .. 4 PROVE image[p + (v - 1)] = Entry(sections[n + 1])[v]
    <3>1. 4 * n + v \in 1 .. 62 /\ p + (v - 1) = (4 * n + v) + 2 /\ 4 * (n + 1) - 4 + v = 4 * n + v
      BY <1>1, <1>4, <1>8
    <3>2. buf[4 * (n + 1) - 4 + v] = Entry(sections[n + 1])[v]
      BY <1>3, <2>1 DEF IsHeader, FirstEntries, len
    <3> QED BY <1>3, <3>1, <3>2
  <2> QED BY <1>4, <2>1, <2>2
<1> QED BY <1>1, <1>5, <1>6, <1>7, <1>8 DEF len

(* One entry more is read. *)
LEMMA StepReadEntry ==
    ASSUME HInv, ReadEntry
    PROVE  HInv'
<1> DEFINE entry(n) == [section |-> ReadName(n, image[p]), offset |-> Value(image[p + 1]),
                        size |-> Value(image[p + 2]), rwx |-> Value(image[p + 3]) % 256]
<1>1. /\ UNCHANGED <<config, kind, binary, sections, buf, signature, image, memory, step>>
      /\ step = "parse" /\ image[p] # Zero /\ p' = p + 4
      /\ proc' = Append(proc, entry(Len(proc) + 1))
  BY DEF ReadEntry
<1>2. PICK n \in 0 .. Len(sections) :
              /\ proc = Items(n) /\ p = 3 + 4 * n /\ n # MaxEntries /\ Len(proc) = n
              /\ n = Len(sections) => image[p] = Zero
              /\ n < Len(sections) =>
                    /\ n + 1 \in DOMAIN sections
                    /\ \A v \in 1 .. 4 : image[p + (v - 1)] = Entry(sections[n + 1])[v]
  BY <1>1, AtNext
<1>3. sections \in Seq(Names) /\ Len(sections) \in 0 .. 7
  BY InputFacts DEF HInv
<1>4. n < Len(sections)
  <2> DEFINE len == Len(sections)
  <2>1. len \in 0 .. 7 /\ n \in 0 .. len /\ n # len
    BY <1>1, <1>2, <1>3
  <2> HIDE DEF len
  <2>2. n < len
    BY <2>1
  <2> QED BY <2>2 DEF len
<1>5. n \in Nat /\ n + 1 \in 0 .. Len(sections) /\ n + 1 # MaxEntries /\ p + 0 = p
  <2> DEFINE len == Len(sections)
  <2>1. len \in 0 .. 7 /\ n \in 0 .. len /\ n < len
    BY <1>3, <1>4
  <2> HIDE DEF len
  <2>2. n \in Nat /\ n + 1 \in 0 .. len /\ n + 1 # 8 /\ p + 0 = p
    BY <1>2, <2>1
  <2> QED BY <2>2 DEF len, MaxEntries
<1>6. sections[n + 1] \in Names
  BY <1>2, <1>3, <1>4, ElementOfSeq, LenProperties
<1> DEFINE e == Entry(sections[n + 1])
<1>7. Item(n + 1) = [section |-> ReadName(n + 1, e[1]), offset |-> Value(e[2]), size |-> Value(e[3]), rwx |-> Value(e[4]) % 256]
  <2>1. n + 1 \in Nat
    BY <1>5
  <2> QED BY <1>5, <1>6, <2>1, EntryRead
<1> HIDE DEF e
<1>8. image[p] = e[1] /\ image[p + 1] = e[2] /\ image[p + 2] = e[3] /\ image[p + 3] = e[4]
  <2>1. \A v \in 1 .. 4 : image[p + (v - 1)] = e[v]
    BY <1>2, <1>4 DEF e
  <2>2. image[p + (1 - 1)] = e[1] /\ image[p + (2 - 1)] = e[2] /\ image[p + (3 - 1)] = e[3] /\ image[p + (4 - 1)] = e[4]
    BY <2>1
  <2> QED BY <1>5, <2>2
<1>9. entry(n + 1) = Item(n + 1)
  BY <1>7, <1>8
<1> HIDE DEF entry
<1>10. proc' = Items(n + 1)
  <2>1. proc' = Append(Items(n), Item(n + 1))
    BY <1>1, <1>2, <1>9
  <2>2. Append(Items(n), Item(n + 1)) = Items(n + 1)
    BY <1>5 DEF Items
  <2> QED BY <2>1, <2>2
<1>11. p' = 3 + 4 * (n + 1)
  BY <1>1, <1>2, <1>5
<1>12. Filed /\ kind = "app"
  BY <1>1 DEF HInv, Input, Filed, Written, Whole
<1>13. Input' /\ Tools' /\ Filed'
  BY <1>1, <1>12, ReadingKept
<1>14. Reading'
  <2>1. Items(n + 1)' = Items(n + 1)
    BY <1>1, EntriesKept
  <2>2. proc' = Items(n + 1)'
    BY <1>10, <2>1
  <2>3. (\E m \in 0 .. Len(sections) : proc = Items(m) /\ p = 3 + 4 * m)'
    BY <1>1, <1>5, <1>11, <2>2
  <2> QED BY <1>1, <1>13, <2>3 DEF Reading
<1> QED BY <1>13, <1>14 DEF HInv

(* The monitor has read all entries. *)
LEMMA StepReadDone ==
    ASSUME HInv, ReadDone
    PROVE  HInv'
<1>1. /\ UNCHANGED <<config, kind, binary, sections, buf, signature, image, proc, p, memory>>
      /\ step = "parse" /\ (Len(proc) = MaxEntries \/ image[p] = Zero)
      /\ step' = IF config.SECURITY THEN "verify" ELSE "load"
  BY DEF ReadDone
<1>2. PICK n \in 0 .. Len(sections) :
              /\ proc = Items(n) /\ p = 3 + 4 * n /\ n # MaxEntries /\ Len(proc) = n
              /\ n = Len(sections) => image[p] = Zero
              /\ n < Len(sections) =>
                    /\ n + 1 \in DOMAIN sections
                    /\ \A v \in 1 .. 4 : image[p + (v - 1)] = Entry(sections[n + 1])[v]
  BY <1>1, AtNext
<1>3. sections \in Seq(Names) /\ Len(sections) \in 0 .. 7
  BY InputFacts DEF HInv
<1>4. n \in Nat
  BY <1>2, <1>3
<1>5. ~(n < Len(sections))
  <2> SUFFICES ASSUME n < Len(sections) PROVE FALSE
    OBVIOUS
  <2>1. sections[n + 1] \in Names
    BY <1>2, <1>3, ElementOfSeq, LenProperties
  <2>2. Entry(sections[n + 1])[1] # Zero
    <3>1. n + 1 \in Nat /\ 1 # MaxEntries
      BY <1>4 DEF MaxEntries
    <3> QED BY <2>1, <3>1, EntryRead
  <2>3. image[p + (1 - 1)] = Entry(sections[n + 1])[1]
    BY <1>2
  <2>4. p + (1 - 1) = p
    BY <1>2, <1>4
  <2> QED BY <1>1, <1>2, <2>2, <2>3, <2>4
<1>6. n = Len(sections)
  <2> DEFINE len == Len(sections)
  <2>1. len \in 0 .. 7 /\ n \in 0 .. len /\ ~(n < len)
    BY <1>3, <1>5
  <2> HIDE DEF len
  <2>2. n = len
    BY <2>1
  <2> QED BY <2>2 DEF len
<1>7. Filed /\ kind = "app" /\ step' \in {"verify", "load"}
  BY <1>1 DEF HInv, Input, Filed, Written, Whole
<1>8. Input' /\ Tools' /\ Filed'
  BY <1>1, <1>7, ReadingKept
<1>9. Reading'
  <2>1. Items(Len(sections))' = Items(Len(sections))
    BY <1>1, EntriesKept
  <2>2. step' = "verify" => config'.SECURITY
    BY <1>1
  <2>3. step' = "load" => ~ config'.SECURITY
    BY <1>1
  <2>4. step' \in {"verify", "load"}
    BY <1>1
  <2> QED BY <1>1, <1>2, <1>6, <1>8, <2>1, <2>2, <2>3, <2>4 DEF Reading
<1> QED BY <1>8, <1>9 DEF HInv

(* Verified is what was signed. *)
LEMMA StepVerify ==
    ASSUME HInv, Verify
    PROVE  HInv'
<1>1. /\ UNCHANGED <<config, kind, binary, sections, buf, signature, image, proc, p, memory>>
      /\ step = "verify"
      /\ step' = IF comp_sig(image, calc_sig(From(SignatureWords))) THEN "load" ELSE "refused"
  BY DEF Verify
<1>2. Filed /\ kind = "app" /\ config.SECURITY /\ step' \in {"load", "refused"}
  BY <1>1 DEF HInv, Input, Filed, Written, Whole, Reading
<1>3. IF config.SIG_BROKEN THEN step' = "refused" ELSE step' = "load"
  <2>1. From(SignatureWords) = buf /\ (comp_sig(image, calc_sig(buf)) <=> ~ config.SIG_BROKEN)
    BY <1>2, AppImage
  <2> QED BY <1>1, <2>1
<1>4. Input' /\ Tools' /\ Filed'
  BY <1>1, <1>2, ReadingKept
<1>5. Reading'
  <2>1. Items(Len(sections))' = Items(Len(sections))
    BY <1>1, EntriesKept
  <2>2. proc = Items(Len(sections))
    BY <1>1, <1>2 DEF HInv, Reading
  <2> QED BY <1>1, <1>2, <1>3, <1>4, <2>1, <2>2 DEF Reading
<1> QED BY <1>4, <1>5 DEF HInv

LEMMA StepLoad ==
    ASSUME HInv, load_app
    PROVE  HInv'
<1>1. /\ UNCHANGED <<config, kind, binary, sections, buf, signature, image, proc, p>>
      /\ step = "load" /\ step' = "started" /\ memory' = From(SkippedWords)
  BY DEF load_app
<1>2. Filed /\ kind = "app"
  BY <1>1 DEF HInv, Input, Filed, Written, Whole
<1>3. memory' = binary
  BY <1>1, <1>2, AppImage
<1>4. Input' /\ Tools' /\ Filed'
  BY <1>1, <1>2, ReadingKept
<1>5. Reading'
  <2>1. Items(Len(sections))' = Items(Len(sections))
    BY <1>1, EntriesKept
  <2>2. proc = Items(Len(sections)) /\ (config.SECURITY => ~ config.SIG_BROKEN)
    BY <1>1, <1>2 DEF HInv, Reading
  <2> QED BY <1>1, <1>3, <1>4, <2>1, <2>2 DEF Reading
<1> QED BY <1>4, <1>5 DEF HInv

LEMMA StepVerifyCode ==
    ASSUME HInv, VerifyCode
    PROVE  HInv'
<1> DEFINE code == SubSeq(image, 5, 4 + Value(image[3]) \div 8)
<1>1. /\ UNCHANGED <<config, kind, binary, sections, buf, signature, image, proc, p>>
      /\ step = "verify code"
      /\ IF config.SECURITY => comp_sig(image, calc_sig(code))
         THEN memory' = code /\ step' = "started"
         ELSE step' = "refused" /\ UNCHANGED memory
  BY DEF VerifyCode
<1>2. Filed /\ kind = "payload" /\ step' \in {"started", "refused"}
  BY <1>1 DEF HInv, Input, Filed, Written, Whole
<1>3. code = binary /\ (comp_sig(image, calc_sig(binary)) <=> ~ config.SIG_BROKEN)
  BY <1>2, CodeImage
<1>4. config \in [SECURITY : BOOLEAN, SIG_BROKEN : BOOLEAN]
  BY DEF HInv, Input
<1> HIDE DEF code
<1>5. IF config.SECURITY /\ config.SIG_BROKEN THEN step' = "refused" ELSE step' = "started" /\ memory' = binary
  BY <1>1, <1>3
<1>6. Input' /\ Tools' /\ Filed'
  BY <1>1, <1>2, ReadingKept
<1>7. Reading'
  BY <1>1, <1>2, <1>4, <1>5, <1>6 DEF Reading
<1> QED BY <1>6, <1>7 DEF HInv

-----------------------------------------------------------------------------
LEMMA Unchanged ==
    ASSUME HInv, UNCHANGED vars
    PROVE  HInv'
<1>1. UNCHANGED <<config, kind, binary, sections, buf, signature, image, proc, p, memory, step>>
  BY DEF vars
<1>2. Input'
  BY <1>1 DEF HInv, Input
<1>3. /\ (Whole' <=> Whole) /\ (Written' <=> Written) /\ (Filed' <=> Filed)
      /\ (IsHeader(buf)' <=> IsHeader(buf)) /\ \A n : FirstEntries(buf, n)' <=> FirstEntries(buf, n)
  BY <1>1, EntriesKept DEF Whole, Written, Filed
<1>4. SignatureOf(buf)' = SignatureOf(buf) /\ CopiedInto(signature \o buf)' = CopiedInto(signature \o buf)
      /\ Word' = Word /\ \A n : Items(n)' = Items(n)
  BY <1>1, EntriesKept DEF SignatureOf, CopiedInto, Word
<1>5. Tools'
  BY <1>1, <1>3, <1>4 DEF HInv, Tools
<1>6. Reading'
  BY <1>1, <1>3, <1>4 DEF HInv, Reading
<1> QED BY <1>2, <1>5, <1>6 DEF HInv

LEMMA NextHInv == HInv /\ [Next]_vars => HInv'
<1> SUFFICES ASSUME HInv, [Next]_vars PROVE HInv'
  OBVIOUS
<1>1. CASE OpenFails \/ Open
  BY <1>1, StepOpen
<1>2. CASE ReadCode
  BY <1>2, StepReadCode
<1>3. CASE WriteEntry
  BY <1>3, StepWriteEntry
<1>4. CASE WritePad
  BY <1>4, StepWritePad
<1>5. CASE ReadBinary
  BY <1>5, StepReadBinary
<1>6. CASE Sign \/ WriteFile \/ WriteCode
  BY <1>6, StepSign
<1>7. CASE ReadEntry
  BY <1>7, StepReadEntry
<1>8. CASE ReadDone
  BY <1>8, StepReadDone
<1>9. CASE Verify
  BY <1>9, StepVerify
<1>10. CASE load_app
  BY <1>10, StepLoad
<1>11. CASE VerifyCode
  BY <1>11, StepVerifyCode
<1>12. CASE UNCHANGED vars
  BY <1>12, Unchanged
<1> QED BY <1>1, <1>2, <1>3, <1>4, <1>5, <1>6, <1>7, <1>8, <1>9, <1>10, <1>11, <1>12 DEF Next

LEMMA HInvHolds == Spec => []HInv
  BY InitHInv, NextHInv, PTL DEF Spec

(* The monitor reads the entries that the tool has written, all of them    *)
(* and nothing of the padding or the binary, for any sections that an ELF  *)
(* file has, any layout of them and any binary (app_format.c 72-82,        *)
(* parse_executable).                                                      *)
THEOREM HeaderRoundTrip == Spec => []RoundTrip
<1>1. HInv => RoundTrip
  <2> SUFFICES ASSUME HInv, kind = "app", step \in {"verify", "load", "refused", "started"}
               PROVE  proc = [i \in DOMAIN sections |->
                                [section |-> sections[i], offset |-> Layout[sections[i]].offset,
                                 size |-> Layout[sections[i]].size, rwx |-> Layout[sections[i]].rwx]]
    BY DEF RoundTrip
  <2>1. proc = Items(Len(sections)) /\ DOMAIN sections = 1 .. Len(sections)
    BY InputFacts, LenProperties DEF HInv, Reading
  <2> QED BY <2>1 DEF Items, Item
<1> QED BY <1>1, HInvHolds, PTL

(* An app or new code starts unless security is on and its signature was   *)
(* broken, and is refused only then: the monitor computes the signature    *)
(* over exactly the bytes that the tool signed (app_format.c, monitor.c,   *)
(* tests 0 and 7 of README.md).                                            *)
THEOREM StartsExactlyIfSigned == Spec => []StartsIfSigned
<1>1. HInv => StartsIfSigned
  BY DEF HInv, Reading, StartsIfSigned
<1> QED BY <1>1, HInvHolds, PTL

(* What starts is the binary that was given to the tool, from its first to *)
(* its last word (load_app, the offset 0x20 of new code).                  *)
THEOREM StartsWhatWasLinked == Spec => []LoadedAsLinked
<1>1. HInv => LoadedAsLinked
  BY DEF HInv, Reading, LoadedAsLinked
<1> QED BY <1>1, HInvHolds, PTL
=============================================================================
