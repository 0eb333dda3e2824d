----------------------------- MODULE AppHeader -----------------------------
(***************************************************************************)
(* From the linked app to the running one: getsections.py and app_format.c *)
(* put a header and a signature in front of the binary, and the monitor    *)
(* parses the header, verifies the signature and copies the binary.        *)
(* app_format_sig.c signs new code in the same way for the app to carry.   *)
(* Files and memory are sequences of words, a word of the header is a      *)
(* sequence of eight bytes, lowest first.                                  *)
(***************************************************************************)
EXTENDS Integers, Sequences

CONSTANTS
    Names,      \* the section names the tool looks for, as sequences of bytes
    Found,      \* the sequences of them that ELF files have
    Layout,     \* Layout[name]: offset, size and permissions of a section
    Binaries    \* the words of binaries, the empty sequence for a missing file

VARIABLES
    config,    \* SECURITY and SIG_BROKEN of config.h
    kind,      \* "app", or "payload" for new code
    binary,    \* what the tool is given
    sections,  \* the names of the sections that the ELF file has
    buf,       \* app_buffer of app_format.c, app_bin of app_format_sig.c
    signature, \* the one that the tool computes
    image,     \* app_bin of the monitor, or the chunk with the new code
    proc, p,   \* the entries the monitor has read, and its position
    memory,    \* what the app may execute
    step       \* how far tool and monitor are

vars == <<config, kind, binary, sections, buf, signature, image, proc, p, memory, step>>

HeaderWords == 62    \* sections_size / sectioninfo_size
SignatureWords == 2  \* SIGNATURE_SIZE / 8
SkippedWords == 64   \* HEADER_SIZE / 8
MaxEntries == 8      \* struct process: header[8]
Zero == [b \in 1 .. 8 |-> 0]

(* A name is one word, all sizes and addresses fit in three bytes, the     *)
(* permissions (1, 3 or 5) in the byte they are read into, and the tool    *)
(* looks for six sections: fewer than the monitor has room for.  Code is   *)
(* not shorter than the block of 16 bytes that aes128_cbc_mac reads first, *)
(* whatever the length.                                                    *)
Small == {n \in Nat : n \div 65536 < 256}
ASSUME HeaderAssumption ==
    /\ \A n \in Names : n \in Seq(1 .. 255) /\ Len(n) \in 1 .. 8
    /\ \A n \in Names : {Layout[n].offset, Layout[n].size} \subseteq Small /\ Layout[n].rwx \in 0 .. 255
    /\ \A s \in Found : s \in Seq(Names) /\ Len(s) < MaxEntries
    /\ \A b \in Binaries : b \in Seq({b[i] : i \in DOMAIN b}) /\ 8 * Len(b) \in Small /\ Len(b) # 1

(* A number, from its line to memory: no value of a 64K app needs more     *)
(* than three bytes.                                                       *)
Number(n) == [b \in 1 .. 8 |-> CASE b = 1 -> n % 256
                                 [] b = 2 -> (n \div 256) % 256
                                 [] b = 3 -> n \div 65536
                                 [] OTHER -> 0]
Value(w) == w[1] + 256 * w[2] + 65536 * w[3]

(* A name is printed as one number, its first byte the lowest. *)
NameWord(name) == [b \in 1 .. 8 |-> IF b <= Len(name) THEN name[b] ELSE 0]

Entry(name) ==
    << NameWord(name), Number(Layout[name].offset), Number(Layout[name].size), Number(Layout[name].rwx) >>

(* A signature tells apart what aes128_cbc_mac mixes in: the number of     *)
(* blocks, the first block and every other but the last (MacDetermined in  *)
(* Aes_proofs).                                                            *)
Blocks(words) == (Len(words) + 1) \div 2
calc_sig(words) ==
    LET mixed == SubSeq(words, 1, IF Blocks(words) = 1 THEN 2 ELSE 2 * (Blocks(words) - 1))
    IN << << "first", Blocks(words), mixed >>, << "second", Blocks(words), mixed >> >>

Init ==
    /\ config \in [SECURITY : BOOLEAN, SIG_BROKEN : BOOLEAN]
    /\ kind \in {"app", "payload"}
    /\ binary \in Binaries
    /\ sections \in IF kind = "app" THEN Found ELSE {<< >>}
    /\ buf = << >> /\ signature = << >> /\ image = << >>
    /\ proc = << >> /\ p = 1 + SignatureWords
    /\ memory = << >>
    /\ step = "open"

(* Without its input a tool leaves an empty file behind. *)
OpenFails ==
    /\ step = "open" /\ binary = << >> /\ step' = "no file"
    /\ UNCHANGED <<config, kind, binary, sections, buf, signature, image, proc, p, memory>>

Open ==
    /\ step = "open" /\ kind = "app" /\ binary # << >> /\ step' = "header"
    /\ UNCHANGED <<config, kind, binary, sections, buf, signature, image, proc, p, memory>>

(* The signing tool takes the code as it is. *)
ReadCode ==
    /\ step = "open" /\ kind = "payload" /\ binary # << >> /\ step' = "sign"
    /\ buf' = binary
    /\ UNCHANGED <<config, kind, binary, sections, signature, image, proc, p, memory>>

(* Four lines of the section file. *)
WriteEntry ==
    /\ step = "header"
    /\ Len(buf) < 4 * Len(sections) /\ Len(buf) < HeaderWords
    /\ buf' = buf \o Entry(sections[Len(buf) \div 4 + 1])
    /\ UNCHANGED <<config, kind, binary, sections, signature, image, proc, p, memory, step>>

(* Mutant: what is left of the buffer is not cleared. *)
WritePadNot ==
    /\ step = "header" /\ Len(buf) >= 4 * Len(sections) /\ step' = "read"
    /\ buf' = buf \o [w \in 1 .. HeaderWords - Len(buf) |-> Number(255)]
    /\ UNCHANGED <<config, kind, binary, sections, signature, image, proc, p, memory>>

WritePad ==
    /\ step = "header" /\ Len(buf) >= 4 * Len(sections) /\ step' = "read"
    /\ buf' = buf \o [w \in 1 .. HeaderWords - Len(buf) |-> Zero]
    /\ UNCHANGED <<config, kind, binary, sections, signature, image, proc, p, memory>>

ReadBinary ==
    /\ step = "read" /\ step' = "sign"
    /\ buf' = buf \o binary
    /\ UNCHANGED <<config, kind, binary, sections, signature, image, proc, p, memory>>

(* SIG_BROKEN overwrites the first two bytes, in both tools. *)
SignatureOf(words) ==
    IF config.SIG_BROKEN THEN << << "broken" >>, calc_sig(words)[2] >> ELSE calc_sig(words)

(* Mutant: the signature is that of the binary alone. *)
SignBinary ==
    /\ step = "sign" /\ step' = "write" /\ signature' = SignatureOf(binary)
    /\ UNCHANGED <<config, kind, binary, sections, buf, image, proc, p, memory>>

Sign ==
    /\ step = "sign" /\ step' = "write" /\ signature' = SignatureOf(buf)
    /\ UNCHANGED <<config, kind, binary, sections, buf, image, proc, p, memory>>

(* The file is built into the monitor. *)
WriteFile ==
    /\ step = "write" /\ kind = "app" /\ step' = "parse"
    /\ image' = signature \o buf
    /\ UNCHANGED <<config, kind, binary, sections, buf, signature, proc, p, memory>>

(* Test 7 carries the file with the size in bytes put behind the signature. *)
CopiedInto(file) ==
    SubSeq(file, 1, SignatureWords) \o << Number(8 * (Len(file) - SignatureWords)), Zero >>
        \o SubSeq(file, SignatureWords + 1, Len(file))

WriteCode ==
    /\ step = "write" /\ kind = "payload" /\ step' = "verify code"
    /\ image' = CopiedInto(signature \o buf)
    /\ UNCHANGED <<config, kind, binary, sections, buf, signature, proc, p, memory>>

(* The name of an entry ends at its first zero byte.  The eighth entry     *)
(* gets no name: the test that is to terminate the string looks at i, the  *)
(* number of the entry.                                                    *)
ReadName(i, w) ==
    IF i = MaxEntries THEN << >>
    ELSE SubSeq(w, 1, CHOOSE n \in 0 .. 8 : (n = 8 \/ w[n + 1] = 0) /\ \A b \in 1 .. n : w[b] # 0)

(* The permissions are kept in a byte. *)
ReadEntry ==
    /\ step = "parse" /\ Len(proc) < MaxEntries /\ image[p] # Zero
    /\ proc' = Append(proc, [section |-> ReadName(Len(proc) + 1, image[p]), offset |-> Value(image[p + 1]),
                             size |-> Value(image[p + 2]), rwx |-> Value(image[p + 3]) % 256])
    /\ p' = p + 4
    /\ UNCHANGED <<config, kind, binary, sections, buf, signature, image, memory, step>>

ReadDone ==
    /\ step = "parse" /\ (Len(proc) = MaxEntries \/ image[p] = Zero)
    /\ step' = IF config.SECURITY THEN "verify" ELSE "load"
    /\ UNCHANGED <<config, kind, binary, sections, buf, signature, image, proc, p, memory>>

comp_sig(sig1, sig2) == \A n \in 1 .. SignatureWords : sig1[n] = sig2[n]
From(n) == SubSeq(image, n + 1, Len(image))

Verify ==
    /\ step = "verify"
    /\ step' = IF comp_sig(image, calc_sig(From(SignatureWords))) THEN "load" ELSE "refused"
    /\ UNCHANGED <<config, kind, binary, sections, buf, signature, image, proc, p, memory>>

(* Mutant: only the header is skipped, not the signature. *)
load_appHeaderOnly ==
    /\ step = "load" /\ step' = "started"
    /\ memory' = From(HeaderWords)
    /\ UNCHANGED <<config, kind, binary, sections, buf, signature, image, proc, p>>

load_app ==
    /\ step = "load" /\ step' = "started"
    /\ memory' = From(SkippedWords)
    /\ UNCHANGED <<config, kind, binary, sections, buf, signature, image, proc, p>>

(* The size is the word behind the signature, the code begins at 0x20.     *)
VerifyCode ==
    /\ step = "verify code"
    /\ LET code == SubSeq(image, 5, 4 + Value(image[3]) \div 8)
       IN IF config.SECURITY => comp_sig(image, calc_sig(code))
          THEN memory' = code /\ step' = "started"
          ELSE step' = "refused" /\ UNCHANGED memory
    /\ UNCHANGED <<config, kind, binary, sections, buf, signature, image, proc, p>>

Next ==
    \/ OpenFails \/ Open \/ WriteEntry \/ WritePad \/ ReadBinary \/ ReadCode
    \/ Sign \/ WriteFile \/ WriteCode
    \/ ReadEntry \/ ReadDone \/ Verify \/ load_app \/ VerifyCode

Spec == Init /\ [][Next]_vars
-----------------------------------------------------------------------------
(* The monitor reads what the tools have written, no entry more and no     *)
(* entry less, whatever sections the app has: a first word of zero ends    *)
(* the header and an offset of zero (.text) does not (app_format.c 72-82,  *)
(* parse_executable).                                                      *)
RoundTrip ==
    kind = "app" /\ step \in {"verify", "load", "refused", "started"} =>
        proc = [i \in DOMAIN sections |->
                  [section |-> sections[i], offset |-> Layout[sections[i]].offset,
                   size |-> Layout[sections[i]].size, rwx |-> Layout[sections[i]].rwx]]

(* Tests 0 and 7 of README.md: app and new code start unless security is   *)
(* on and the signature broken.  The tools sign exactly the bytes that the *)
(* monitor later verifies.                                                 *)
StartsIfSigned ==
    /\ step = "started" => (config.SECURITY => ~ config.SIG_BROKEN)
    /\ step = "refused" => config.SECURITY /\ config.SIG_BROKEN

(* What starts is the binary that was linked, from its first to its last   *)
(* word: the sizes that tools and monitor have for signature and header    *)
(* fit together.                                                           *)
LoadedAsLinked == step = "started" => memory = binary
=============================================================================
