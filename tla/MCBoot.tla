------------------------------ MODULE MCBoot ------------------------------
(* Boot for TLC: what getsections.py may write in front of the app, any of *)
(* the sections it looks for, in its order and with its permissions.  Each *)
(* section is as pmp_compatible.lds lays it out or as it may be without    *)
(* that script: not a power of two, not at a multiple of its size, empty.  *)
(* Either all six are there, or at most one is packed.                     *)
EXTENDS BootToApp, Bitwise

MCSection(name, offset, size, rwx) == [name |-> name, offset |-> offset, size |-> size, rwx |-> rwx]
MCAligned ==
    << MCSection("text", 0, 8192, {"R", "X"}), MCSection("data", 8192, 8192, RW),
       MCSection("rodata", 16384, 8192, R), MCSection("bss", 24576, 8192, RW),
       MCSection("heap", 32768, 28672, R), MCSection("stack", 61440, 4096, RW) >>
MCPacked ==
    << MCSection("text", 0, 6016, {"R", "X"}), MCSection("data", 8448, 512, RW),
       MCSection("rodata", 16384, 4097, R), MCSection("bss", 24576, 0, RW),
       MCSection("heap", 32256, 28672, R), MCSection("stack", 61440, 4, RW) >>

MCHeader(f) ==
    LET present == SelectSeq(<<1, 2, 3, 4, 5, 6>>, LAMBDA i : f[i] # "absent") IN
    [n \in DOMAIN present |-> LET i == present[n] IN IF f[i] = "aligned" THEN MCAligned[i] ELSE MCPacked[i]]
MCApart(h) == \A i \in 1 .. Len(h) - 1 : h[i].offset + h[i].size <= h[i + 1].offset
MCFew(f) ==
    \/ \A i \in 1 .. 6 : f[i] # "absent"
    \/ \A i, l \in 1 .. 6 : f[i] = "packed" /\ f[l] = "packed" => i = l
MCHeaders ==
    {h \in {MCHeader(f) : f \in {g \in [1 .. 6 -> {"absent", "aligned", "packed"}] : MCFew(g)}} : MCApart(h)}

(* Napot is what the encoding and decoding of riscvpmpinv.py and           *)
(* riscvpmp.py return unchanged.                                           *)
RoundTrips(begin, size) ==
    LET addr == shiftR(begin | shiftR(size - 1, 1), 2) IN
    /\ begin = 4 * ((addr + 1) & addr)
    /\ begin + size = 4 * (((addr + 1) | addr) + 1)
ASSUME NapotIsRoundTrip == \A begin \in 0 .. 64, size \in 1 .. 33 : Napot(begin, size) <=> RoundTrips(begin, size)
=============================================================================
