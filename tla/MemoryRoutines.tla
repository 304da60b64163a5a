---- MODULE MemoryRoutines ----
(***************************************************************************)
(* src/memcpy.cpp, src/memmove.cpp and src/memset.cpp.  Memory is a function *)
(* from addresses to bytes; what is kept of the code is which bytes each     *)
(* access moves and in which order.                                          *)
(***************************************************************************)
EXTENDS Integers, Sequences, FiniteSetsExt, SequencesExt

(* n accesses of w bytes, the first one at offset at. *)
Accesses(at, n, w) == [i \in 1 .. n |-> [at |-> at + (i - 1) * w, width |-> w]]

(* The widest unit to whose boundary both addresses have the same, positive distance; 1 if none. *)
LeadUnit(dest, src) == Max({1} \cup {w \in {2, 4, 8} : dest % w # 0 /\ dest % w = src % w})

(* The units of the main loop.  After leading bytes it is 1, because the comparison that ends *)
(* their loop has moved destp on to an odd address.                                          *)
MainUnit(dest, src) ==
    IF LeadUnit(dest, src) > 1 THEN 1
    ELSE Max({w \in {1, 2, 4, 8} : dest % w = 0 /\ src % w = 0})

(* memcpy: bytes up to the boundary, units, bytes. *)
CopyAccesses(dest, src, n) ==
    LET unit == LeadUnit(dest, src)
        lead == Min({n, (unit - (dest % unit)) % unit})
        main == MainUnit(dest, src)
        many == (n - lead) \div main
    IN  Accesses(0, lead, 1) \o Accesses(lead, many, main)
            \o Accesses(lead + many * main, (n - lead) % main, 1)

(* One access: width bytes are read, then written. *)
Moved(mem, dest, src, width) ==
    [p \in DOMAIN mem |-> IF p \in dest .. dest + width - 1 THEN mem[src + p - dest] ELSE mem[p]]

Carried(mem, dest, src, accesses) ==
    LET after[k \in 0 .. Len(accesses)] ==
            IF k = 0 THEN mem
            ELSE Moved(after[k - 1], dest + accesses[k].at, src + accesses[k].at, accesses[k].width)
    IN  after[Len(accesses)]

MemCpy(mem, dest, src, n) == Carried(mem, dest, src, CopyAccesses(dest, src, n))

\* A variant that is memcpy.
MemMoveForward(mem, dest, src, n) == MemCpy(mem, dest, src, n)

MemMove(mem, dest, src, n) ==
    IF dest < src THEN MemCpy(mem, dest, src, n)
    ELSE Carried(mem, dest, src, Reverse(Accesses(0, n, 1)))

(* Byte k of c8 = c, c8 |= c8 << 8, c8 |= c8 << 16, c8 |= c8 << 32, for c from -256 to 255: *)
(* a negative c is extended by ones, which the shifted copies cannot clear.                  *)
PatternByte(c, k) == IF c >= 0 \/ k = 0 THEN c % 256 ELSE 255

(* memset: bytes up to a multiple of 8, words of the pattern, bytes. *)
MemSet(mem, dest, c, n) ==
    LET lead  == Min({n, (8 - (dest % 8)) % 8})
        words == 8 * ((n - lead) \div 8)
    IN  [p \in DOMAIN mem |->
            IF p \in dest + lead .. dest + lead + words - 1 THEN PatternByte(c, p % 8)
            ELSE IF p \in dest .. dest + n - 1 THEN c % 256
            ELSE mem[p]]

----
(* memmove moves all bytes as they were whatever the two ranges share, and memcpy does where *)
(* they share none, for every alignment; memset stores the low byte of c everywhere, if c is *)
(* a byte or -1.                                                                             *)
CopyAgrees(mem, dest, src, n) ==
    /\ MemMove(mem, dest, src, n) = Moved(mem, dest, src, n)
    /\ dest + n <= src \/ src + n <= dest => MemCpy(mem, dest, src, n) = Moved(mem, dest, src, n)

SetAgrees(mem, dest, c, n) ==
    MemSet(mem, dest, c, n) = [p \in DOMAIN mem |-> IF p \in dest .. dest + n - 1 THEN c % 256 ELSE mem[p]]

====
