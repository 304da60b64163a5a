---- MODULE ByteAccessProofs ----
(***************************************************************************)
(* What run bytes checks.  Byte access: for every block size, device and     *)
(* call, bytes outside the call's range never change, and a call that        *)
(* succeeds moved every byte.  Routines: memcpy, memmove and memset for every *)
(* alignment and length, the clock and baud divisors, the timer's reading,   *)
(* and the helpers on paths for every path.                                  *)
(***************************************************************************)
EXTENDS ByteAccess, Routines, NatSetInduction, SequenceTheorems, FiniteSetTheorems, TLAPS

-----------------------------------------------------------------------------
(* Byte access. *)


Working == stage \notin {"done", "failed", "stopped"}

(* Where the next access lies, and how much is left. *)
Place ==
    /\ DOMAIN buffer = 0 .. call.bytes - 1
    /\ Working => total + bytes = call.bytes
    /\ Working => lba + byte_offset = call.byte_offset + total
    /\ Working => lba % SD_BLOCK_SIZE = 0
    /\ stage \in {"start", "whole"} => total = 0
    /\ stage = "whole" => byte_offset = 0 /\ bytes % SD_BLOCK_SIZE = 0
    /\ stage \in {"read", "body"} => bytes > 0
    /\ stage = "body" => byte_offset = 0 /\ bytes >= SD_BLOCK_SIZE
    /\ stage = "read" => call.op = "read"
    /\ stage \in {"fetch", "put", "body"} => call.op = "write"

(* What the block about to be put holds. *)
Prepared ==
    stage = "put" =>
        \A k \in Offsets :
            IF k \in byte_offset .. byte_offset + ToMove - 1
            THEN block[k] = call.data[total + k - byte_offset]
            ELSE lba + k \in Positions => block[k] = disk[lba + k]

(* The bytes moved so far. *)
MovedSoFar(n) ==
    \A i \in 0 .. n - 1 :
        IF call.op = "read" THEN buffer[i] = original[call.byte_offset + i]
        ELSE disk[call.byte_offset + i] = call.data[i]

Inv ==
    /\ TypeOK
    /\ Place
    /\ Prepared
    /\ Working => MovedSoFar(total)
    /\ OthersUntouched
    /\ Delivered

(* A call lies on the device and brings its data. *)
CallFits ==
    /\ call.op \in {"read", "write"}
    /\ call.bytes \in Nat /\ call.byte_offset \in Nat
    /\ call.byte_offset + call.bytes <= Size
    /\ \A i \in 0 .. call.bytes - 1 : call.data[i] \in Byte

LEMMA Fits == TypeOK => CallFits
BY CallAssumption DEF TypeOK, CallFits

LEMMA ToMoveBounds ==
    ASSUME TypeOK, CallFits
    PROVE  /\ ToMove \in 0 .. bytes
           /\ ToMove <= SD_BLOCK_SIZE - byte_offset
           /\ bytes > 0 => ToMove > 0
           /\ ToMove < bytes => ToMove = SD_BLOCK_SIZE - byte_offset
BY DeviceAssumption DEF TypeOK, CallFits, ToMove, Offsets

LEMMA Remainder ==
    ASSUME NEW a \in Nat, NEW d \in Nat \ {0}
    PROVE  a % d \in 0 .. d - 1
OBVIOUS

LEMMA Shift ==
    ASSUME NEW l \in Int, NEW b \in Int, NEW c \in Int, NEW t \in Int, NEW n \in Int,
           l + b = c + t, NEW i \in 0 .. t + n - 1, i >= t
    PROVE  i \in t .. t + n - 1 /\ l + b + i - t = c + i
OBVIOUS

LEMMA InBlock ==
    ASSUME NEW l \in Int, NEW b \in Nat, NEW c \in Int, NEW t \in Int, NEW n \in Nat,
           NEW s \in Int, l + b = c + t, n <= s - b,
           NEW p \in Int, p \in c + t .. c + t + n - 1
    PROVE  /\ p \in l .. l + s - 1 /\ p - l \in 0 .. s - 1
           /\ p - l \in b .. b + n - 1
           /\ t + (p - l) - b = p - c
OBVIOUS

LEMMA NextBlock ==
    ASSUME NEW l \in Int, NEW b \in Int, NEW c \in Int, NEW t \in Int, NEW s \in Int,
           l + b = c + t
    PROVE  \A n : n = s - b => l + s = c + (t + n)
OBVIOUS

(* Blocks start at the multiples of their size. *)
LEMMA MultipleIs ==
    ASSUME NEW d \in Nat \ {0}, NEW k \in Int, NEW a \in Int, a = d * k
    PROVE  a % d = 0
<1> DEFINE q == a \div d
           r == a % d
<1>1. q \in Int /\ r \in 0 .. d - 1 /\ a = d * q + r
  OBVIOUS
<1> HIDE DEF q, r
<1>2. CASE q + 1 <= k
  <2>1. d * (q + 1) <= d * k
    BY <1>1, <1>2
  <2>2. d * (q + 1) = d * q + d
    BY <1>1
  <2> QED
    BY <1>1, <2>1, <2>2
<1>3. CASE k + 1 <= q
  <2>1. d * (k + 1) <= d * q
    BY <1>1, <1>3
  <2>2. d * (k + 1) = d * k + d
    OBVIOUS
  <2> QED
    BY <1>1, <2>1, <2>2
<1>4. CASE k = q
  BY <1>1, <1>4 DEF r
<1> QED
  BY <1>1, <1>2, <1>3, <1>4

LEMMA StartOfBlock ==
    ASSUME NEW d \in Nat \ {0}, NEW a \in Int
    PROVE  (a - (a % d)) % d = 0
<1> DEFINE q == a \div d
           r == a % d
<1>1. q \in Int /\ r \in Int /\ a = d * q + r
  OBVIOUS
<1> HIDE DEF q, r
<1>2. a - r = d * q /\ a - r \in Int
  BY <1>1
<1>3. (a - r) % d = 0
  BY <1>1, <1>2, MultipleIs
<1> QED
  BY <1>3 DEF r

LEMMA BlockAfter ==
    ASSUME NEW d \in Nat \ {0}, NEW a \in Int, a % d = 0
    PROVE  (a + d) % d = 0
<1> DEFINE q == a \div d
<1>1. q \in Int /\ a = d * q
  OBVIOUS
<1> HIDE DEF q
<1>2. d * (q + 1) = d * q + d
  BY <1>1
<1>3. a + d = d * (q + 1) /\ a + d \in Int /\ q + 1 \in Int
  BY <1>1, <1>2
<1> QED
  BY <1>3, MultipleIs

LEMMA InitInv == Init => Inv
<1> SUFFICES ASSUME Init PROVE Inv
  OBVIOUS
<1>1. call \in Calls /\ disk \in Disks /\ stage = "start" /\ total = 0
      /\ bytes = call.bytes /\ original = disk
  BY DEF Init
<1>2. CallFits
  BY <1>1, CallAssumption DEF CallFits
<1>3. byte_offset \in Offsets /\ lba \in Int /\ lba + byte_offset = call.byte_offset
  <2>1. byte_offset \in Offsets
    BY <1>2, DeviceAssumption, Remainder DEF Init, Offsets, CallFits
  <2>2. byte_offset \in Int /\ lba = call.byte_offset - byte_offset
    BY <2>1, DeviceAssumption DEF Init, Offsets
  <2> QED
    BY <1>2, <2>1, <2>2 DEF CallFits
<1>4. TypeOK
  BY <1>1, <1>2, <1>3, DeviceAssumption DEF TypeOK, CallFits, Stages
<1>7. lba % SD_BLOCK_SIZE = 0
  <2>1. (call.byte_offset - (call.byte_offset % SD_BLOCK_SIZE)) % SD_BLOCK_SIZE = 0
    BY <1>2, DeviceAssumption, StartOfBlock DEF CallFits
  <2>2. lba = call.byte_offset - byte_offset
    BY DEF Init
  <2>3. byte_offset = call.byte_offset % SD_BLOCK_SIZE
    BY DEF Init
  <2> QED
    BY <2>1, <2>2, <2>3
<1>5. Place
  BY <1>1, <1>2, <1>3, <1>7 DEF Place, Working, CallFits, Init
<1>6. Prepared /\ OthersUntouched /\ Delivered /\ MovedSoFar(total)
  BY <1>1, <1>2 DEF Prepared, OthersUntouched, Delivered, MovedSoFar, CallFits
<1> QED
  BY <1>4, <1>5, <1>6 DEF Inv

LEMMA StartInv == Inv /\ CallFits /\ Start => Inv'
<1> SUFFICES ASSUME Inv, CallFits, Start PROVE Inv'
  OBVIOUS
<1>1. /\ stage = "start"
      /\ UNCHANGED <<disk, call, buffer, lba, byte_offset, bytes, total, block, original>>
      /\ stage' \in {"whole", "done", "read", "fetch", "body"}
      /\ stage' = "whole" => byte_offset = 0 /\ bytes % SD_BLOCK_SIZE = 0
      /\ stage' = "done" => bytes = 0
      /\ stage' = "read" => call.op = "read" /\ bytes # 0
      /\ stage' = "fetch" => call.op # "read"
      /\ stage' = "body" => call.op # "read" /\ byte_offset = 0 /\ ~(bytes < SD_BLOCK_SIZE)
  BY DEF Start
<1>2. TypeOK'
  BY <1>1 DEF Inv, TypeOK, Stages
<1>3. Place'
  BY <1>1, DeviceAssumption DEF Inv, Place, Working, TypeOK, CallFits, Offsets
<1>4. Prepared' /\ OthersUntouched'
  BY <1>1 DEF Inv, Prepared, OthersUntouched
<1>5. Working' => MovedSoFar(total)'
  BY <1>1 DEF Inv, MovedSoFar, Working
<1>6. Delivered'
  BY <1>1 DEF Inv, Delivered, Place, Working, CallFits
<1> QED
  BY <1>2, <1>3, <1>4, <1>5, <1>6 DEF Inv

(* A failure leaves everything but perhaps the disk. *)
LEMMA FailInv ==
    ASSUME Inv, CallFits, Fail, disk' \in [Positions -> Byte],
           \A p \in Positions :
               \/ disk'[p] = disk[p]
               \/ call.op = "write" /\ p \in call.byte_offset .. call.byte_offset + call.bytes - 1
    PROVE  Inv'
<1>1. TypeOK'
  BY DEF Inv, TypeOK, Fail, Stages
<1>2. Place' /\ Prepared' /\ Delivered' /\ ~Working'
  BY DEF Inv, Place, Prepared, Delivered, Fail, Working
<1>3. OthersUntouched'
  BY DEF Inv, OthersUntouched, Fail
<1> QED
  BY <1>1, <1>2, <1>3 DEF Inv

LEMMA FailUnchangedInv == Inv /\ CallFits /\ FailUnchanged => Inv'
BY FailInv DEF FailUnchanged, Inv, TypeOK

(* So does the assertion, which only a whole block off a word boundary violates. *)
LEMMA StopInv ==
    ASSUME Inv, CallFits, NEW n \in 0 .. call.bytes, Stop(n),
           n + SD_BLOCK_SIZE <= call.bytes, (call.byte_offset + n) % SD_BLOCK_SIZE = 0
    PROVE  Inv'
<1>1. TypeOK' /\ OthersUntouched'
  BY DEF Inv, TypeOK, OthersUntouched, Stop, Stages
<1>2. Place' /\ Prepared' /\ ~Working'
  BY DEF Inv, Place, Prepared, Stop, Working
<1>3. Delivered'
  <2>1. call' = call /\ stage' = "stopped"
    BY DEF Stop
  <2>2. n \in 0 .. call'.bytes /\ OffBoundary(n)'
    BY <2>1 DEF Stop, OffBoundary, Aligned
  <2> QED
    BY <2>1, <2>2 DEF Delivered
<1> QED
  BY <1>1, <1>2, <1>3 DEF Inv

(* A multiple of d that lies below another lies below it by d. *)
LEMMA Multiples ==
    ASSUME NEW d \in Nat \ {0}, NEW a \in Nat, NEW b \in Nat,
           a % d = 0, b % d = 0, a < b
    PROVE  a + d <= b
<1> DEFINE q == a \div d
           r == b \div d
<1>1. q \in Int /\ r \in Int /\ a = d * q /\ b = d * r
  OBVIOUS
<1> HIDE DEF q, r
<1>2. CASE q + 1 <= r
  <2>1. d * (q + 1) <= d * r
    BY <1>1, <1>2
  <2>2. d * (q + 1) = d * q + d
    BY <1>1
  <2> QED
    BY <1>1, <2>1, <2>2
<1>3. CASE q >= r
  <2>1. d * q >= d * r
    BY <1>1, <1>3
  <2> QED
    BY <1>1, <2>1
<1> QED
  BY <1>1, <1>2, <1>3

(* A call of whole blocks that is not empty is stopped at its first. *)
LEMMA WholeStopInv == Inv /\ CallFits /\ stage = "whole" /\ bytes > 0 /\ Stop(0) => Inv'
<1> SUFFICES ASSUME Inv, CallFits, stage = "whole", bytes > 0, Stop(0) PROVE Inv'
  OBVIOUS
<1>1. /\ total = 0 /\ bytes = call.bytes /\ lba = call.byte_offset
      /\ bytes % SD_BLOCK_SIZE = 0 /\ lba % SD_BLOCK_SIZE = 0
  BY DEF Inv, Place, Working, TypeOK, CallFits
<1>2. bytes \in Nat /\ call.byte_offset \in Nat /\ SD_BLOCK_SIZE \in Nat \ {0}
  BY DeviceAssumption DEF Inv, TypeOK, CallFits
<1>3. 0 + SD_BLOCK_SIZE <= bytes
  <2>1. 0 % SD_BLOCK_SIZE = 0
    BY <1>2
  <2> QED
    BY <1>1, <1>2, <2>1, Multiples
<1>4. 0 \in 0 .. call.bytes /\ 0 + SD_BLOCK_SIZE <= call.bytes
  BY <1>1, <1>2, <1>3
<1>5. call.byte_offset + 0 = lba
  BY <1>1, <1>2
<1>6. (call.byte_offset + 0) % SD_BLOCK_SIZE = 0
  BY <1>1, <1>5
<1> QED
  BY <1>4, <1>6, StopInv

LEMMA ReadWholeInv == Inv /\ CallFits /\ ReadWhole => Inv'
<1> SUFFICES ASSUME Inv, CallFits, ReadWhole,
                    /\ buffer' = [i \in 0 .. bytes - 1 |-> disk[lba + i]]
                    /\ stage' = "done"
                    /\ UNCHANGED <<disk, call, lba, byte_offset, bytes, total, block, original>>
             PROVE  Inv'
  BY FailUnchangedInv, WholeStopInv DEF ReadWhole
<1>1. /\ stage = "whole" /\ call.op = "read" /\ total = 0 /\ bytes = call.bytes
      /\ lba = call.byte_offset
  BY DEF ReadWhole, Inv, Place, Working, TypeOK, CallFits
<1>2. TypeOK' /\ OthersUntouched' /\ Prepared' /\ ~Working'
  BY DEF Inv, TypeOK, Stages, OthersUntouched, Prepared, Working
<1>3. Place'
  BY <1>1, <1>2 DEF Place
<1>4. Delivered'
  <2> SUFFICES ASSUME NEW i \in 0 .. call.bytes - 1
               PROVE  buffer'[i] = original[call.byte_offset + i]
    BY <1>1 DEF Delivered
  <2>1. call.byte_offset + i \in Positions
    BY DeviceAssumption DEF CallFits, Positions
  <2>2. disk[call.byte_offset + i] = original[call.byte_offset + i]
    BY <1>1, <2>1 DEF Inv, OthersUntouched
  <2> QED
    BY <1>1, <2>2
<1> QED
  BY <1>2, <1>3, <1>4 DEF Inv

LEMMA ReadBlockInv == Inv /\ CallFits /\ ReadBlock => Inv'
<1> DEFINE n == ToMove
<1>0. SUFFICES ASSUME Inv, CallFits, ReadBlock,
                    /\ buffer' = [i \in DOMAIN buffer |->
                                      IF i \in total .. total + n - 1
                                      THEN disk[lba + byte_offset + i - total] ELSE buffer[i]]
                    /\ total' = total + n
                    /\ bytes' = bytes - n
                    /\ byte_offset' = 0
                    /\ lba' = lba + SD_BLOCK_SIZE
                    /\ stage' = IF bytes' = 0 THEN "done" ELSE "read"
                    /\ UNCHANGED <<disk, call, block, original>>
             PROVE  Inv'
  BY FailUnchangedInv DEF ReadBlock
<1>1. /\ stage = "read" /\ call.op = "read" /\ bytes > 0
      /\ total + bytes = call.bytes
      /\ lba + byte_offset = call.byte_offset + total
      /\ DOMAIN buffer = 0 .. call.bytes - 1
  BY <1>0 DEF ReadBlock, Inv, Place, Working
<1>2. /\ bytes \in Nat /\ total \in Nat /\ lba \in Int /\ byte_offset \in Nat
      /\ call.bytes \in Nat /\ call.byte_offset \in Nat
      /\ call.byte_offset + call.bytes <= Size
      /\ SD_BLOCK_SIZE \in Nat \ {0} /\ Size \in Nat
  BY <1>0, DeviceAssumption DEF Inv, TypeOK, CallFits, Offsets
<1>3. /\ n \in 0 .. bytes /\ n > 0
      /\ n < bytes => n = SD_BLOCK_SIZE - byte_offset
  BY <1>0, <1>1, ToMoveBounds DEF Inv
<1> HIDE DEF n
<1>4. TypeOK'
  BY <1>0, <1>1, <1>2, <1>3 DEF Inv, TypeOK, Stages, Offsets
<1>5. Place'
  <2>1. /\ stage' \in {"done", "read"} /\ (stage' = "read" <=> bytes' # 0)
        /\ call' = call /\ DOMAIN buffer' = DOMAIN buffer
    BY <1>0
  <2>2. total' + bytes' = call.bytes
    BY <1>0, <1>1, <1>2, <1>3
  <2>3. bytes' # 0 => bytes' > 0 /\ lba' + byte_offset' = call.byte_offset + total'
    BY <1>0, <1>1, <1>2, <1>3
  <2>4. lba' % SD_BLOCK_SIZE = 0
    <3>1. lba % SD_BLOCK_SIZE = 0
      BY <1>0, <1>1 DEF Inv, Place, Working
    <3> QED
      BY <1>0, <1>2, <3>1, BlockAfter
  <2> QED
    BY <1>1, <2>1, <2>2, <2>3, <2>4 DEF Place, Working
<1>6. \A i \in 0 .. total + n - 1 : buffer'[i] = original[call.byte_offset + i]
  <2> SUFFICES ASSUME NEW i \in 0 .. total + n - 1
               PROVE  buffer'[i] = original[call.byte_offset + i]
    OBVIOUS
  <2>1. i \in DOMAIN buffer /\ call.byte_offset + i \in Positions
    <3>1. n \in Int /\ total + n <= call.bytes
      BY <1>1, <1>2, <1>3
    <3>2. i \in 0 .. call.bytes - 1
      BY <1>2, <3>1
    <3>3. call.byte_offset + i \in 0 .. Size - 1
      BY <1>2, <3>2
    <3> QED
      BY <1>1, <3>2, <3>3 DEF Positions
  <2>2. CASE i < total
    <3>1. buffer'[i] = buffer[i] /\ i \in 0 .. total - 1
      BY <1>0, <1>2, <1>3, <2>1, <2>2
    <3> QED
      BY <1>0, <1>1, <3>1 DEF Inv, MovedSoFar, Working
  <2>3. CASE i >= total
    <3>1. i \in total .. total + n - 1 /\ lba + byte_offset + i - total = call.byte_offset + i
      <4>1. /\ lba \in Int /\ byte_offset \in Int /\ call.byte_offset \in Int
            /\ total \in Int /\ n \in Int
        BY <1>2, <1>3
      <4>2. lba + byte_offset = call.byte_offset + total
        BY <1>1
      <4> QED
        BY <4>1, <4>2, <2>3, Shift
    <3>2. buffer'[i] = disk[call.byte_offset + i]
      BY <1>0, <2>1, <3>1
    <3>3. disk[call.byte_offset + i] = original[call.byte_offset + i]
      BY <1>0, <1>1, <2>1 DEF Inv, OthersUntouched
    <3> QED
      BY <3>2, <3>3
  <2> QED
    BY <1>2, <1>3, <2>2, <2>3
<1>7. MovedSoFar(total)'
  <2>1. call'.op = "read" /\ call' = call /\ original' = original /\ total' = total + n
    BY <1>0, <1>1
  <2>2. \A i \in 0 .. total' - 1 : buffer'[i] = original'[call'.byte_offset + i]
    BY <1>2, <1>3, <1>6, <2>1
  <2> QED
    BY <2>1, <2>2 DEF MovedSoFar
<1>8. Delivered'
  <2>1. bytes' = 0 => total + n = call.bytes
    BY <1>0, <1>1, <1>2, <1>3
  <2>2. call'.op = "read" /\ call' = call /\ original' = original
    BY <1>0, <1>1
  <2> QED
    <3>1. stage' = "done" => bytes' = 0
      BY <1>0
    <3>2. stage' = "done" =>
             \A i \in 0 .. call'.bytes - 1 : buffer'[i] = original'[call'.byte_offset + i]
      BY <1>2, <1>3, <1>6, <2>1, <2>2, <3>1
    <3> QED
      BY <1>0, <2>2, <3>2 DEF Delivered
<1>9. OthersUntouched' /\ Prepared'
  BY <1>0 DEF Inv, OthersUntouched, Prepared
<1> QED
  BY <1>4, <1>5, <1>7, <1>8, <1>9 DEF Inv

(* The disk after n more bytes of the call are stored in their places. *)
WithMore(n) ==
    [p \in Positions |->
        IF p \in call.byte_offset + total .. call.byte_offset + total + n - 1
        THEN call.data[p - call.byte_offset] ELSE disk[p]]

LEMMA WithMoreKeeps ==
    ASSUME Inv, CallFits, Working, call.op = "write",
           NEW n \in Nat, total + n <= call.bytes
    PROVE  /\ WithMore(n) \in [Positions -> Byte]
           /\ \A p \in Positions :
                 \/ WithMore(n)[p] = disk[p]
                 \/ p \in call.byte_offset .. call.byte_offset + call.bytes - 1
           /\ \A i \in 0 .. total + n - 1 : WithMore(n)[call.byte_offset + i] = call.data[i]
<1> DEFINE c == call.byte_offset
<1>1. /\ c \in Nat /\ call.bytes \in Nat /\ total \in Nat /\ Size \in Nat /\ c + call.bytes <= Size
      /\ \A i \in 0 .. call.bytes - 1 : call.data[i] \in Byte
  BY DeviceAssumption DEF Inv, TypeOK, CallFits
<1>2. \A p \in Positions :
         /\ p \in Int
         /\ p \in c + total .. c + total + n - 1 =>
               /\ p \in c .. c + call.bytes - 1
               /\ p - c \in 0 .. call.bytes - 1
  BY <1>1 DEF Positions
<1>3. \A p \in Positions : WithMore(n)[p] = IF p \in c + total .. c + total + n - 1
                                            THEN call.data[p - c] ELSE disk[p]
  BY DEF WithMore
<1>4. \A p \in Positions :
         /\ IF p \in c + total .. c + total + n - 1 THEN call.data[p - c] \in Byte ELSE disk[p] \in Byte
  BY <1>1, <1>2 DEF Inv, TypeOK
<1>5. WithMore(n) \in [Positions -> Byte]
  BY <1>4 DEF WithMore
<1>6. \A p \in Positions : WithMore(n)[p] = disk[p] \/ p \in c .. c + call.bytes - 1
  BY <1>2, <1>3
<1>7. \A i \in 0 .. total + n - 1 : WithMore(n)[c + i] = call.data[i]
  <2> SUFFICES ASSUME NEW i \in 0 .. total + n - 1
               PROVE  WithMore(n)[c + i] = call.data[i]
    OBVIOUS
  <2>1. c + i \in Positions /\ (c + i) - c = i
    BY <1>1 DEF Positions
  <2>2. CASE i < total
    <3>1. c + i \notin c + total .. c + total + n - 1 /\ i \in 0 .. total - 1
      BY <1>1, <2>2
    <3>2. WithMore(n)[c + i] = disk[c + i]
      BY <1>3, <2>1, <3>1
    <3> QED
      BY <3>1, <3>2 DEF Inv, MovedSoFar
  <2>3. CASE i >= total
    <3>1. c + i \in c + total .. c + total + n - 1
      BY <1>1, <2>3
    <3> QED
      BY <1>3, <2>1, <3>1
  <2> QED
    BY <1>1, <2>2, <2>3
<1> QED
  BY <1>5, <1>6, <1>7

(* How the invariant survives a store of a single block, whether it fails, stores nothing *)
(* and fails, or goes on: data holds the call's bytes amid what surrounds them.           *)
LEMMA StoreInv ==
    ASSUME Inv, CallFits, stage \in {"put", "body"},
           NEW data,
           \A k \in Offsets :
               IF k \in byte_offset .. byte_offset + ToMove - 1
               THEN data[k] = call.data[total + k - byte_offset]
               ELSE lba + k \in Positions => data[k] = disk[lba + k],
           disk' \in {disk, Stored(lba, SD_BLOCK_SIZE, data)},
           Fail \/ (disk' = Stored(lba, SD_BLOCK_SIZE, data) /\ Advance)
    PROVE  Inv'
<1> DEFINE n == ToMove
           c == call.byte_offset
<1>1. /\ Working /\ call.op = "write"
      /\ total + bytes = call.bytes /\ lba + byte_offset = c + total
      /\ lba % SD_BLOCK_SIZE = 0
      /\ DOMAIN buffer = 0 .. call.bytes - 1
  BY DEF Inv, Place, Working
<1>2. /\ bytes \in Nat /\ total \in Nat /\ lba \in Int /\ byte_offset \in 0 .. SD_BLOCK_SIZE - 1
      /\ call.bytes \in Nat /\ c \in Nat /\ c + call.bytes <= Size
      /\ SD_BLOCK_SIZE \in Nat \ {0} /\ Size \in Nat
  BY DeviceAssumption DEF Inv, TypeOK, CallFits, Offsets
<1>3. /\ n \in 0 .. bytes /\ n <= SD_BLOCK_SIZE - byte_offset
      /\ n < bytes => n = SD_BLOCK_SIZE - byte_offset
  BY ToMoveBounds DEF Inv
<1>4. \A k \in 0 .. SD_BLOCK_SIZE - 1 :
         IF k \in byte_offset .. byte_offset + n - 1
         THEN data[k] = call.data[total + k - byte_offset]
         ELSE lba + k \in Positions => data[k] = disk[lba + k]
  BY DEF Offsets
<1> HIDE DEF n
<1>5. Stored(lba, SD_BLOCK_SIZE, data) = WithMore(n)
  <2>1. \A p \in Positions :
           (IF p \in lba .. lba + SD_BLOCK_SIZE - 1 THEN data[p - lba] ELSE disk[p])
           = (IF p \in c + total .. c + total + n - 1 THEN call.data[p - c] ELSE disk[p])
    <3> SUFFICES ASSUME NEW p \in Positions
                 PROVE  (IF p \in lba .. lba + SD_BLOCK_SIZE - 1 THEN data[p - lba] ELSE disk[p])
                        = (IF p \in c + total .. c + total + n - 1 THEN call.data[p - c] ELSE disk[p])
      OBVIOUS
    <3>1. p \in Int /\ n \in Nat
      BY <1>2, <1>3 DEF Positions
    <3>2. CASE p \in c + total .. c + total + n - 1
      <4>1. /\ p \in lba .. lba + SD_BLOCK_SIZE - 1
            /\ p - lba \in 0 .. SD_BLOCK_SIZE - 1
            /\ p - lba \in byte_offset .. byte_offset + n - 1
            /\ total + (p - lba) - byte_offset = p - c
        <5>1. c \in Int /\ byte_offset \in Nat /\ SD_BLOCK_SIZE \in Int
          BY <1>2
        <5>2. lba + byte_offset = c + total /\ lba \in Int /\ total \in Int
          BY <1>1, <1>2
        <5>3. n <= SD_BLOCK_SIZE - byte_offset
          BY <1>3
        <5> QED
          BY <3>1, <3>2, <5>1, <5>2, <5>3, InBlock
      <4>2. data[p - lba] = call.data[total + (p - lba) - byte_offset]
        BY <1>4, <4>1
      <4> QED
        BY <3>2, <4>1, <4>2
    <3>3. CASE p \notin c + total .. c + total + n - 1 /\ p \in lba .. lba + SD_BLOCK_SIZE - 1
      <4>1. /\ p - lba \in 0 .. SD_BLOCK_SIZE - 1
            /\ p - lba \notin byte_offset .. byte_offset + n - 1
            /\ lba + (p - lba) = p
        BY <1>1, <1>2, <1>3, <3>1, <3>3
      <4>2. data[p - lba] = disk[p]
        BY <1>4, <4>1
      <4> QED
        BY <3>3, <4>2
    <3> QED
      BY <3>2, <3>3
  <2> QED
    BY <2>1 DEF Stored, WithMore
<1>6. n \in Nat /\ total + n <= call.bytes
  BY <1>1, <1>2, <1>3
<1>7. /\ WithMore(n) \in [Positions -> Byte]
      /\ \A p \in Positions : WithMore(n)[p] = disk[p] \/ p \in c .. c + call.bytes - 1
      /\ \A i \in 0 .. total + n - 1 : WithMore(n)[c + i] = call.data[i]
  BY <1>1, <1>6, WithMoreKeeps
<1>8. disk \in [Positions -> Byte] /\ disk' \in {disk, WithMore(n)}
  BY <1>5 DEF Inv, TypeOK
<1>9. CASE Fail
  <2>1. disk' \in [Positions -> Byte]
    BY <1>7, <1>8
  <2>2. \A p \in Positions : disk'[p] = disk[p] \/ p \in c .. c + call.bytes - 1
    BY <1>7, <1>8
  <2> QED
    BY <1>1, <1>9, <2>1, <2>2, FailInv
<1>10. CASE disk' = WithMore(n) /\ Advance
  <2>1. /\ total' = total + n /\ bytes' = bytes - n /\ byte_offset' = 0
        /\ lba' = lba + SD_BLOCK_SIZE
        /\ stage' = IF bytes' = 0 THEN "done" ELSE IF bytes' < SD_BLOCK_SIZE THEN "fetch" ELSE "body"
        /\ call' = call /\ buffer' = buffer /\ original' = original
    BY <1>10 DEF Advance, n
  <2>2. bytes' \in 0 .. call.bytes /\ total' \in 0 .. call.bytes /\ total' + bytes' = call.bytes
        /\ lba' \in Int /\ 0 \in 0 .. SD_BLOCK_SIZE - 1
    BY <1>1, <1>2, <1>3, <2>1
  <2>3. bytes' # 0 => bytes' > 0 /\ lba' + byte_offset' = call.byte_offset + total'
    <3>1. bytes' # 0 => n = SD_BLOCK_SIZE - byte_offset
      BY <1>2, <1>3, <2>1
    <3>2. n = SD_BLOCK_SIZE - byte_offset => lba + SD_BLOCK_SIZE = c + (total + n)
      <4>1. /\ c \in Int /\ byte_offset \in Int /\ SD_BLOCK_SIZE \in Int
            /\ lba \in Int /\ total \in Int
        BY <1>2
      <4>2. lba + byte_offset = c + total
        BY <1>1
      <4> QED
        BY <4>1, <4>2, NextBlock
    <3> QED
      BY <2>1, <2>2, <3>1, <3>2
  <2>4. stage' \in {"done", "fetch", "body"}
    BY <2>1
  <2>5. TypeOK'
    BY <1>7, <1>10, <2>1, <2>2, <2>4 DEF Inv, TypeOK, Stages, Offsets
  <2>6. Place'
    <3>1. stage' = "body" => bytes' >= SD_BLOCK_SIZE
      BY <1>2, <2>1, <2>2
    <3>2. stage' # "done" => bytes' # 0
      BY <2>1
    <3>3. lba' % SD_BLOCK_SIZE = 0
      BY <1>1, <1>2, <2>1, BlockAfter
    <3> QED
      BY <1>1, <2>1, <2>2, <2>3, <2>4, <3>1, <3>2, <3>3 DEF Place, Working
  <2>7. \A i \in 0 .. total' - 1 : disk'[call'.byte_offset + i] = call'.data[i]
    BY <1>2, <1>6, <1>7, <1>10, <2>1
  <2>8. MovedSoFar(total)'
    BY <1>1, <2>1, <2>7 DEF MovedSoFar
  <2>9. Delivered'
    <3>1. stage' = "done" => total' = call'.bytes
      BY <1>2, <2>1, <2>2
    <3> QED
      BY <1>1, <2>1, <2>7, <3>1 DEF Delivered
  <2>10. OthersUntouched'
    <3>1. \A p \in Positions : disk'[p] = disk[p] \/ p \in c .. c + call.bytes - 1
      BY <1>7, <1>10
    <3> QED
      BY <1>1, <2>1, <3>1 DEF Inv, OthersUntouched
  <2>11. Prepared'
    BY <2>4 DEF Prepared
  <2> QED
    BY <2>5, <2>6, <2>8, <2>9, <2>10, <2>11 DEF Inv
<1> QED
  BY <1>5, <1>9, <1>10

LEMMA PutInv == Inv /\ CallFits /\ Put => Inv'
<1> SUFFICES ASSUME Inv, CallFits, Put PROVE Inv'
  OBVIOUS
<1>1. \A k \in Offsets :
         IF k \in byte_offset .. byte_offset + ToMove - 1
         THEN block[k] = call.data[total + k - byte_offset]
         ELSE lba + k \in Positions => block[k] = disk[lba + k]
  BY DEF Put, Inv, Prepared
<1> QED
  BY <1>1, StoreInv DEF Put

LEMMA BodyInv == Inv /\ CallFits /\ Body => Inv'
<1> SUFFICES ASSUME Inv, CallFits, Body PROVE Inv'
  OBVIOUS
<1>6. CASE FailUnchanged
  BY <1>6, FailUnchangedInv
<1>7. CASE Stop(total)
  <2>1. /\ byte_offset = 0 /\ bytes >= SD_BLOCK_SIZE /\ total + bytes = call.bytes
        /\ lba + byte_offset = call.byte_offset + total /\ lba % SD_BLOCK_SIZE = 0
    BY DEF Body, Inv, Place, Working
  <2>2. /\ bytes \in Nat /\ total \in Nat /\ lba \in Int
        /\ call.bytes \in Nat /\ call.byte_offset \in Nat /\ SD_BLOCK_SIZE \in Nat
    BY DeviceAssumption DEF Inv, TypeOK, CallFits
  <2>3. total \in 0 .. call.bytes /\ total + SD_BLOCK_SIZE <= call.bytes
        /\ call.byte_offset + total = lba
    BY <2>1, <2>2
  <2> QED
    BY <1>7, <2>1, <2>3, StopInv
<1> DEFINE data == [k \in Offsets |-> call.data[total + k]]
<1>1. /\ stage = "body" /\ byte_offset = 0 /\ bytes >= SD_BLOCK_SIZE
      /\ bytes \in Nat /\ total \in Nat /\ SD_BLOCK_SIZE \in Nat \ {0}
  BY DeviceAssumption DEF Body, Inv, Place, TypeOK, CallFits
<1>2. ToMove = SD_BLOCK_SIZE
  BY <1>1 DEF ToMove
<1>3. \A k \in Offsets :
         /\ k \in byte_offset .. byte_offset + ToMove - 1
         /\ total + k - byte_offset = total + k
  BY <1>1, <1>2 DEF Offsets
<1>4. \A k \in Offsets :
         IF k \in byte_offset .. byte_offset + ToMove - 1
         THEN data[k] = call.data[total + k - byte_offset]
         ELSE lba + k \in Positions => data[k] = disk[lba + k]
  BY <1>3
<1>5. CASE /\ disk' \in {disk, Stored(lba, SD_BLOCK_SIZE, data)}
           /\ Fail \/ (disk' = Stored(lba, SD_BLOCK_SIZE, data) /\ Advance)
  <2> HIDE DEF data
  <2> QED
    BY <1>1, <1>4, <1>5, StoreInv
<1> QED
  BY <1>5, <1>6, <1>7 DEF Body

LEMMA FetchInv == Inv /\ CallFits /\ Fetch => Inv'
<1> SUFFICES ASSUME Inv, CallFits, Fetch, stage = "fetch",
                    /\ block' = [k \in Offsets |->
                                    IF k \in byte_offset .. byte_offset + ToMove - 1
                                    THEN call.data[total + k - byte_offset]
                                    ELSE IF lba + k \in Positions THEN disk[lba + k] ELSE 0]
                    /\ stage' = "put"
                    /\ UNCHANGED <<disk, call, buffer, lba, byte_offset, bytes, total, original>>
             PROVE  Inv'
  BY FailUnchangedInv DEF Fetch
<1>1. TypeOK' /\ OthersUntouched' /\ Delivered' /\ Place'
  BY DEF Inv, TypeOK, Stages, OthersUntouched, Delivered, Place, Working
<1>2. MovedSoFar(total)'
  BY DEF Inv, MovedSoFar, Working
<1>3. ToMove' = ToMove
  BY DEF ToMove
<1>4. Prepared'
  BY <1>3 DEF Prepared
<1> QED
  BY <1>1, <1>2, <1>4 DEF Inv

LEMMA WriteWholeInv == Inv /\ CallFits /\ WriteWhole => Inv'
<1> DEFINE c == call.byte_offset
<1> SUFFICES ASSUME Inv, CallFits, WriteWhole PROVE Inv'
  OBVIOUS
<1>1. /\ stage = "whole" /\ call.op = "write" /\ Working
      /\ total = 0 /\ bytes = call.bytes /\ lba = c /\ byte_offset = 0
      /\ bytes % SD_BLOCK_SIZE = 0
  BY DEF WriteWhole, Inv, Place, Working, TypeOK, CallFits
<1>2. bytes \in Nat /\ c \in Nat /\ SD_BLOCK_SIZE \in Nat \ {0} /\ Size \in Nat
  BY DeviceAssumption DEF Inv, TypeOK, CallFits
<1>3. /\ WithMore(bytes) \in [Positions -> Byte]
      /\ \A p \in Positions : WithMore(bytes)[p] = disk[p] \/ p \in c .. c + call.bytes - 1
      /\ \A i \in 0 .. total + bytes - 1 : WithMore(bytes)[c + i] = call.data[i]
  BY <1>1, <1>2, WithMoreKeeps
<1>4. \A p \in Positions : WithMore(bytes)[p] = IF p \in c .. c + bytes - 1
                                                THEN call.data[p - c] ELSE disk[p]
  BY <1>1, <1>2 DEF WithMore
<1>5. CASE /\ disk' = Stored(lba, bytes, call.data)
           /\ stage' = "done"
           /\ UNCHANGED <<call, buffer, lba, byte_offset, bytes, total, block, original>>
  <2>1. disk' = WithMore(bytes)
    BY <1>1, <1>2, <1>5 DEF Stored, WithMore
  <2>2. TypeOK'
    BY <1>3, <1>5, <2>1 DEF Inv, TypeOK, Stages
  <2>3. Place' /\ Prepared' /\ ~Working'
    BY <1>5 DEF Inv, Place, Prepared, Working
  <2>4. OthersUntouched'
    BY <1>1, <1>3, <1>5, <2>1 DEF Inv, OthersUntouched
  <2>5. Delivered'
    BY <1>1, <1>2, <1>3, <1>5, <2>1 DEF Delivered
  <2> QED
    BY <2>2, <2>3, <2>4, <2>5 DEF Inv
<1>6. ASSUME Fail, NEW S \in SUBSET {k \in 0 .. bytes - 1 : k % SD_BLOCK_SIZE = 0},
             disk' = [p \in Positions |->
                         IF \E k \in S : p - lba \in k .. k + SD_BLOCK_SIZE - 1
                         THEN call.data[p - lba] ELSE disk[p]]
      PROVE  Inv'
  <2>1. \A p \in Positions : disk'[p] = disk[p] \/ (disk'[p] = WithMore(bytes)[p] /\ p \in c .. c + call.bytes - 1)
    <3> SUFFICES ASSUME NEW p \in Positions, NEW k \in S, p - lba \in k .. k + SD_BLOCK_SIZE - 1,
                        disk'[p] = call.data[p - lba]
                 PROVE  disk'[p] = WithMore(bytes)[p] /\ p \in c .. c + call.bytes - 1
      BY <1>6
    <3>1. k \in Nat /\ k < bytes /\ k % SD_BLOCK_SIZE = 0
      BY <1>2
    <3>2. k + SD_BLOCK_SIZE <= bytes
      BY <1>1, <1>2, <3>1, Multiples
    <3>3. p \in c .. c + bytes - 1
      BY <1>1, <1>2, <3>1, <3>2 DEF Positions
    <3> QED
      BY <1>1, <1>4, <3>3
  <2>2. \A p \in Positions : disk'[p] \in Byte
    BY <1>3, <2>1 DEF Inv, TypeOK
  <2>3. disk' \in [Positions -> Byte]
    BY <1>6, <2>2
  <2> QED
    BY <1>1, <1>6, <2>1, <2>3, FailInv
<1> QED
  BY <1>1, <1>5, <1>6, FailUnchangedInv, WholeStopInv DEF WriteWhole

LEMMA StutterInv == Inv /\ UNCHANGED vars => Inv'
<1> SUFFICES ASSUME Inv, UNCHANGED vars PROVE Inv'
  OBVIOUS
<1>1. TypeOK' /\ Place' /\ OthersUntouched'
  BY DEF Inv, vars, TypeOK, Place, Working, OthersUntouched
<1>3. Delivered'
  BY DEF Inv, vars, Delivered, OffBoundary, Aligned
<1>2. Prepared' /\ (Working' => MovedSoFar(total)')
  BY DEF Inv, vars, Prepared, ToMove, MovedSoFar, Working
<1> QED
  BY <1>1, <1>2, <1>3 DEF Inv

LEMMA InvHolds == Spec => []Inv
<1>1. Inv /\ [Next]_vars => Inv'
  <2> SUFFICES ASSUME Inv, [Next]_vars PROVE Inv'
    OBVIOUS
  <2>1. CallFits
    BY Fits DEF Inv
  <2> QED
    BY <2>1, StartInv, ReadWholeInv, WriteWholeInv, ReadBlockInv, FetchInv, PutInv, BodyInv,
       StutterInv DEF Next
<1> QED
  BY InitInv, <1>1, PTL DEF Spec

(* A read changes no byte and a write none outside its range, however the range lies  *)
(* across the blocks and whichever access fails.                                      *)
THEOREM OnlyTheRange == Spec => []OthersUntouched
BY InvHolds, PTL DEF Inv

(* A call that succeeds moved every byte of its range: splits into blocks neither lose *)
(* nor repeat a byte.  One that stops the kernel covers a whole block of the device     *)
(* that is off a word boundary in the caller's buffer.                                  *)
THEOREM AllDelivered == Spec => []Delivered
BY InvHolds, PTL DEF Inv

-----------------------------------------------------------------------------
(* Routines: copies and fills. *)

LEMMA Divided ==
    ASSUME NEW n \in Nat, NEW d \in Nat, d > 0
    PROVE  /\ n \div d \in Nat /\ n % d \in Nat /\ n % d < d
           /\ n = d * (n \div d) + (n % d)
OBVIOUS

LEMMA Scaled ==
    ASSUME NEW d \in Nat, NEW m \in Int, NEW n \in Int, m <= n
    PROVE  d * m <= d * n
<1>1. n - m \in Nat /\ d * (n - m) >= 0
  OBVIOUS
<1>2. d * n = d * m + d * (n - m)
  OBVIOUS
<1>. QED BY <1>1, <1>2


\* What the accesses make of a memory, one after another.
Steps(f, mem, dest, src, accesses) ==
    f = [k \in 0 .. Len(accesses) |->
            IF k = 0 THEN mem
            ELSE Moved(f[k - 1], dest + accesses[k].at, src + accesses[k].at, accesses[k].width)]

\* They are what Carried computes.
LEMMA CarriedIs ==
    ASSUME NEW mem, NEW dest, NEW src, NEW accesses, Len(accesses) \in Nat,
           NEW f, Steps(f, mem, dest, src, accesses)
    PROVE  Carried(mem, dest, src, accesses) = f[Len(accesses)]
<1>. DEFINE N == Len(accesses)
            move(m, k) == Moved(m, dest + accesses[k].at, src + accesses[k].at, accesses[k].width)
            after[k \in 0 .. N] == IF k = 0 THEN mem ELSE move(after[k - 1], k)
<1>1. f = [k \in 0 .. N |-> IF k = 0 THEN mem ELSE move(f[k - 1], k)]
  BY DEF Steps
<1>2. Carried(mem, dest, src, accesses) = after[N]
  BY Zenon DEF Carried
<1>. HIDE DEF move
<1>3. after = [k \in 0 .. N |-> IF k = 0 THEN mem ELSE move(after[k - 1], k)]
  BY <1>1, Zenon DEF after
<1>. HIDE DEF after
<1>. DEFINE S == {k \in Nat : k \in 0 .. N => after[k] = f[k]}
<1>4. 0 \in S
  BY <1>1, <1>3
<1>5. ASSUME NEW k \in Nat, k \in S PROVE k + 1 \in S
  <2>1. SUFFICES ASSUME k + 1 \in 0 .. N PROVE after[k + 1] = f[k + 1]
    OBVIOUS
  <2>2. k \in 0 .. N /\ k + 1 # 0 /\ (k + 1) - 1 = k
    BY <2>1
  <2>3. f[k + 1] = move(f[k], k + 1)
    BY <1>1, <2>1, <2>2
  <2>4. after[k + 1] = move(after[k], k + 1)
    BY <1>3, <2>1, <2>2
  <2>. QED BY <1>5, <2>2, <2>3, <2>4
<1>6. Nat \subseteq S
  <2>. HIDE DEF S
  <2>. QED BY <1>4, <1>5, SetInduction
<1>7. N \in S /\ N \in 0 .. N
  BY <1>6
<1>. QED BY <1>2, <1>7

\* Accesses that go from one offset to another without a gap; end[k] is where k of them get to.
Spans(accesses, from, to) ==
    /\ accesses \in Seq([at : Int, width : Nat])
    /\ \E end \in [0 .. Len(accesses) -> from .. to] :
          /\ end[0] = from /\ end[Len(accesses)] = to
          /\ \A k \in 1 .. Len(accesses) :
                accesses[k].at = end[k - 1] /\ end[k] = end[k - 1] + accesses[k].width

\* A memory, with all bytes that are to be copied.
Holds(mem, src, n) ==
    /\ mem = [p \in DOMAIN mem |-> mem[p]] /\ DOMAIN mem \subseteq Int
    /\ src .. src + n - 1 \subseteq DOMAIN mem

\* Copying some bytes behind the first e, which have been copied.
LEMMA MovedFurther ==
    ASSUME NEW dest \in Int, NEW src \in Int, NEW n \in Nat, NEW mem, Holds(mem, src, n),
           dest <= src \/ src + n <= dest,
           NEW e \in 0 .. n, NEW g \in 0 .. n, e <= g
    PROVE  Moved(Moved(mem, dest, src, e), dest + e, src + e, g - e) = Moved(mem, dest, src, g)
<1>. DEFINE m == Moved(mem, dest, src, e)
<1>1. /\ DOMAIN m = DOMAIN mem
      /\ \A p \in DOMAIN mem : m[p] = IF p \in dest .. dest + e - 1 THEN mem[src + p - dest] ELSE mem[p]
  BY DEF Moved
<1>. HIDE DEF m
<1>2. ASSUME NEW p \in DOMAIN mem
      PROVE  (IF p \in dest + e .. dest + e + (g - e) - 1 THEN m[src + e + p - (dest + e)] ELSE m[p])
                 = IF p \in dest .. dest + g - 1 THEN mem[src + p - dest] ELSE mem[p]
  <2>1. p \in Int
    BY DEF Holds
  <2>2. CASE p \in dest + e .. dest + e + (g - e) - 1
    <3>1. src + e + p - (dest + e) = src + p - dest /\ src + p - dest \in src + e .. src + g - 1
      BY <2>1, <2>2
    <3>2. src + p - dest \in DOMAIN mem /\ src + p - dest \notin dest .. dest + e - 1
      BY <2>1, <3>1 DEF Holds
    <3>3. m[src + p - dest] = mem[src + p - dest]
      BY <1>1, <3>2
    <3>4. p \in dest .. dest + g - 1
      BY <2>1, <2>2
    <3>. QED BY <2>2, <3>1, <3>3, <3>4
  <2>3. CASE p \notin dest + e .. dest + e + (g - e) - 1
    <3>1. p \in dest .. dest + g - 1 <=> p \in dest .. dest + e - 1
      BY <2>1, <2>3
    <3>. QED BY <1>1, <2>3, <3>1
  <2>. QED BY <2>2, <2>3
<1>. QED BY <1>1, <1>2 DEF Moved, m

\* Forwards.
LEMMA CopiedForwards ==
    ASSUME NEW dest \in Int, NEW src \in Int, NEW n \in Nat, NEW mem, Holds(mem, src, n),
           dest <= src \/ src + n <= dest,
           NEW accesses, Spans(accesses, 0, n)
    PROVE  Carried(mem, dest, src, accesses) = Moved(mem, dest, src, n)
<1>0. \A e, g \in 0 .. n :
          e <= g => Moved(Moved(mem, dest, src, e), dest + e, src + e, g - e) = Moved(mem, dest, src, g)
  BY MovedFurther
<1>. DEFINE N == Len(accesses)
<1>1. PICK end \in [0 .. N -> 0 .. n] :
          /\ end[0] = 0 /\ end[N] = n
          /\ \A k \in 1 .. N : /\ accesses[k].at = end[k - 1] /\ end[k] = end[k - 1] + accesses[k].width
                               /\ accesses[k].width \in Nat
  <2>1. accesses \in Seq([at : Int, width : Nat])
    BY DEF Spans
  <2>2. ASSUME NEW k \in 1 .. N PROVE accesses[k].width \in Nat
    <3>1. accesses[k] \in [at : Int, width : Nat]
      BY <2>1, ElementOfSeq, Zenon
    <3>. QED BY <3>1
  <2>. QED BY <2>2 DEF Spans
<1>2. N \in Nat
  BY DEF Spans
<1>. DEFINE f == [k \in 0 .. N |-> Moved(mem, dest, src, end[k])]
            move(m, k) == Moved(m, dest + accesses[k].at, src + accesses[k].at, accesses[k].width)
<1>3. Moved(mem, dest, src, 0) = mem
  BY DEF Moved, Holds
<1>4. ASSUME NEW k \in 1 .. N PROVE f[k] = move(f[k - 1], k)
  <2>0. /\ end[k - 1] \in 0 .. n /\ end[k] \in 0 .. n /\ k \in 0 .. N /\ k - 1 \in 0 .. N
        /\ accesses[k].at = end[k - 1] /\ end[k] = end[k - 1] + accesses[k].width
        /\ accesses[k].width \in Nat
    <3>1. k \in 0 .. N /\ k - 1 \in 0 .. N
      BY <1>2
    <3>. HIDE DEF f, move, N
    <3>. QED BY <1>1, <3>1
  <2>1. /\ k \in 0 .. N /\ k - 1 \in 0 .. N /\ end[k - 1] \in 0 .. n /\ end[k] \in 0 .. n
        /\ end[k - 1] <= end[k] /\ accesses[k].at = end[k - 1] /\ accesses[k].width = end[k] - end[k - 1]
    <3>. HIDE DEF f, move, N
    <3>. QED BY <2>0
  <2>2. f[k] = Moved(mem, dest, src, end[k]) /\ f[k - 1] = Moved(mem, dest, src, end[k - 1])
    BY <2>1
  <2>. DEFINE e == end[k - 1]
              g == end[k]
  <2>3. e \in 0 .. n /\ g \in 0 .. n /\ e <= g
    BY <2>1
  <2>4. Moved(Moved(mem, dest, src, e), dest + e, src + e, g - e) = Moved(mem, dest, src, g)
    <3>. HIDE DEF e, g, f, move
    <3>. QED BY <1>0, <2>3, Zenon
  <2>5. move(f[k - 1], k) = Moved(Moved(mem, dest, src, e), dest + e, src + e, g - e)
    <3>. HIDE DEF f
    <3>. QED BY <2>1, <2>2
  <2>. HIDE DEF f, move
  <2>. QED BY <2>2, <2>4, <2>5
<1>5. f[0] = mem /\ f = [k \in 0 .. N |-> f[k]] /\ f[N] = Moved(mem, dest, src, n)
  BY <1>1, <1>2, <1>3
<1>6. \A k \in 0 .. N : f[k] = IF k = 0 THEN mem ELSE move(f[k - 1], k)
  <2>. HIDE DEF f, move
  <2>. QED BY <1>2, <1>4, <1>5
<1>7. Steps(f, mem, dest, src, accesses)
  <2>. HIDE DEF f
  <2>. QED BY <1>5, <1>6 DEF Steps
<1>. HIDE DEF f
<1>. QED BY <1>2, <1>5, <1>7, CarriedIs

\* Backwards, byte by byte.
LEMMA CopiedBackwards ==
    ASSUME NEW dest \in Int, NEW src \in Int, NEW n \in Nat, NEW mem, Holds(mem, src, n), src <= dest
    PROVE  Carried(mem, dest, src, Reverse(Accesses(0, n, 1))) = Moved(mem, dest, src, n)
<1>. DEFINE accesses == Reverse(Accesses(0, n, 1))
            rest(k) == [p \in DOMAIN mem |-> IF p \in dest + n - k .. dest + n - 1 THEN mem[src + p - dest] ELSE mem[p]]
            f == [k \in 0 .. n |-> rest(k)]
            move(m, k) == Moved(m, dest + accesses[k].at, src + accesses[k].at, accesses[k].width)
<1>1. /\ Len(accesses) = n
      /\ \A k \in 1 .. n : accesses[k].at = n - k /\ accesses[k].width = 1
  <2>1. Accesses(0, n, 1) \in Seq([at : Int, width : {1}]) /\ Len(Accesses(0, n, 1)) = n
    BY DEF Accesses
  <2>. QED BY <2>1 DEF Reverse, Accesses
<1>. HIDE DEF accesses
<1>2. rest(0) = mem /\ rest(n) = Moved(mem, dest, src, n)
  BY DEF Moved, Holds
<1>3. ASSUME NEW k \in 1 .. n PROVE f[k] = move(f[k - 1], k)
  <2>. DEFINE m == rest(k - 1)
  <2>1. k \in 0 .. n /\ k - 1 \in 0 .. n /\ f[k] = rest(k) /\ f[k - 1] = m
    OBVIOUS
  <2>2. move(m, k) = Moved(m, dest + (n - k), src + (n - k), 1)
    BY <1>1
  <2>3. /\ DOMAIN m = DOMAIN mem
        /\ \A p \in DOMAIN mem :
              m[p] = IF p \in dest + n - (k - 1) .. dest + n - 1 THEN mem[src + p - dest] ELSE mem[p]
    OBVIOUS
  <2>. HIDE DEF m
  <2>4. ASSUME NEW p \in DOMAIN mem
        PROVE  (IF p \in dest + (n - k) .. dest + (n - k) + 1 - 1 THEN m[src + (n - k) + p - (dest + (n - k))] ELSE m[p])
                   = IF p \in dest + n - k .. dest + n - 1 THEN mem[src + p - dest] ELSE mem[p]
    <3>1. p \in Int
      BY DEF Holds
    <3>2. CASE p = dest + (n - k)
      <4>1. /\ src + (n - k) + p - (dest + (n - k)) = src + (n - k)
            /\ src + p - dest = src + (n - k)
            /\ src + (n - k) \in src .. src + n - 1
            /\ src + (n - k) \notin dest + n - (k - 1) .. dest + n - 1
            /\ p \in dest + n - k .. dest + n - 1
            /\ p \in dest + (n - k) .. dest + (n - k) + 1 - 1
        BY <3>1, <3>2
      <4>2. m[src + (n - k)] = mem[src + (n - k)]
        BY <2>3, <4>1 DEF Holds
      <4>. QED BY <4>1, <4>2
    <3>3. CASE p # dest + (n - k)
      <4>1. /\ p \in dest + n - k .. dest + n - 1 <=> p \in dest + n - (k - 1) .. dest + n - 1
            /\ p \notin dest + (n - k) .. dest + (n - k) + 1 - 1
        BY <3>1, <3>3
      <4>. QED BY <2>3, <4>1
    <3>. QED BY <3>2, <3>3
  <2>5. Moved(m, dest + (n - k), src + (n - k), 1) = rest(k)
    BY <2>3, <2>4 DEF Moved
  <2>. HIDE DEF f, move, rest
  <2>. QED BY <2>1, <2>2, <2>5
<1>4. f[0] = mem /\ f = [k \in 0 .. n |-> f[k]] /\ f[n] = Moved(mem, dest, src, n)
  <2>. HIDE DEF rest
  <2>. QED BY <1>2
<1>5. \A k \in 0 .. n : f[k] = IF k = 0 THEN mem ELSE move(f[k - 1], k)
  <2>. HIDE DEF f, move
  <2>1. \A k \in 0 .. n : k = 0 \/ k \in 1 .. n
    OBVIOUS
  <2>. QED BY <1>3, <1>4, <2>1
<1>6. Steps(f, mem, dest, src, accesses)
  <2>. HIDE DEF f
  <2>. QED BY <1>1, <1>4, <1>5 DEF Steps
<1>. HIDE DEF f
<1>7. Carried(mem, dest, src, accesses) = Moved(mem, dest, src, n)
  BY <1>1, <1>4, <1>6, CarriedIs
<1>. QED BY <1>7 DEF accesses

\* The accesses of one loop.
LEMMA LoopSpans ==
    ASSUME NEW at \in Nat, NEW n \in Nat, NEW w \in Nat
    PROVE  Spans(Accesses(at, n, w), at, at + n * w)
<1>. DEFINE accesses == Accesses(at, n, w)
            end == [k \in 0 .. n |-> at + k * w]
<1>1. \A k \in 0 .. n : k * w \in Nat /\ k * w <= n * w
  <2>1. ASSUME NEW k \in 0 .. n PROVE k * w \in Nat /\ k * w <= n * w
    <3>1. w * k <= w * n
      BY Scaled
    <3>. QED BY <3>1
  <2>. QED BY <2>1
<1>2. \A k \in 1 .. n : (k - 1) * w \in Int /\ k * w = (k - 1) * w + w /\ k \in 0 .. n /\ k - 1 \in 0 .. n
  OBVIOUS
<1>3. accesses \in Seq([at : Int, width : Nat]) /\ Len(accesses) = n
  BY <1>2 DEF Accesses
<1>4. \A k \in 1 .. n : accesses[k].at = at + (k - 1) * w /\ accesses[k].width = w
  BY DEF Accesses
<1>5. end \in [0 .. n -> at .. at + n * w]
  BY <1>1
<1>6. end[0] = at /\ end[n] = at + n * w
  BY <1>1
<1>7. \A k \in 1 .. n : accesses[k].at = end[k - 1] /\ end[k] = end[k - 1] + accesses[k].width
  BY <1>1, <1>2, <1>4
<1>. HIDE DEF accesses, end
<1>8. Spans(accesses, at, at + n * w)
  BY <1>3, <1>5, <1>6, <1>7 DEF Spans
<1>. QED BY <1>8 DEF accesses

\* One loop after another.
LEMMA LoopsSpan ==
    ASSUME NEW a, NEW b, NEW from \in Int, NEW mid \in Int, NEW to \in Int,
           Spans(a, from, mid), Spans(b, mid, to)
    PROVE  Spans(a \o b, from, to)
<1>. DEFINE M == Len(a)
            N == Len(b)
            c == a \o b
<1>1. PICK enda \in [0 .. M -> from .. mid] :
          /\ enda[0] = from /\ enda[M] = mid
          /\ \A k \in 1 .. M : a[k].at = enda[k - 1] /\ enda[k] = enda[k - 1] + a[k].width
  BY DEF Spans
<1>2. PICK endb \in [0 .. N -> mid .. to] :
          /\ endb[0] = mid /\ endb[N] = to
          /\ \A k \in 1 .. N : b[k].at = endb[k - 1] /\ endb[k] = endb[k - 1] + b[k].width
  BY DEF Spans
<1>3. /\ c \in Seq([at : Int, width : Nat]) /\ Len(c) = M + N /\ M \in Nat /\ N \in Nat
      /\ \A k \in 1 .. M : c[k] = a[k]
      /\ \A k \in 1 .. N : c[M + k] = b[k]
  BY DEF Spans
<1>. HIDE DEF M, N, c
<1>3a. M \in Nat /\ N \in Nat
  BY <1>3
<1>. DEFINE end == [k \in 0 .. M + N |-> IF k <= M THEN enda[k] ELSE endb[k - M]]
<1>4. from <= mid /\ mid <= to
  <2>1. enda[M] \in from .. mid /\ endb[N] \in mid .. to
    BY <1>1, <1>2, <1>3
  <2>. QED BY <2>1
<1>5. end \in [0 .. M + N -> from .. to]
  <2>1. ASSUME NEW k \in 0 .. M + N PROVE (IF k <= M THEN enda[k] ELSE endb[k - M]) \in from .. to
    <3>1. CASE k <= M
      <4>1. enda[k] \in from .. mid
        BY <1>1, <1>3, <3>1
      <4>. QED BY <1>4, <3>1, <4>1
    <3>2. CASE ~(k <= M)
      <4>1. endb[k - M] \in mid .. to
        BY <1>2, <1>3, <3>2
      <4>. QED BY <1>4, <3>2, <4>1
    <3>. QED BY <3>1, <3>2
  <2>. QED BY <2>1
<1>6. end[0] = from /\ end[M + N] = to
  BY <1>1, <1>2, <1>3
<1>7. /\ \A k \in 0 .. M : end[k] = enda[k]
      /\ \A k \in 0 .. N : end[M + k] = endb[k]
  <2>1. \A k \in 0 .. M : end[k] = enda[k]
    BY <1>3
  <2>2. ASSUME NEW k \in 0 .. N PROVE end[M + k] = endb[k]
    <3>1. M + k \in 0 .. M + N /\ (M + k) - M = k /\ (M + k <= M => k = 0 /\ M + k = M)
      BY <1>3a
    <3>2. end[M + k] = IF M + k <= M THEN enda[M + k] ELSE endb[(M + k) - M]
      BY <3>1
    <3>. QED BY <1>1, <1>2, <3>1, <3>2
  <2>. QED BY <2>1, <2>2
<1>. HIDE DEF end
<1>8. ASSUME NEW k \in 1 .. M + N PROVE c[k].at = end[k - 1] /\ end[k] = end[k - 1] + c[k].width
  <2>1. CASE k <= M
    <3>1. k \in 1 .. M /\ k \in 0 .. M /\ k - 1 \in 0 .. M
      BY <1>3a, <2>1
    <3>. QED BY <1>1, <1>3, <1>7, <3>1
  <2>2. CASE k > M
    <3>. DEFINE h == k - M
    <3>1. h \in 1 .. N /\ M + h = k /\ M + (h - 1) = k - 1 /\ h \in 0 .. N /\ h - 1 \in 0 .. N
      BY <1>3a, <2>2
    <3>. HIDE DEF h
    <3>2. c[k] = b[h] /\ end[k] = endb[h] /\ end[k - 1] = endb[h - 1]
      BY <1>3, <1>7, <3>1
    <3>. QED BY <1>2, <3>1, <3>2
  <2>. QED BY <1>3, <2>1, <2>2
<1>9. Spans(c, from, to)
  <2>1. \E e \in [0 .. Len(c) -> from .. to] :
          /\ e[0] = from /\ e[Len(c)] = to
          /\ \A k \in 1 .. Len(c) : c[k].at = e[k - 1] /\ e[k] = e[k - 1] + c[k].width
    BY <1>3, <1>5, <1>6, <1>8
  <2>. QED BY <1>3, <2>1 DEF Spans
<1>. QED BY <1>9 DEF c

\* Widths that a boundary may have.
Widths == {1, 2, 4, 8}

LEMMA Widest ==
    ASSUME NEW S, S \subseteq Widths, 1 \in S
    PROVE  Max(S) \in Widths
<1>1. \E x \in S : \A y \in S : x >= y
  <2>1. CASE 8 \in S
    BY <2>1 DEF Widths
  <2>2. CASE 8 \notin S /\ 4 \in S
    BY <2>2 DEF Widths
  <2>3. CASE 8 \notin S /\ 4 \notin S /\ 2 \in S
    BY <2>3 DEF Widths
  <2>4. CASE S = {1}
    BY <2>4
  <2>. QED BY <2>1, <2>2, <2>3, <2>4 DEF Widths
<1>. QED BY <1>1 DEF Max

LEMMA Lesser ==
    ASSUME NEW m \in Nat, NEW n \in Nat
    PROVE  Min({n, m}) \in 0 .. n
<1>1. \E x \in {n, m} : \A y \in {n, m} : x <= y
  OBVIOUS
<1>2. Min({n, m}) \in {n, m} /\ \A y \in {n, m} : Min({n, m}) <= y
  BY <1>1 DEF Min
<1>. QED BY <1>2

\* memcpy's three loops leave no gap.
LEMMA CopySpans ==
    ASSUME NEW dest \in Nat, NEW src \in Nat, NEW n \in Nat
    PROVE  Spans(CopyAccesses(dest, src, n), 0, n)
<1>. DEFINE unit == LeadUnit(dest, src)
            before == (unit - (dest % unit)) % unit
            lead == Min({n, before})
            main == MainUnit(dest, src)
            many == (n - lead) \div main
            rest == (n - lead) % main
            a == Accesses(0, lead, 1)
            b == Accesses(lead, many, main)
            c == Accesses(lead + many * main, rest, 1)
<1>1. unit \in Widths
  <2>. DEFINE S == {1} \cup {w \in {2, 4, 8} : dest % w # 0 /\ dest % w = src % w}
  <2>1. S \subseteq Widths /\ 1 \in S
    BY DEF Widths
  <2>2. unit = Max(S)
    BY DEF LeadUnit
  <2>. HIDE DEF S, unit
  <2>. QED BY <2>1, <2>2, Widest
<1>2. main \in Widths
  <2>. DEFINE S == {w \in {1, 2, 4, 8} : dest % w = 0 /\ src % w = 0}
  <2>1. S \subseteq Widths /\ 1 \in S
    BY DEF Widths
  <2>2. main = 1 \/ main = Max(S)
    BY DEF MainUnit
  <2>. HIDE DEF S, main
  <2>. QED BY <2>1, <2>2, Widest DEF Widths
<1>3. CopyAccesses(dest, src, n) = a \o b \o c
  BY DEF CopyAccesses
<1>4. before \in Nat
  <2>. HIDE DEF unit
  <2>. QED BY <1>1 DEF Widths
<1>. HIDE DEF before, main
<1>5. lead \in 0 .. n
  BY <1>4, Lesser
<1>. HIDE DEF lead
<1>6. many \in Nat /\ rest \in Nat /\ n - lead = main * many + rest /\ main \in Nat
  <2>1. n - lead \in Nat /\ main \in Nat /\ main > 0
    BY <1>2, <1>5 DEF Widths
  <2>. QED BY <2>1, Divided
<1>. HIDE DEF many, rest
<1>7. Spans(a, 0, lead)
  <2>1. 0 + lead * 1 = lead /\ lead \in Nat
    BY <1>5
  <2>. HIDE DEF a
  <2>. QED BY <2>1, LoopSpans DEF a
<1>8. lead + many * main \in Nat /\ lead + many * main + rest * 1 = n
  BY <1>5, <1>6
<1>9. Spans(b, lead, lead + many * main)
  BY <1>5, <1>6, LoopSpans
<1>10. Spans(c, lead + many * main, n)
  <2>1. Spans(c, lead + many * main, lead + many * main + rest * 1)
    BY <1>6, <1>8, LoopSpans
  <2>. QED BY <1>8, <2>1
<1>. HIDE DEF a, b, c
<1>11. Spans(a \o b, 0, lead + many * main)
  BY <1>5, <1>7, <1>8, <1>9, LoopsSpan
<1>12. Spans((a \o b) \o c, 0, n)
  BY <1>8, <1>10, <1>11, LoopsSpan
<1>. QED BY <1>3, <1>12

\* memcpy where it copies forwards, memmove everywhere.
LEMMA MemCpyCopies ==
    ASSUME NEW dest \in Nat, NEW src \in Nat, NEW n \in Nat, NEW mem, Holds(mem, src, n),
           dest <= src \/ src + n <= dest
    PROVE  MemCpy(mem, dest, src, n) = Moved(mem, dest, src, n)
BY CopySpans, CopiedForwards DEF MemCpy

LEMMA CopyAlwaysAgrees ==
    ASSUME NEW dest \in Nat, NEW src \in Nat, NEW n \in Nat, NEW mem, Holds(mem, src, n)
    PROVE  CopyAgrees(mem, dest, src, n)
<1>1. CASE dest < src
  BY <1>1, MemCpyCopies DEF CopyAgrees, MemMove
<1>2. CASE ~(dest < src)
  <2>1. MemMove(mem, dest, src, n) = Moved(mem, dest, src, n)
    BY <1>2, CopiedBackwards DEF MemMove
  <2>2. dest + n <= src \/ src + n <= dest => dest <= src \/ src + n <= dest
    OBVIOUS
  <2>. QED BY <2>1, <2>2, MemCpyCopies DEF CopyAgrees
<1>. QED BY <1>1, <1>2

\* C division and TLA+'s modulus agree on what a negative byte is.
LEMMA NegativeByte == ASSUME NEW c \in Int, -256 <= c, c < 0 PROVE c % 256 = c + 256
<1>1. c % 256 \in 0 .. 255 /\ c \div 256 \in Int /\ c = 256 * (c \div 256) + (c % 256)
OBVIOUS
<1>. QED BY <1>1

\* memset: every byte of the range, and no other, holds the low byte of c.
LEMMA FillsAgree ==
    ASSUME NEW dest \in Nat, NEW n \in Nat, NEW c \in 0 .. 255 \union {-1}, NEW mem, DOMAIN mem \subseteq Nat
    PROVE  SetAgrees(mem, dest, c, n)
<1>. DEFINE unaligned == (8 - (dest % 8)) % 8
            lead == Min({n, unaligned})
            words == 8 * ((n - lead) \div 8)
<1>1. unaligned \in Nat
  OBVIOUS
<1>2. lead \in 0 .. n
  <2>. HIDE DEF unaligned
  <2>1. \E x \in {n, unaligned} : \A y \in {n, unaligned} : x <= y
    BY <1>1
  <2>2. lead \in {n, unaligned} /\ \A y \in {n, unaligned} : lead <= y
    BY <2>1 DEF Min
  <2>. QED BY <1>1, <2>2
<1>3. words \in 0 .. n - lead
  <2>. HIDE DEF lead
  <2>. QED BY <1>2
<1>4. \A p : PatternByte(c, p % 8) = c % 256
  <2>1. CASE c >= 0
    BY <2>1 DEF PatternByte
  <2>2. CASE ~(c >= 0)
    <3>1. c \in Int /\ -256 <= c /\ c < 0 /\ c + 256 = 255
      BY <2>2
    <3>2. c % 256 = c + 256
      BY <3>1, NegativeByte, Zenon
    <3>3. c % 256 = 255
      BY <3>1, <3>2, Zenon
    <3>. QED BY <2>2, <3>3 DEF PatternByte
  <2>. QED BY <2>1, <2>2
<1>5. MemSet(mem, dest, c, n) =
          [p \in DOMAIN mem |->
              IF p \in dest + lead .. dest + lead + words - 1 THEN PatternByte(c, p % 8)
              ELSE IF p \in dest .. dest + n - 1 THEN c % 256
              ELSE mem[p]]
  BY DEF MemSet
<1>6. \A p : p \in dest + lead .. dest + lead + words - 1 => p \in dest .. dest + n - 1
  <2>. HIDE DEF lead, words
  <2>. QED BY <1>2, <1>3
<1>. HIDE DEF lead, words
<1>7. ASSUME NEW p \in DOMAIN mem PROVE MemSet(mem, dest, c, n)[p] = IF p \in dest .. dest + n - 1 THEN c % 256 ELSE mem[p]
  BY <1>4, <1>5, <1>6
<1>. QED BY <1>5, <1>7 DEF SetAgrees

-----------------------------------------------------------------------------
(* Routines: clocks. *)

LEMMA QuotientsRise ==
    ASSUME NEW d \in Nat, d > 0, NEW m \in Nat, NEW n \in Nat, m <= n
    PROVE  m \div d <= n \div d
<1>. DEFINE p == m \div d
            q == n \div d
<1>1. /\ p \in Nat /\ m % d \in Nat /\ m = d * p + (m % d)
      /\ q \in Nat /\ n % d < d /\ n % d \in Nat /\ n = d * q + (n % d)
  BY Divided
<1>2. SUFFICES ASSUME q + 1 <= p PROVE FALSE
  BY <1>1
<1>3. d * (q + 1) <= d * p /\ d * (q + 1) = d * q + d
  <2>. HIDE DEF p, q
  <2>. QED BY <1>1, <1>2, Scaled
<1>. QED BY <1>1, <1>3

\* getSystemTimer: a time that passed while it was read, for counters of any width, unless
\* reading takes as long as the lower half takes to wrap.
LEMMA TimesAreRead ==
    ASSUME NEW half \in Nat, half > 0, NEW at \in [1 .. 5 -> Nat],
           \A i \in 1 .. 4 : at[i] <= at[i + 1], at[5] - at[1] < half
    PROVE  TimeAgrees(at, half)
<1>. DEFINE q(i) == at[i] \div half
<1>1. /\ at[1] \in Nat /\ at[2] \in Nat /\ at[3] \in Nat /\ at[4] \in Nat /\ at[5] \in Nat
      /\ at[1] <= at[2] /\ at[2] <= at[3] /\ at[3] <= at[4] /\ at[4] <= at[5]
  OBVIOUS
<1>2. /\ q(1) <= q(2) /\ q(2) <= q(3) /\ q(3) <= q(4) /\ q(4) <= q(5)
      /\ q(1) \in Nat /\ q(2) \in Nat /\ q(3) \in Nat /\ q(4) \in Nat /\ q(5) \in Nat
  BY <1>1, QuotientsRise, Divided
<1>3. \A i \in 1 .. 5 : at[i] = half * q(i) + (at[i] % half) /\ at[i] % half < half /\ at[i] % half \in Nat
  BY Divided
<1>4. GetSystemTimer(at, half) = IF q(1) = q(3) THEN q(1) * half + (at[2] % half)
                                 ELSE q(4) * half + (at[5] % half)
  BY DEF GetSystemTimer
<1>. HIDE DEF q
<1>5. CASE q(1) = q(3)
  <2>1. q(1) = q(2) /\ q(2) * half = half * q(2)
    BY <1>2, <1>5
  <2>2. GetSystemTimer(at, half) = at[2]
    BY <1>3, <1>4, <1>5, <2>1
  <2>. QED BY <1>1, <2>2 DEF TimeAgrees
<1>6. CASE q(1) # q(3)
  <2>1. q(4) = q(5)
    <3>1. SUFFICES ASSUME q(4) + 1 <= q(5) PROVE FALSE
      BY <1>2
    <3>2. q(1) + 2 <= q(5)
      BY <1>2, <1>6, <3>1
    <3>3. half * (q(1) + 2) <= half * q(5) /\ half * (q(1) + 2) = half * q(1) + 2 * half
      BY <1>2, <3>2, Scaled
    <3>4. half * q(1) \in Nat /\ half * q(5) \in Nat
      BY <1>2
    <3>. QED BY <1>1, <1>3, <3>3, <3>4
  <2>2. GetSystemTimer(at, half) = at[5]
    <3>1. q(4) * half = half * q(5)
      BY <1>2, <2>1
    <3>. QED BY <1>3, <1>4, <1>6, <3>1
  <2>. QED BY <1>1, <2>2 DEF TimeAgrees
<1>. QED BY <1>5, <1>6

\* UART: the divisor is the nearest 64th for every clock and baud rate.
LEMMA BaudsAgree ==
    ASSUME NEW clockrate \in Nat, NEW baud \in Nat, baud > 0
    PROVE  BaudAgrees(clockrate, baud)
<1>. DEFINE unit == baud * 16
            i == clockrate \div unit
            r == clockrate % unit
            e == (r * 8) \div baud
            s == (r * 8) % baud
            f == (e \div 2) + (e % 2)
<1>1. unit \in Nat /\ unit > 0
  OBVIOUS
<1>2. i \in Nat /\ r \in Nat /\ r < baud * 16 /\ clockrate = unit * i + r
  <2>. HIDE DEF unit
  <2>1. i \in Nat /\ r \in Nat /\ r < unit /\ clockrate = unit * i + r
    BY <1>1, Divided
  <2>. QED BY <2>1 DEF unit
<1>3. e \in Nat /\ s \in Nat /\ s < baud /\ r * 8 = baud * e + s
  <2>1. r * 8 \in Nat
    BY <1>2
  <2>. HIDE DEF r
  <2>. QED BY <2>1, Divided
<1>4. BaudDivisor(clockrate, baud) = [intdiv |-> i, fractdiv |-> f]
  BY DEF BaudDivisor
<1>. HIDE DEF i, r, e, s
<1>5. f \in Nat /\ 2 * f - e \in {0, 1}
  BY <1>3
<1>6. e < 128
  <2>1. SUFFICES ASSUME 128 <= e PROVE FALSE
    BY <1>3
  <2>2. baud * 128 <= baud * e
    BY <1>3, <2>1, Scaled
  <2>. QED BY <1>2, <1>3, <2>2
<1>7. f \in 0 .. 64
  BY <1>3, <1>5, <1>6
<1>. HIDE DEF f
<1>8. (64 * i + f) * baud - 4 * clockrate = baud * f - 4 * r
  <2>1. unit * i = 16 * (baud * i) /\ baud * i \in Int
    BY <1>2
  <2>2. (64 * i + f) * baud = 64 * (baud * i) + baud * f
    BY <1>2, <1>5
  <2>3. baud * f \in Int
    BY <1>5
  <2>. HIDE DEF unit
  <2>. QED BY <1>2, <2>1, <2>2, <2>3
<1>9. 2 * (baud * f) = baud * e + baud * (2 * f - e)
  BY <1>3, <1>5
<1>10. baud * (2 * f - e) \in {0, baud}
  BY <1>5
<1>11. 2 * (baud * f - 4 * r) \in -baud .. baud
  <2>1. baud * f \in Int /\ baud * e \in Int
    BY <1>3, <1>5
  <2>. QED BY <1>2, <1>3, <1>9, <1>10, <2>1
<1>12. f > 63 <=> 2 * (64 * (i + 1) * baud - 4 * clockrate) \in 0 .. baud
  <2>1. 64 * (i + 1) * baud - 4 * clockrate = baud * 64 - 4 * r
    <3>1. unit * i = 16 * (baud * i) /\ baud * i \in Int
      BY <1>2
    <3>2. 64 * (i + 1) * baud = 64 * (baud * i) + baud * 64
      BY <1>2
    <3>. HIDE DEF unit
    <3>. QED BY <1>2, <3>1, <3>2
  <2>2. CASE f = 64
    <3>1. baud * f = baud * 64
      BY <2>2
    <3>. QED BY <1>2, <1>11, <2>1, <2>2, <3>1
  <2>3. CASE f < 64
    <3>1. e <= 126
      BY <1>3, <1>5, <2>3
    <3>2. r * 8 < baud * 127
      <4>1. baud * e <= baud * 126
        BY <1>3, <3>1, Scaled
      <4>. QED BY <1>3, <4>1
    <3>3. baud < 2 * (baud * 64 - 4 * r)
      BY <1>2, <3>2
    <3>4. baud < 2 * (64 * (i + 1) * baud - 4 * clockrate)
      BY <2>1, <3>3
    <3>5. 2 * (64 * (i + 1) * baud - 4 * clockrate) \notin 0 .. baud
      <4>. DEFINE x == 2 * (64 * (i + 1) * baud - 4 * clockrate)
      <4>. HIDE DEF x
      <4>. QED BY <3>4 DEF x
    <3>. QED BY <1>7, <2>3, <3>5
  <2>. QED BY <1>7, <2>2, <2>3
<1>. QED BY <1>4, <1>7, <1>8, <1>11, <1>12 DEF BaudAgrees

\* The powers of two as a function.
Power == [b \in 0 .. 30 |-> 2^b]

LEMMA Powers ==
    /\ Power[0] = 1 /\ Power[1] = 2 /\ Power[2] = 4 /\ Power[3] = 8 /\ Power[4] = 16 /\ Power[5] = 32
    /\ Power[6] = 64 /\ Power[7] = 128 /\ Power[8] = 256 /\ Power[9] = 512 /\ Power[10] = 1024
    /\ \A b \in 11 .. 30 : Power[b] \in Nat /\ Power[b] >= 2048
<1>1. /\ Power[0] = 1 /\ Power[1] = 2 /\ Power[2] = 4 /\ Power[3] = 8 /\ Power[4] = 16 /\ Power[5] = 32
      /\ Power[6] = 64 /\ Power[7] = 128 /\ Power[8] = 256 /\ Power[9] = 512 /\ Power[10] = 1024
  BY DEF Power
<1>2. Power[11] = 2048 /\ Power[12] = 4096 /\ Power[13] = 8192 /\ Power[14] = 16384 /\ Power[15] = 32768 /\ Power[16] = 65536 /\ Power[17] = 131072 /\ Power[18] = 262144 /\ Power[19] = 524288 /\ Power[20] = 1048576 /\ Power[21] = 2097152 /\ Power[22] = 4194304 /\ Power[23] = 8388608 /\ Power[24] = 16777216 /\ Power[25] = 33554432 /\ Power[26] = 67108864 /\ Power[27] = 134217728 /\ Power[28] = 268435456 /\ Power[29] = 536870912 /\ Power[30] = 1073741824
  BY DEF Power
<1>3. \A b \in 11 .. 30 : b = 11 \/ b = 12 \/ b = 13 \/ b = 14 \/ b = 15 \/ b = 16 \/ b = 17 \/ b = 18 \/ b = 19 \/ b = 20 \/ b = 21 \/ b = 22 \/ b = 23 \/ b = 24 \/ b = 25 \/ b = 26 \/ b = 27 \/ b = 28 \/ b = 29 \/ b = 30
  OBVIOUS
<1>. QED BY <1>1, <1>2, <1>3 DEF Power

LEMMA PowerIs == ASSUME NEW b \in 0 .. 30 PROVE 2^b = Power[b]
BY Zenon DEF Power

LEMMA MaxIs ==
    ASSUME NEW S, NEW m \in S, S \subseteq Int, \A x \in S : x <= m
    PROVE  Max(S) = m
<1>. DEFINE top == Max(S)
<1>1. \E x \in S : \A y \in S : x >= y
  OBVIOUS
<1>2. top \in S /\ \A y \in S : top >= y
  BY <1>1 DEF Max
<1>. HIDE DEF top
<1>3. top \in Int /\ m \in Int /\ top >= m /\ top <= m
  BY <1>2
<1>4. top = m
  BY <1>3
<1>. QED BY <1>4 DEF top

\* A divisor that ten bits can hold half of.
TenBits(q) == q \in 1 .. 2046

\* k is the highest bit of q.
HighestBit(q, k) == Power[k] <= q /\ q < 2 * Power[k]

\* FirstBit finds it.
LEMMA FirstBitIsHighest ==
    ASSUME NEW q, TenBits(q)
    PROVE  \E k \in 0 .. 10 : HighestBit(q, k) /\ FirstBit(q) = k
<1>. DEFINE Bits == {b \in 0 .. 30 : 2^b <= q}
<1>1. ASSUME NEW k \in 0 .. 10, HighestBit(q, k) PROVE FirstBit(q) = k
  <2>1. ASSUME NEW b \in Bits PROVE b <= k
    <3>1. b \in 0 .. 30 /\ 2^b <= q
      BY Zenon
    <3>2. 2^b = Power[b]
      BY <3>1, PowerIs, Zenon
    <3>3. Power[b] <= q
      BY <3>1, <3>2, Zenon
    <3>. HIDE DEF Bits
    <3>4. b \notin 11 .. 30
      <4>1. \A x \in 11 .. 30 : Power[x] \in Nat /\ Power[x] >= 2048
        BY Powers
      <4>2. q \in Int /\ q < 2048
        BY DEF TenBits
      <4>. QED BY <3>3, <4>1, <4>2
    <3>5. SUFFICES ASSUME b > k PROVE FALSE
      BY <3>1
    <3>. QED BY <1>1, <3>1, <3>3, <3>4, <3>5, Powers DEF HighestBit, TenBits
  <2>2. k \in Bits
    <3>1. k \in 0 .. 30
      OBVIOUS
    <3>2. 2^k = Power[k]
      BY <3>1, PowerIs, Zenon
    <3>. QED BY <1>1, <3>1, <3>2, Zenon DEF HighestBit
  <2>3. Bits \subseteq Int
    <3>1. 0 .. 30 \subseteq Int
      OBVIOUS
    <3>. QED BY <3>1, Zenon
  <2>4. FirstBit(q) = Max(Bits)
    BY Zenon DEF FirstBit
  <2>. HIDE DEF Bits
  <2>. QED BY <2>1, <2>2, <2>3, <2>4, MaxIs
<1>2. \E k \in 0 .. 10 : HighestBit(q, k)
  <2>1. HighestBit(q, 0) \/ HighestBit(q, 1) \/ HighestBit(q, 2) \/ HighestBit(q, 3) \/ HighestBit(q, 4) \/ HighestBit(q, 5) \/ HighestBit(q, 6)
        \/ HighestBit(q, 7) \/ HighestBit(q, 8) \/ HighestBit(q, 9) \/ HighestBit(q, 10)
    BY Powers DEF HighestBit, TenBits
  <2>. QED BY <2>1
<1>. QED BY <1>1, <1>2

\* What the field holds for an exponent, and what is divided by.
LEMMA FieldDivides ==
    ASSUME NEW e \in 0 .. 11
    PROVE  LET field == FieldOf(e)
           IN  Denominator(((field % 256) * 256) + (((field \div 256) % 4) * 64)) =
                   IF e = 11 THEN 2046 ELSE Power[e]
<1>. DEFINE field == FieldOf(e)
            register == ((field % 256) * 256) + (((field \div 256) % 4) * 64)
<1>1. field = IF e = 0 THEN 0 ELSE IF e = 11 THEN 1023 ELSE Power[e - 1]
  <2>1. e > 0 => e - 1 \in 0 .. 30
    OBVIOUS
  <2>2. e > 0 => 2^(e - 1) = Power[e - 1]
    BY <2>1, PowerIs, Zenon
  <2>. QED BY <2>2 DEF FieldOf
<1>2. field \in 0 .. 1023 /\ (IF field = 0 THEN 1 ELSE 2 * field) = IF e = 11 THEN 2046 ELSE Power[e]
  BY <1>1, Powers
<1>. HIDE DEF field
<1>3. ((register \div 256) % 256) + (((register \div 64) % 4) * 256) = field
  <2>1. field = 256 * (field \div 256) + (field % 256) /\ field % 256 \in 0 .. 255 /\ field \div 256 \in 0 .. 3
    BY <1>2
  <2>. QED BY <2>1
<1>. QED BY <1>2, <1>3 DEF Denominator, field

LEMMA DividersAgree ==
    ASSUME NEW base_clock \in Nat, NEW target_rate \in Nat, target_rate > 0
    PROVE  DividerAgrees(base_clock, target_rate)
<1>. DEFINE c == base_clock \div target_rate
            q == IF base_clock % target_rate = 0 THEN c ELSE c - 1
            register == GetClockDivider(base_clock, target_rate)
<1>1. SUFFICES ASSUME TenBits(q)
               PROVE  Denominator(register) \in q .. 2 * q - 1
  BY DEF DividerAgrees, TenBits
<1>2. TargetedDivisor(base_clock, target_rate) = q
  <2>. DEFINE m == base_clock % target_rate
              p == target_rate * c
  <2>1. c \in Nat /\ m \in Nat /\ base_clock = p + m
    BY Divided
  <2>2. c >= 1
    BY <1>1, <2>1 DEF TenBits
  <2>3. p \in Nat /\ target_rate <= p
    <3>. HIDE DEF c
    <3>1. target_rate * 1 <= target_rate * c
      BY <2>1, <2>2, Scaled
    <3>. QED BY <2>1, <2>2, <3>1
  <2>4. ~(target_rate > base_clock)
    <3>. HIDE DEF c, m, p
    <3>. QED BY <2>1, <2>3
  <2>. QED BY <2>4 DEF TargetedDivisor
<1>. HIDE DEF q
<1>3. PICK k \in 0 .. 10 : HighestBit(q, k) /\ FirstBit(q) = k
  BY <1>1, FirstBitIsHighest
<1>. DEFINE e == IF Power[k] = q THEN k ELSE k + 1
<1>4. e \in 0 .. 11 /\ Exponent(q) = e
  <2>1. k \in 0 .. 30
    OBVIOUS
  <2>2. 2^k = Power[k]
    BY <2>1, PowerIs, Zenon
  <2>. QED BY <1>1, <1>3, <2>2 DEF Exponent, HighestBit, TenBits
<1>5. register = ((FieldOf(e) % 256) * 256) + (((FieldOf(e) \div 256) % 4) * 64)
  BY <1>2, <1>4 DEF GetClockDivider
<1>6. Denominator(register) = IF e = 11 THEN 2046 ELSE Power[e]
  BY <1>4, <1>5, FieldDivides
<1>7. (IF e = 11 THEN 2046 ELSE Power[e]) \in q .. 2 * q - 1
  BY <1>1, <1>3, Powers DEF HighestBit, TenBits
<1>. QED BY <1>6, <1>7

-----------------------------------------------------------------------------
(* Routines: paths. *)

-----------------------------------------------------------------------------
(* The loop of simplifyPath. *)

\* The strings; the provers do not know that these are some.
Piece == STRING \cup {"", "."} \cup {".."}

\* What stands between two slashes that follow each other.
Blank == ""

\* The pieces that stay in a path.
Named == Piece \ {"", ".", ".."}

\* Over these pieces the loop goes from what it kept before to result.
Turns(f, before, pieces) == f[0] = before /\ \A k \in 1 .. Len(pieces) : f[k] = Turn(f[k - 1], pieces[k])
Yields(before, pieces, result) ==
    \E f \in [0 .. Len(pieces) -> Seq(Named)] : Turns(f, before, pieces) /\ f[Len(pieces)] = result

\* Front.
LEMMA FrontIs ==
    ASSUME NEW S, NEW s \in Seq(S), s # <<>>
    PROVE  /\ Len(s) \in Nat \ {0}
           /\ Front(s) \in Seq(S) /\ Len(Front(s)) = Len(s) - 1
           /\ \A i \in 1 .. Len(s) - 1 : Front(s)[i] = s[i]
<1>. DEFINE m == Len(s) - 1
            front == SubSeq(s, 1, m)
<1>1. Len(s) \in Nat \ {0}
  BY EmptySeq
<1>2. m \in Nat /\ 1 \in Int /\ m - 1 + 1 = m /\ \A i \in 1 .. m : s[i] \in S
  BY <1>1
<1>. HIDE DEF m
<1>3. /\ front \in Seq(S) /\ Len(front) = IF 1 <= m THEN m - 1 + 1 ELSE 0
      /\ \A i \in 1 .. m - 1 + 1 : front[i] = s[1 + i - 1]
  BY <1>2, SubSeqProperties
<1>4. Len(front) = m /\ \A i \in 1 .. m : front[i] = s[i]
  BY <1>2, <1>3
<1>5. Front(s) = front
  BY DEF Front, m
<1>. QED BY <1>1, <1>3, <1>4, <1>5 DEF m

\* A turn keeps names only.
LEMMA TurnKeeps ==
    ASSUME NEW kept \in Seq(Named), NEW piece \in Piece
    PROVE  Turn(kept, piece) \in Seq(Named)
<1>1. CASE piece \in {"", "."} \/ (piece = ".." /\ kept = <<>>)
  BY <1>1 DEF Turn
<1>2. CASE piece = ".." /\ kept # <<>>
  <2>1. Front(kept) \in Seq(Named)
    BY <1>2, FrontIs
  <2>. QED BY <1>2, <2>1 DEF Turn
<1>3. CASE piece \notin {"", ".", ".."}
  <2>1. piece \in Named
    BY <1>3 DEF Named
  <2>2. Append(kept, piece) \in Seq(Named)
    BY <2>1, AppendProperties
  <2>. QED BY <1>3, <2>2 DEF Turn
<1>. QED BY <1>1, <1>2, <1>3

\* The loop has one result.
LEMMA YieldsOne ==
    ASSUME NEW before, NEW pieces \in Seq(Piece), NEW one, NEW other,
           Yields(before, pieces, one), Yields(before, pieces, other)
    PROVE  one = other
<1>1. PICK f : Turns(f, before, pieces) /\ f[Len(pieces)] = one
  BY DEF Yields
<1>2. PICK g : Turns(g, before, pieces) /\ g[Len(pieces)] = other
  BY DEF Yields
<1>. DEFINE S == {k \in Nat : k \in 0 .. Len(pieces) => f[k] = g[k]}
<1>3. 0 \in S
  BY <1>1, <1>2 DEF Turns
<1>4. ASSUME NEW k \in Nat, k \in S PROVE k + 1 \in S
  <2>1. SUFFICES ASSUME k + 1 \in 0 .. Len(pieces) PROVE f[k + 1] = g[k + 1]
    OBVIOUS
  <2>2. k \in 0 .. Len(pieces) /\ k + 1 \in 1 .. Len(pieces) /\ (k + 1) - 1 = k
    BY <2>1
  <2>. QED BY <1>1, <1>2, <1>4, <2>2 DEF Turns
<1>5. Nat \subseteq S
  <2>. HIDE DEF S
  <2>. QED BY <1>3, <1>4, SetInduction
<1>6. Len(pieces) \in Nat
  OBVIOUS
<1>. QED BY <1>1, <1>2, <1>5, <1>6

\* It has a result.
LEMMA YieldsSome ==
    ASSUME NEW before \in Seq(Named), NEW pieces \in Seq(Piece)
    PROVE  \E result : Yields(before, pieces, result)
<1>. DEFINE X == Seq(Named)
            N == Len(pieces)
            turn(k, x) == Turn(x, pieces[k])
            step == [k \in Nat |-> [x \in X |-> IF k \in 1 .. N THEN turn(k, x) ELSE x]]
<1>1. N \in Nat /\ before \in X
  OBVIOUS
<1>2. ASSUME NEW k \in 1 .. N, NEW x \in X PROVE turn(k, x) \in X
  <2>1. pieces[k] \in Piece
    OBVIOUS
  <2>. QED BY <2>1, TurnKeeps
<1>3. step \in [Nat -> [X -> X]]
  <2>. HIDE DEF turn, N, X
  <2>. QED BY <1>2
<1>4. PICK f \in [0 .. N -> X] : Run(f, before, step, N)
  <2>. HIDE DEF step, N, X
  <2>. QED BY <1>1, <1>3, Iteration
<1>. HIDE DEF turn, X, N
<1>5. ASSUME NEW n \in 1 .. N PROVE f[n] = turn(n, f[n - 1])
  <2>1. n - 1 \in 0 .. N /\ n \in Nat
    BY <1>1
  <2>2. f[n - 1] \in X
    BY <2>1
  <2>3. f[n] = step[n][f[n - 1]]
    BY <1>4 DEF Run
  <2>4. step[n][f[n - 1]] = turn(n, f[n - 1])
    BY <2>1, <2>2
  <2>. QED BY <2>3, <2>4
<1>6. f[0] = before
  BY <1>4 DEF Run
<1>. HIDE DEF step
<1>7. Yields(before, pieces, f[N])
  BY <1>5, <1>6 DEF Yields, Turns, X, N, turn
<1>. QED BY <1>7

\* From nothing it is that of Simplified.
LEMMA SimplifiedYields ==
    ASSUME NEW pieces \in Seq(Piece)
    PROVE  Yields(<<>>, pieces, Simplified(pieces))
<1>. DEFINE X == Seq(Named)
            N == Len(pieces)
            turn(k, x) == Turn(x, pieces[k])
            kept[n \in 0 .. N] == IF n = 0 THEN <<>> ELSE turn(n, kept[n - 1])
<1>1. N \in Nat /\ <<>> \in X
  OBVIOUS
<1>2. \E result : Yields(<<>>, pieces, result)
  BY <1>1, YieldsSome
<1>3. PICK result : Yields(<<>>, pieces, result)
  BY <1>2
<1>4. PICK f \in [0 .. N -> X] : Turns(f, <<>>, pieces) /\ f[N] = result
  BY <1>3 DEF Yields
<1>11. f[0] = <<>> /\ \A n \in 1 .. N : f[n] = turn(n, f[n - 1])
  BY <1>4 DEF Turns
<1>. HIDE DEF turn, X
<1>5. f = [n \in 0 .. N |-> IF n = 0 THEN <<>> ELSE turn(n, f[n - 1])]
  <2>. HIDE DEF N
  <2>1. ASSUME NEW n \in 0 .. N PROVE f[n] = IF n = 0 THEN <<>> ELSE turn(n, f[n - 1])
    <3>1. CASE n = 0
      BY <1>11, <3>1
    <3>2. CASE n # 0
      <4>1. n \in 1 .. N
        BY <1>1, <3>2
      <4>. QED BY <1>11, <3>2, <4>1
    <3>. QED BY <3>1, <3>2
  <2>. QED BY <2>1
<1>6. kept = [n \in 0 .. N |-> IF n = 0 THEN <<>> ELSE turn(n, kept[n - 1])]
  <2>. HIDE DEF N
  <2>. QED BY <1>5 DEF kept
<1>7. Simplified(pieces) = kept[N]
  BY Zenon DEF Simplified, kept, turn
<1>. HIDE DEF kept, N
<1>8. \A n \in 0 .. N : kept[n] = f[n]
  <2>. DEFINE S == {n \in Nat : n \in 0 .. N => kept[n] = f[n]}
  <2>1. 0 \in S
    BY <1>5, <1>6
  <2>2. ASSUME NEW n \in Nat, n \in S PROVE n + 1 \in S
    <3>1. SUFFICES ASSUME n + 1 \in 0 .. N PROVE kept[n + 1] = f[n + 1]
      OBVIOUS
    <3>2. n \in 0 .. N /\ (n + 1) - 1 = n /\ n + 1 # 0
      BY <1>1, <3>1
    <3>3. kept[n] = f[n]
      BY <2>2, <3>2
    <3>. QED BY <1>5, <1>6, <3>1, <3>2, <3>3
  <2>3. Nat \subseteq S
    <3>. HIDE DEF S
    <3>. QED BY <2>1, <2>2, SetInduction
  <2>. QED BY <1>1, <2>3
<1>9. f[N] = Simplified(pieces)
  BY <1>1, <1>7, <1>8
<1>. QED BY <1>3, <1>4, <1>9

\* No pieces.
LEMMA YieldsNothing ==
    ASSUME NEW before \in Seq(Named) PROVE Yields(before, <<>>, before)
<1>. DEFINE f == [k \in 0 .. 0 |-> before]
            none == <<>>
<1>1. f \in [0 .. 0 -> Seq(Named)] /\ f[0] = before
  OBVIOUS
<1>2. Len(none) = 0 /\ 1 .. 0 = {}
  OBVIOUS
<1>. HIDE DEF f, none
<1>3. Yields(before, none, before)
  BY <1>1, <1>2 DEF Yields, Turns
<1>. QED BY <1>3 DEF none

\* What a result is one of.
LEMMA YieldsNames ==
    ASSUME NEW before, NEW pieces \in Seq(Piece), NEW result, Yields(before, pieces, result)
    PROVE  result \in Seq(Named) /\ before \in Seq(Named)
<1>1. Len(pieces) \in 0 .. Len(pieces) /\ 0 \in 0 .. Len(pieces)
  OBVIOUS
<1>. QED BY <1>1 DEF Yields, Turns

\* One piece more.
LEMMA YieldsMore ==
    ASSUME NEW before, NEW pieces \in Seq(Piece), NEW result, Yields(before, pieces, result),
           NEW piece \in Piece
    PROVE  Yields(before, Append(pieces, piece), Turn(result, piece))
<1>. DEFINE m == Len(pieces)
            more == Append(pieces, piece)
            last == Turn(result, piece)
<1>1. PICK f \in [0 .. m -> Seq(Named)] : Turns(f, before, pieces) /\ f[m] = result
  BY DEF Yields
<1>. DEFINE g == [k \in 0 .. m + 1 |-> IF k = m + 1 THEN last ELSE f[k]]
<1>2. m \in Nat /\ Len(more) = m + 1 /\ more[m + 1] = piece /\ \A k \in 1 .. m : more[k] = pieces[k]
  BY AppendProperties
<1>3. last \in Seq(Named)
  <2>1. result \in Seq(Named)
    BY YieldsNames
  <2>. QED BY <2>1, TurnKeeps
<1>. HIDE DEF m, more, last
<1>4. g \in [0 .. m + 1 -> Seq(Named)] /\ g[m + 1] = last /\ \A k \in 0 .. m : g[k] = f[k]
  BY <1>2, <1>3
<1>. HIDE DEF g
<1>5. g[0] = before
  <2>1. 0 \in 0 .. m
    BY <1>2
  <2>. QED BY <1>1, <1>4, <2>1 DEF Turns
<1>6. ASSUME NEW k \in 1 .. m + 1 PROVE g[k] = Turn(g[k - 1], more[k])
  <2>1. CASE k = m + 1
    <3>1. g[k - 1] = result
      <4>1. k - 1 = m /\ m \in 0 .. m
        BY <1>2, <2>1
      <4>. QED BY <1>1, <1>4, <4>1
    <3>. QED BY <1>2, <1>4, <2>1, <3>1 DEF last
  <2>2. CASE k # m + 1
    <3>1. k \in 1 .. m /\ k \in 0 .. m /\ k - 1 \in 0 .. m
      BY <1>2, <2>2
    <3>2. f[k] = Turn(f[k - 1], pieces[k])
      BY <1>1, <3>1 DEF Turns, m
    <3>. QED BY <1>2, <1>4, <3>1, <3>2
  <2>. QED BY <2>1, <2>2
<1>7. Yields(before, more, last)
  BY <1>2, <1>4, <1>5, <1>6 DEF Yields, Turns
<1>. QED BY <1>7 DEF more, last

\* One run of pieces behind another.
LEMMA YieldsJoin ==
    ASSUME NEW before, NEW p \in Seq(Piece), NEW between, Yields(before, p, between),
           NEW q \in Seq(Piece), NEW result, Yields(between, q, result)
    PROVE  Yields(before, p \o q, result)
<1>. DEFINE m == Len(p)
            n == Len(q)
            w == p \o q
<1>1. PICK f \in [0 .. m -> Seq(Named)] : Turns(f, before, p) /\ f[m] = between
  BY DEF Yields
<1>2. PICK g \in [0 .. n -> Seq(Named)] : Turns(g, between, q) /\ g[n] = result
  BY DEF Yields
<1>. DEFINE h == [k \in 0 .. m + n |-> IF k <= m THEN f[k] ELSE g[k - m]]
<1>3. /\ m \in Nat /\ n \in Nat /\ Len(w) = m + n
      /\ \A i \in 1 .. m + n : w[i] = IF i <= m THEN p[i] ELSE q[i - m]
  BY ConcatProperties
<1>. HIDE DEF m, n, w
<1>4. f[0] = before /\ \A k \in 1 .. m : f[k] = Turn(f[k - 1], p[k])
  BY <1>1 DEF Turns, m
<1>5. g[0] = between /\ \A k \in 1 .. n : g[k] = Turn(g[k - 1], q[k])
  BY <1>2 DEF Turns, n
<1>6. /\ h \in [0 .. m + n -> Seq(Named)]
      /\ \A k \in 0 .. m : h[k] = f[k]
      /\ \A k \in 0 .. n : h[m + k] = g[k]
  <2>1. \A k \in 0 .. m : k \in 0 .. m + n /\ k <= m
    BY <1>3
  <2>2. \A k \in 0 .. m + n : ~(k <= m) => k - m \in 0 .. n
    BY <1>3
  <2>3. h \in [0 .. m + n -> Seq(Named)]
    BY <1>1, <1>2, <1>3, <2>1, <2>2
  <2>4. \A k \in 0 .. m : h[k] = f[k]
    BY <2>1
  <2>5. ASSUME NEW k \in 0 .. n PROVE h[m + k] = g[k]
    <3>1. CASE k = 0
      <4>1. m + k = m /\ m \in 0 .. m
        BY <1>3, <3>1
      <4>. QED BY <1>1, <1>5, <2>4, <3>1, <4>1
    <3>2. CASE k # 0
      <4>1. m + k \in 0 .. m + n /\ ~(m + k <= m) /\ (m + k) - m = k
        BY <1>3, <3>2
      <4>. QED BY <4>1
    <3>. QED BY <3>1, <3>2
  <2>. HIDE DEF h
  <2>. QED BY <2>3, <2>4, <2>5
<1>. HIDE DEF h
<1>7. h[0] = before /\ h[m + n] = result
  <2>1. 0 \in 0 .. m /\ n \in 0 .. n
    BY <1>3
  <2>. QED BY <1>2, <1>4, <1>6, <2>1
<1>8. ASSUME NEW k \in 1 .. m + n PROVE h[k] = Turn(h[k - 1], w[k])
  <2>1. CASE k <= m
    <3>1. k \in 1 .. m /\ k \in 0 .. m /\ k - 1 \in 0 .. m
      BY <1>3, <2>1
    <3>2. f[k] = Turn(f[k - 1], p[k])
      BY <1>4, <3>1
    <3>. QED BY <1>3, <1>6, <2>1, <3>1, <3>2
  <2>2. CASE ~(k <= m)
    <3>1. k - m \in 1 .. n /\ k - m \in 0 .. n /\ (k - m) - 1 \in 0 .. n
          /\ m + (k - m) = k /\ m + ((k - m) - 1) = k - 1
      BY <1>3, <2>2
    <3>2. g[k - m] = Turn(g[(k - m) - 1], q[k - m])
      BY <1>5, <3>1
    <3>3. h[k] = g[k - m] /\ h[k - 1] = g[(k - m) - 1]
      BY <1>6, <3>1
    <3>. QED BY <1>3, <2>2, <3>2, <3>3
  <2>. QED BY <2>1, <2>2
<1>9. Yields(before, w, result)
  BY <1>3, <1>6, <1>7, <1>8 DEF Yields, Turns
<1>. QED BY <1>9 DEF w

\* Names are all kept.
LEMMA YieldsKept ==
    ASSUME NEW before \in Seq(Named), NEW names \in Seq(Named)
    PROVE  Yields(before, names, before \o names)
<1>. DEFINE b == Len(before)
            n == Len(names)
            w == before \o names
            f == [k \in 0 .. n |-> [i \in 1 .. b + k |-> w[i]]]
<1>1. /\ b \in Nat /\ n \in Nat /\ w \in Seq(Named) /\ Len(w) = b + n
      /\ \A i \in 1 .. b + n : w[i] \in Named
      /\ \A i \in 1 .. b : w[i] = before[i]
      /\ \A i \in 1 .. n : w[b + i] = names[i]
  <2>1. /\ w \in Seq(Named) /\ Len(w) = b + n /\ b \in Nat /\ n \in Nat
        /\ \A i \in 1 .. b + n : w[i] = IF i <= b THEN before[i] ELSE names[i - b]
    BY ConcatProperties
  <2>. HIDE DEF w
  <2>2. \A i \in 1 .. b + n : w[i] \in Named
    BY <2>1
  <2>. HIDE DEF b, n
  <2>3. \A i \in 1 .. b : w[i] = before[i]
    BY <2>1
  <2>4. ASSUME NEW i \in 1 .. n PROVE w[b + i] = names[i]
    <3>1. b + i \in 1 .. b + n /\ ~(b + i <= b) /\ (b + i) - b = i
      BY <2>1
    <3>. QED BY <2>1, <3>1
  <2>. QED BY <2>1, <2>2, <2>3, <2>4
<1>. HIDE DEF b, n, w
<1>2. ASSUME NEW k \in 0 .. n
      PROVE  /\ f[k] \in Seq(Named) /\ Len(f[k]) = b + k
             /\ \A i \in 1 .. b + k : f[k][i] = w[i]
  <2>1. f[k] = [i \in 1 .. b + k |-> w[i]]
    OBVIOUS
  <2>2. b + k \in Nat /\ \A i \in 1 .. b + k : w[i] \in Named
    BY <1>1
  <2>. HIDE DEF f
  <2>. QED BY <2>1, <2>2
<1>3. f \in [0 .. n -> Seq(Named)]
  <2>1. f = [k \in 0 .. n |-> f[k]]
    OBVIOUS
  <2>. HIDE DEF f
  <2>. QED BY <1>2, <2>1
<1>. HIDE DEF f
<1>4. f[0] = before
  <2>1. Len(before) = b /\ 0 \in 0 .. n /\ b + 0 = b
    BY <1>1 DEF b
  <2>. QED BY <1>1, <1>2, <2>1, SeqEqual
<1>5. f[n] = w
  <2>1. n \in 0 .. n
    BY <1>1
  <2>. QED BY <1>1, <1>2, <2>1, SeqEqual
<1>6. ASSUME NEW k \in 1 .. n PROVE f[k] = Turn(f[k - 1], names[k])
  <2>1. k \in 0 .. n /\ k - 1 \in 0 .. n /\ b + (k - 1) = b + k - 1 /\ (b + k - 1) + 1 = b + k /\ b + k - 1 \in Nat
    BY <1>1
  <2>2. names[k] \in Named /\ w[b + k] = names[k]
    BY <1>1 DEF n
  <2>3. /\ f[k - 1] \in Seq(Named) /\ Len(f[k - 1]) = b + k - 1
        /\ \A i \in 1 .. b + k - 1 : f[k - 1][i] = w[i]
    BY <1>2, <2>1
  <2>. DEFINE last == Append(f[k - 1], names[k])
  <2>4. /\ last \in Seq(Named) /\ Len(last) = b + k /\ last[b + k] = w[b + k]
        /\ \A i \in 1 .. b + k - 1 : last[i] = w[i]
    BY <2>1, <2>2, <2>3, AppendProperties
  <2>5. /\ f[k] \in Seq(Named) /\ Len(f[k]) = b + k
        /\ \A i \in 1 .. b + k : f[k][i] = w[i]
    BY <1>2, <2>1
  <2>. HIDE DEF last
  <2>6. \A i \in 1 .. b + k : last[i] = w[i]
    <3>1. \A i \in 1 .. b + k : i = b + k \/ i \in 1 .. b + k - 1
      BY <2>1
    <3>. QED BY <2>4, <3>1
  <2>7. f[k] = last
    BY <2>4, <2>5, <2>6, SeqEqual
  <2>8. Turn(f[k - 1], names[k]) = last
    BY <2>2 DEF Turn, Named, last
  <2>. QED BY <2>7, <2>8
<1>7. Yields(before, names, w)
  BY <1>3, <1>4, <1>5, <1>6 DEF Yields, Turns, n
<1>. QED BY <1>7 DEF w

\* Names are pieces.
LEMMA NamedPieces == Seq(Named) \subseteq Seq(Piece)
<1>1. Named \subseteq Piece
  BY DEF Named
<1>. QED BY <1>1, SeqMonotonic

\* splitToList leaves out pieces that the loop would.
LEMMA SplitYields ==
    ASSUME NEW path \in Seq(Piece), NEW before, NEW result, Yields(before, path, result)
    PROVE  SplitToList(path) \in Seq(Piece) /\ Yields(before, SplitToList(path), result)
<1>. DEFINE N == Len(path)
            X == Seq(Piece)
            more(n, x) == IF n > 1 /\ path[n] = "" THEN x ELSE Append(x, path[n])
            step == [n \in Nat |-> [x \in X |-> IF n \in 1 .. N THEN more(n, x) ELSE x]]
            out[n \in 0 .. N] ==
                IF n = 0 THEN <<>>
                ELSE IF n > 1 /\ path[n] = "" THEN out[n - 1]
                ELSE Append(out[n - 1], path[n])
<1>1. N \in Nat /\ <<>> \in X /\ \A n \in 1 .. N : path[n] \in Piece
  OBVIOUS
<1>2. ASSUME NEW n \in 1 .. N, NEW x \in X PROVE more(n, x) \in X
  <2>1. Append(x, path[n]) \in X
    BY <1>1, AppendProperties
  <2>. QED BY <2>1
<1>3. step \in [Nat -> [X -> X]]
  <2>. HIDE DEF more, N, X
  <2>. QED BY <1>2
<1>4. PICK f \in [0 .. N -> X] : Run(f, <<>>, step, N)
  <2>. HIDE DEF step, N, X
  <2>. QED BY <1>1, <1>3, Iteration
<1>5. f = [n \in 0 .. N |-> IF n = 0 THEN <<>> ELSE more(n, f[n - 1])]
  <2>. HIDE DEF N, more, X
  <2>1. ASSUME NEW n \in 0 .. N PROVE f[n] = IF n = 0 THEN <<>> ELSE more(n, f[n - 1])
    <3>1. CASE n = 0
      BY <1>4, <3>1 DEF Run
    <3>2. CASE n # 0
      <4>1. n \in 1 .. N /\ n - 1 \in 0 .. N /\ n \in Nat
        BY <1>1, <3>2
      <4>2. f[n - 1] \in X
        BY <4>1
      <4>3. f[n] = step[n][f[n - 1]]
        BY <1>4, <4>1 DEF Run
      <4>4. step[n][f[n - 1]] = more(n, f[n - 1])
        BY <4>1, <4>2
      <4>. QED BY <3>2, <4>3, <4>4
    <3>. QED BY <3>1, <3>2
  <2>. QED BY <2>1
<1>6. out = [n \in 0 .. N |-> IF n = 0 THEN <<>>
                             ELSE IF n > 1 /\ path[n] = "" THEN out[n - 1]
                             ELSE Append(out[n - 1], path[n])]
  <2>1. f = [n \in 0 .. N |-> IF n = 0 THEN <<>>
                             ELSE IF n > 1 /\ path[n] = "" THEN f[n - 1]
                             ELSE Append(f[n - 1], path[n])]
    BY <1>5
  <2>. HIDE DEF N
  <2>. QED BY <2>1 DEF out
<1>7. SplitToList(path) = IF path = EmptyPath THEN <<>> ELSE out[N]
  BY Zenon DEF SplitToList, out
<1>. HIDE DEF out, N, step
<1>8. PICK g \in [0 .. N -> Seq(Named)] : Turns(g, before, path) /\ g[N] = result
  BY DEF Yields, N
<1>9. g[0] = before /\ \A k \in 1 .. N : g[k] = Turn(g[k - 1], path[k])
  BY <1>8 DEF Turns, N
<1>10. \A n \in 0 .. N : out[n] \in X /\ Yields(before, out[n], g[n])
  <2>. DEFINE Good(n) == out[n] \in X /\ Yields(before, out[n], g[n])
              S == {n \in Nat : n \in 0 .. N => Good(n)}
  <2>1. 0 \in S
    <3>1. 0 \in 0 .. N
      BY <1>1
    <3>2. out[0] = <<>> /\ g[0] = before /\ before \in Seq(Named)
      BY <1>6, <1>9, <3>1
    <3>. QED BY <1>1, <3>2, YieldsNothing
  <2>2. ASSUME NEW n \in Nat, n \in S PROVE n + 1 \in S
    <3>1. SUFFICES ASSUME n + 1 \in 0 .. N PROVE Good(n + 1)
      OBVIOUS
    <3>2. n \in 0 .. N /\ n + 1 \in 1 .. N /\ (n + 1) - 1 = n /\ n + 1 # 0
      BY <1>1, <3>1
    <3>3. Good(n) /\ path[n + 1] \in Piece
      BY <1>1, <2>2, <3>2
    <3>. HIDE DEF X
    <3>4. g[n + 1] = Turn(g[n], path[n + 1])
      BY <1>9, <3>2
    <3>5. CASE n + 1 > 1 /\ path[n + 1] = ""
      <4>1. out[n + 1] = out[n]
        BY <1>6, <3>1, <3>2, <3>5
      <4>2. g[n + 1] = g[n]
        BY <3>4, <3>5 DEF Turn
      <4>. QED BY <3>3, <4>1, <4>2
    <3>6. CASE ~(n + 1 > 1 /\ path[n + 1] = "")
      <4>1. out[n + 1] = Append(out[n], path[n + 1])
        BY <1>6, <3>1, <3>2, <3>6
      <4>2. Yields(before, Append(out[n], path[n + 1]), Turn(g[n], path[n + 1]))
        BY <3>3, YieldsMore DEF X
      <4>3. Append(out[n], path[n + 1]) \in X
        BY <3>3, AppendProperties DEF X
      <4>. QED BY <3>4, <4>1, <4>2, <4>3
    <3>. QED BY <3>5, <3>6
  <2>3. Nat \subseteq S
    <3>. HIDE DEF S
    <3>. QED BY <2>1, <2>2, SetInduction
  <2>. QED BY <1>1, <2>3
<1>11. CASE path = EmptyPath
  <2>1. N = 1 /\ path[1] = ""
    BY <1>11 DEF EmptyPath, N
  <2>. HIDE <1>11
  <2>4. N = 1
    BY <2>1
  <2>5. 0 \in 0 .. N /\ 1 \in 1 .. N /\ 1 - 1 = 0
    BY <2>4
  <2>2. g[1] = Turn(g[0], "") /\ g[0] = before /\ g[1] = result
    <3>1. g[1] = Turn(g[1 - 1], path[1])
      BY <1>9, <2>5
    <3>. QED BY <1>8, <1>9, <2>1, <2>4, <2>5, <3>1
  <2>3. result = before /\ before \in Seq(Named)
    <3>1. 0 \in 0 .. N
      BY <2>5
    <3>2. before \in Seq(Named)
      BY <1>9, <3>1
    <3>. QED BY <2>2, <3>2 DEF Turn
  <2>. QED BY <1>1, <1>7, <1>11, <2>3, YieldsNothing
<1>12. CASE path # EmptyPath
  <2>1. N \in 0 .. N
    BY <1>1
  <2>2. SplitToList(path) = out[N]
    BY <1>7, <1>12
  <2>. QED BY <1>8, <1>10, <2>1, <2>2
<1>. QED BY <1>11, <1>12

\* One piece, and two.
LEMMA OneIs == ASSUME NEW S, NEW x \in S PROVE <<x>> \in Seq(S) /\ Len(<<x>>) = 1 /\ <<x>>[1] = x
OBVIOUS

LEMMA TwoIs ==
    ASSUME NEW S, NEW x \in S, NEW y \in S
    PROVE  /\ <<x, y>> \in Seq(S) /\ Len(<<x, y>>) = 2 /\ <<x, y>>[1] = x /\ <<x, y>>[2] = y
           /\ <<x, y>> = Append(<<x>>, y)
<1>. DEFINE two == <<x, y>>
            app == Append(<<x>>, y)
<1>1. two \in Seq(S) /\ Len(two) = 2 /\ two[1] = x /\ two[2] = y
  OBVIOUS
<1>2. app \in Seq(S)
  BY OneIs
<1>3. Len(app) = 2 /\ app[1] = x /\ app[2] = y
  OBVIOUS
<1>. HIDE DEF two, app
<1>4. \A i \in 1 .. Len(two) : two[i] = app[i]
  BY <1>1, <1>3
<1>5. two = app
  BY <1>1, <1>2, <1>3, <1>4, SeqEqual
<1>. QED BY <1>1, <1>5 DEF two, app

\* The first of a sequence that has one.
LEMMA HeadIs == ASSUME NEW S, NEW s \in Seq(S), s # <<>> PROVE Head(s) = s[1]
OBVIOUS

\* What has a length is not empty.
LEMMA NotEmpty == ASSUME NEW S, NEW s \in Seq(S), Len(s) > 0 PROVE s # <<>>
OBVIOUS

\* These two are paths.
LEMMA EmptyAndRoot ==
    /\ EmptyPath \in Seq(Piece) /\ Len(EmptyPath) = 1 /\ EmptyPath[1] = Blank
    /\ RootPath \in Seq(Piece) /\ Len(RootPath) = 2 /\ RootPath[1] = Blank /\ RootPath[2] = Blank
<1>1. Blank \in Piece
  BY DEF Piece, Blank
<1>2. EmptyPath = <<Blank>> /\ RootPath = <<Blank, Blank>>
  BY DEF EmptyPath, RootPath, Blank
<1>. QED BY <1>1, <1>2, OneIs, TwoIs

\* Neither is the empty sequence, nor one the other.
LEMMA EmptyIsNotRoot == EmptyPath # <<>> /\ RootPath # <<>> /\ EmptyPath # RootPath
<1>1. Len(EmptyPath) > 0 /\ Len(RootPath) > 0 /\ Len(EmptyPath) # Len(RootPath)
  BY EmptyAndRoot
<1>2. EmptyPath \in Seq(Piece) /\ RootPath \in Seq(Piece)
  BY EmptyAndRoot
<1>3. EmptyPath # <<>> /\ RootPath # <<>>
  BY <1>1, <1>2, NotEmpty
<1>. QED BY <1>1, <1>3

\* They have no names.
LEMMA EmptyAndRootYield ==
    ASSUME NEW before \in Seq(Named)
    PROVE  Yields(before, EmptyPath, before) /\ Yields(before, RootPath, before)
<1>1. Yields(before, <<>>, before) /\ Turn(before, Blank) = before /\ Blank \in Piece /\ <<>> \in Seq(Piece)
  BY YieldsNothing DEF Turn, Piece, Blank
<1>2. Append(<<>>, Blank) = EmptyPath /\ Append(EmptyPath, Blank) = RootPath
  <2>1. Append(<<>>, Blank) = <<Blank>>
    OBVIOUS
  <2>2. Append(<<Blank>>, Blank) = <<Blank, Blank>>
    BY <1>1, TwoIs
  <2>. QED BY <2>1, <2>2 DEF EmptyPath, RootPath, Blank
<1>3. Yields(before, EmptyPath, before)
  BY <1>1, <1>2, YieldsMore
<1>. QED BY <1>1, <1>2, <1>3, EmptyAndRoot, YieldsMore

\* What an absolute path starts with.
LEMMA IsAbsoluteIs ==
    ASSUME NEW path \in Seq(Piece)
    PROVE  IsAbsolute(path) <=> (Len(path) > 1 /\ path[1] = Blank)
<1>1. CASE path = <<>>
  BY <1>1 DEF IsAbsolute
<1>2. CASE path # <<>>
  <2>1. Head(path) = path[1]
    BY <1>2, HeadIs
  <2>. QED BY <2>1 DEF IsAbsolute, Blank
<1>. QED BY <1>1, <1>2

\* simplifyPath's splitting changes nothing in the result of its loop.
LEMMA SplitForgotten ==
    ASSUME NEW path \in Seq(Piece), NEW result, Yields(<<>>, path, result)
    PROVE  Simplified(SplitToList(path)) = result
<1>. DEFINE split == SplitToList(path)
<1>1. split \in Seq(Piece) /\ Yields(<<>>, split, result)
  BY SplitYields
<1>. HIDE DEF split
<1>2. Yields(<<>>, split, Simplified(split))
  BY <1>1, SimplifiedYields
<1>3. Simplified(split) = result
  BY <1>1, <1>2, YieldsOne
<1>. QED BY <1>3 DEF split

\* A path from the root that has these names.
Rooted(names) == EmptyPath \o names

LEMMA RootedIs ==
    ASSUME NEW names \in Seq(Named)
    PROVE  /\ Rooted(names) \in Seq(Piece) /\ Len(Rooted(names)) = Len(names) + 1
           /\ Rooted(names)[1] = Blank /\ \A i \in 1 .. Len(names) : Rooted(names)[i + 1] = names[i]
           /\ Yields(<<>>, Rooted(names), names)
<1>. DEFINE one == EmptyPath
            m == Len(names)
            w == one \o names
<1>1. one \in Seq(Piece) /\ Len(one) = 1 /\ one[1] = Blank
  BY EmptyAndRoot
<1>2. names \in Seq(Piece) /\ m \in Nat
  BY NamedPieces
<1>. HIDE DEF one, m
<1>3. /\ w \in Seq(Piece) /\ Len(w) = 1 + m
      /\ \A i \in 1 .. 1 + m : w[i] = IF i <= 1 THEN one[i] ELSE names[i - 1]
  <2>1. /\ w \in Seq(Piece) /\ Len(w) = Len(one) + Len(names)
        /\ \A i \in 1 .. Len(one) + Len(names) : w[i] = IF i <= Len(one) THEN one[i] ELSE names[i - Len(one)]
    BY <1>1, <1>2, ConcatProperties
  <2>2. Len(one) = 1 /\ Len(names) = m
    BY <1>1 DEF m
  <2>. HIDE DEF w
  <2>. QED BY <2>1, <2>2
<1>. HIDE DEF w
<1>4. w[1] = Blank
  <2>1. 1 \in 1 .. 1 + m /\ 1 <= 1
    BY <1>2
  <2>. QED BY <1>1, <1>3, <2>1
<1>5. ASSUME NEW i \in 1 .. m PROVE w[i + 1] = names[i]
  <2>1. i + 1 \in 1 .. 1 + m /\ ~(i + 1 <= 1) /\ (i + 1) - 1 = i
    BY <1>2
  <2>. QED BY <1>3, <2>1
<1>6. Yields(<<>>, w, names)
  <2>1. <<>> \in Seq(Named)
    OBVIOUS
  <2>5. Yields(<<>>, names, <<>> \o names) /\ <<>> \o names = names
    BY <2>1, YieldsKept, ConcatEmptySeq
  <2>6. Yields(<<>>, one, <<>>)
    BY <2>1, EmptyAndRootYield DEF one
  <2>7. Yields(<<>>, one \o names, names)
    BY <1>1, <1>2, <2>5, <2>6, YieldsJoin
  <2>. QED BY <2>7 DEF w
<1>7. 1 + m = m + 1
  BY <1>2
<1>. QED BY <1>3, <1>4, <1>5, <1>6, <1>7 DEF Rooted, w, one, m

\* What Absolute makes of names: a canonical path.
LEMMA AbsoluteIs ==
    ASSUME NEW names \in Seq(Named)
    PROVE  /\ Absolute(names) \in Seq(Piece) \ {<<>>, EmptyPath}
           /\ Canonical(Absolute(names)) /\ IsAbsolute(Absolute(names))
           /\ Yields(<<>>, Absolute(names), names)
<1>1. CASE names = <<>>
  <2>1. Absolute(names) = RootPath
    BY <1>1 DEF Absolute
  <2>2. RootPath \in Seq(Piece) /\ RootPath # <<>> /\ RootPath # EmptyPath
    BY EmptyAndRoot, EmptyIsNotRoot
  <2>3. Canonical(RootPath) /\ IsAbsolute(RootPath)
    BY EmptyAndRoot, IsAbsoluteIs DEF Canonical
  <2>4. Yields(<<>>, RootPath, names)
    BY <1>1, EmptyAndRootYield
  <2>. QED BY <2>1, <2>2, <2>3, <2>4
<1>2. CASE names # <<>>
  <2>. DEFINE w == Rooted(names)
              m == Len(names)
  <2>1. Absolute(names) = w
    BY <1>2 DEF Absolute, Rooted
  <2>2. m \in Nat \ {0}
    BY <1>2, EmptySeq
  <2>3. /\ w \in Seq(Piece) /\ Len(w) = m + 1
        /\ w[1] = Blank /\ \A i \in 1 .. m : w[i + 1] = names[i]
        /\ Yields(<<>>, w, names)
    BY RootedIs
  <2>4. \A i \in 1 .. m : names[i] \in Named
    OBVIOUS
  <2>. HIDE DEF w, m
  <2>5. IsAbsolute(w)
    <3>1. m + 1 > 1
      BY <2>2
    <3>. QED BY <2>3, <3>1, IsAbsoluteIs
  <2>6. \A i \in 2 .. m + 1 : w[i] \notin {"", ".", ".."}
    <3>1. TAKE i \in 2 .. m + 1
    <3>2. i - 1 \in 1 .. m /\ (i - 1) + 1 = i
      BY <2>2
    <3>3. w[i] \in Named
      BY <2>3, <2>4, <3>2
    <3>. QED BY <3>3 DEF Named
  <2>7. Canonical(w)
    BY <2>3, <2>5, <2>6 DEF Canonical
  <2>8. w # <<>> /\ w # EmptyPath
    <3>1. m + 1 > 0 /\ m + 1 # 1
      BY <2>2
    <3>2. Len(EmptyPath) = 1
      BY EmptyAndRoot
    <3>. QED BY <2>3, <3>1, <3>2, NotEmpty
  <2>. QED BY <2>1, <2>3, <2>5, <2>7, <2>8
<1>. QED BY <1>1, <1>2

\* Every canonical path is made of names.
LEMMA CanonicalIs ==
    ASSUME NEW path \in Seq(Piece) \ {<<>>}, Canonical(path)
    PROVE  \E names \in Seq(Named) : path = Absolute(names)
<1>1. CASE path = RootPath
  <2>1. <<>> \in Seq(Named)
    OBVIOUS
  <2>. QED BY <1>1, <2>1 DEF Absolute
<1>2. CASE path # RootPath
  <2>. DEFINE names == Tail(path)
              N == Len(path)
              one == EmptyPath
  <2>1. IsAbsolute(path) /\ \A i \in 2 .. N : path[i] \notin {"", ".", ".."}
    BY <1>2 DEF Canonical
  <2>2. /\ names \in Seq(Piece) /\ Len(names) = N - 1 /\ N \in Nat
        /\ \A i \in 1 .. Len(names) : names[i] = path[i + 1]
    BY HeadTailProperties
  <2>3. N > 1 /\ path[1] = Blank
    BY <2>1, IsAbsoluteIs DEF N
  <2>4. path \in Seq(Piece) /\ \A i \in 1 .. N : path[i] \in Piece
    OBVIOUS
  <2>5. one \in Seq(Piece) /\ Len(one) = 1 /\ one[1] = Blank
    BY EmptyAndRoot
  <2>. HIDE DEF names, N, one
  <2>6. \A i \in 1 .. N - 1 : names[i] \in Named
    <3>1. TAKE i \in 1 .. N - 1
    <3>2. i + 1 \in 2 .. N /\ i + 1 \in 1 .. N
      BY <2>2
    <3>3. names[i] = path[i + 1] /\ path[i + 1] \in Piece
      BY <2>2, <2>4, <3>2
    <3>. QED BY <2>1, <3>2, <3>3 DEF Named
  <2>7. names \in Seq(Named)
    <3>1. names = [i \in 1 .. N - 1 |-> names[i]] /\ N - 1 \in Nat
      BY <2>2, <2>3
    <3>2. [i \in 1 .. N - 1 |-> names[i]] \in Seq(Named)
      BY <2>6, <3>1
    <3>. QED BY <3>1, <3>2
  <2>8. names # <<>>
    <3>1. Len(names) > 0
      BY <2>2, <2>3
    <3>. QED BY <2>2, <3>1, NotEmpty
  <2>. DEFINE w == one \o names
  <2>9. /\ w \in Seq(Piece) /\ Len(w) = 1 + (N - 1)
        /\ \A i \in 1 .. 1 + (N - 1) : w[i] = IF i <= 1 THEN one[i] ELSE names[i - 1]
    <3>1. /\ w \in Seq(Piece) /\ Len(w) = Len(one) + Len(names)
          /\ \A i \in 1 .. Len(one) + Len(names) : w[i] = IF i <= Len(one) THEN one[i] ELSE names[i - Len(one)]
      BY <2>2, <2>5, ConcatProperties
    <3>2. Len(one) = 1 /\ Len(names) = N - 1
      BY <2>2, <2>5
    <3>. HIDE DEF w
    <3>. QED BY <3>1, <3>2
  <2>. HIDE DEF w
  <2>10. 1 + (N - 1) = N
    BY <2>2
  <2>11. ASSUME NEW i \in 1 .. N PROVE w[i] = path[i]
    <3>1. CASE i = 1
      BY <2>3, <2>5, <2>9, <2>10, <3>1
    <3>2. CASE i # 1
      <4>1. i - 1 \in 1 .. N - 1 /\ (i - 1) + 1 = i /\ ~(i <= 1)
        BY <2>2, <3>2
      <4>. QED BY <2>2, <2>9, <2>10, <4>1
    <3>. QED BY <3>1, <3>2
  <2>12. w = path
    BY <2>4, <2>9, <2>10, <2>11, SeqEqual DEF N
  <2>13. path = Absolute(names)
    BY <2>8, <2>12 DEF Absolute, w, one
  <2>. QED BY <2>7, <2>13
<1>. QED BY <1>1, <1>2

\* The names of a working directory; the empty one is the root.
Names(cwd, names) == names \in Seq(Named) /\ (cwd = Absolute(names) \/ (cwd = EmptyPath /\ names = <<>>))

\* Where simplifyPath starts.
Base(names, path) == IF IsAbsolute(path) THEN <<>> ELSE names

\* The working directory's last piece tells the root from the rest.
LEMMA LastOfAbsolute ==
    ASSUME NEW names \in Seq(Named), names # <<>>
    PROVE  /\ Last(Absolute(names)) = names[Len(names)] /\ Last(Absolute(names)) \in Named
           /\ Absolute(names) = Rooted(names)
<1>1. Absolute(names) = Rooted(names)
  BY DEF Absolute, Rooted
<1>2. Len(names) \in Nat \ {0}
  BY EmptySeq
<1>3. Len(names) \in 1 .. Len(names)
  BY <1>2
<1>4. names[Len(names)] \in Named
  BY <1>3
<1>5. Len(Rooted(names)) = Len(names) + 1 /\ Rooted(names)[Len(names) + 1] = names[Len(names)]
  BY <1>3, RootedIs
<1>. QED BY <1>1, <1>4, <1>5 DEF Last

\* simplifyPath goes on from the names of the working directory.
LEMMA SimplifyIs ==
    ASSUME NEW cwd, NEW names, Names(cwd, names), NEW path \in Seq(Piece) \ {<<>>},
           NEW result, Yields(Base(names, path), path, result)
    PROVE  SimplifyPath(cwd, path) = Absolute(result)
<1>. DEFINE base == IF cwd = EmptyPath THEN RootPath ELSE cwd
            full == IF IsAbsolute(path) THEN path
                    ELSE IF Last(base) = Blank THEN Joined(Front(base), path)
                    ELSE Joined(base, path)
<1>1. base = Absolute(names) /\ names \in Seq(Named)
  <2>1. EmptyPath # Absolute(names)
    BY AbsoluteIs DEF Names
  <2>. QED BY <2>1 DEF Names, Absolute
<1>2. SimplifyPath(cwd, path) =
          IF path = EmptyPath THEN base ELSE Absolute(Simplified(SplitToList(full)))
  BY Zenon DEF SimplifyPath, Blank
<1>. HIDE DEF base, full
<1>3. CASE path = EmptyPath
  <2>1. ~IsAbsolute(path) /\ Base(names, path) = names
    BY <1>3, EmptyAndRoot DEF IsAbsolute, Base
  <2>5. Yields(names, path, names) /\ Yields(names, path, result)
    BY <1>1, <1>3, <2>1, EmptyAndRootYield
  <2>6. result = names
    BY <2>5, YieldsOne
  <2>. QED BY <1>1, <1>2, <1>3, <2>6
<1>4. CASE path # EmptyPath /\ IsAbsolute(path)
  <2>1. full = path /\ Yields(<<>>, path, result)
    BY <1>4 DEF full, Base
  <2>2. Simplified(SplitToList(path)) = result
    BY <2>1, SplitForgotten
  <2>. QED BY <1>2, <1>4, <2>1, <2>2
<1>5. CASE path # EmptyPath /\ ~IsAbsolute(path)
  <2>1. full = Rooted(names) \o path
    <3>1. CASE names = <<>>
      <4>1. base = RootPath
        BY <1>1, <3>1 DEF Absolute
      <4>2. Last(RootPath) = Blank /\ RootPath # <<>>
        BY EmptyAndRoot, EmptyIsNotRoot DEF Last
      <4>4. /\ Front(RootPath) \in Seq(Piece) /\ Len(Front(RootPath)) = 1
            /\ Front(RootPath)[1] = Blank
        <5>1. /\ Front(RootPath) \in Seq(Piece) /\ Len(Front(RootPath)) = Len(RootPath) - 1
              /\ \A i \in 1 .. Len(RootPath) - 1 : Front(RootPath)[i] = RootPath[i]
          BY <4>2, EmptyAndRoot, FrontIs
        <5>2. Len(RootPath) = 2 /\ RootPath[1] = Blank
          BY EmptyAndRoot
        <5>. QED BY <5>1, <5>2
      <4>5. Front(RootPath) = EmptyPath
        BY <4>4, EmptyAndRoot, SeqEqual
      <4>6. Rooted(names) = EmptyPath
        <5>1. EmptyPath \in Seq(Piece)
          BY EmptyAndRoot
        <5>. QED BY <3>1, <5>1, ConcatEmptySeq DEF Rooted
      <4>. QED BY <1>5, <4>1, <4>2, <4>5, <4>6 DEF full, Joined
    <3>2. CASE names # <<>>
      <4>1. base = Rooted(names) /\ Last(base) # Blank
        <5>1. base = Rooted(names) /\ Last(base) \in Named
          BY <1>1, <3>2, LastOfAbsolute
        <5>. QED BY <5>1 DEF Named, Blank
      <4>. QED BY <1>5, <4>1 DEF full, Joined
    <3>. QED BY <3>1, <3>2
  <2>2. Rooted(names) \in Seq(Piece) /\ Yields(<<>>, Rooted(names), names)
    BY <1>1, RootedIs
  <2>3. Yields(names, path, result)
    BY <1>5 DEF Base
  <2>. DEFINE w == Rooted(names) \o path
  <2>4. Yields(<<>>, w, result)
    BY <2>2, <2>3, YieldsJoin
  <2>5. w \in Seq(Piece)
    BY <2>2, ConcatProperties
  <2>. HIDE DEF w
  <2>6. Simplified(SplitToList(w)) = result
    BY <2>4, <2>5, SplitForgotten
  <2>. QED BY <1>2, <1>5, <2>1, <2>6 DEF w
<1>. QED BY <1>3, <1>4, <1>5

\* A sequence of one piece.
LEMMA OneYields ==
    ASSUME NEW before \in Seq(Named), NEW piece \in Piece
    PROVE  Yields(before, <<piece>>, Turn(before, piece)) /\ <<piece>> \in Seq(Piece) \ {<<>>}
<1>1. Yields(before, <<>>, before) /\ <<>> \in Seq(Piece)
  BY YieldsNothing
<1>2. Yields(before, Append(<<>>, piece), Turn(before, piece))
  BY <1>1, YieldsMore
<1>3. Append(<<>>, piece) = <<piece>>
  OBVIOUS
<1>4. <<piece>> \in Seq(Piece) /\ Len(<<piece>>) = 1
  BY OneIs
<1>5. <<piece>> # <<>>
  OBVIOUS
<1>. QED BY <1>2, <1>3, <1>4, <1>5

\* simplifyPath leaves what it made as it is.
LEMMA SimplifyAgain ==
    ASSUME NEW names \in Seq(Named) PROVE SimplifyOne(Absolute(names)) = Absolute(names)
<1>. DEFINE path == Absolute(names)
<1>1. path \in Seq(Piece) /\ path # EmptyPath /\ Yields(<<>>, path, names)
  BY AbsoluteIs
<1>. HIDE DEF path
<1>2. Simplified(SplitToList(path)) = names
  BY <1>1, SplitForgotten
<1>3. SimplifyOne(path) = Absolute(names)
  BY <1>1, <1>2 DEF SimplifyOne
<1>. QED BY <1>3 DEF path

\* Going on from the simplified path is going on from the path.
LEMMA SimplifyFurther ==
    ASSUME NEW cwd, NEW names, Names(cwd, names),
           NEW path \in Seq(Piece) \ {<<>>}, path # EmptyPath,
           NEW result, Yields(Base(names, path), path, result),
           NEW further \in Seq(Piece) \ {<<>>}, ~IsAbsolute(further)
    PROVE  SimplifyPath(Absolute(result), further) = SimplifyPath(cwd, Joined(path, further))
<1>. DEFINE w == path \o further
<1>1. result \in Seq(Named)
  BY YieldsNames
<1>2. PICK next : Yields(result, further, next)
  BY <1>1, YieldsSome
<1>3. SimplifyPath(Absolute(result), further) = Absolute(next)
  <2>1. Names(Absolute(result), result) /\ Base(result, further) = result
    BY <1>1 DEF Names, Base
  <2>. QED BY <1>2, <2>1, SimplifyIs
<1>4. /\ w \in Seq(Piece) /\ Len(w) = Len(path) + Len(further)
      /\ \A i \in 1 .. Len(path) + Len(further) : w[i] = IF i <= Len(path) THEN path[i] ELSE further[i - Len(path)]
  BY ConcatProperties
<1>5. Len(path) \in Nat \ {0} /\ Len(further) \in Nat \ {0}
  BY EmptySeq
<1>. HIDE DEF w
<1>6. w # <<>> /\ Len(w) > 1
  <2>1. Len(w) > 1
    BY <1>4, <1>5
  <2>2. Len(w) > 0
    BY <1>4, <1>5
  <2>. QED BY <1>4, <2>1, <2>2, NotEmpty
<1>7. w[1] = path[1]
  <2>1. 1 \in 1 .. Len(path) + Len(further) /\ 1 <= Len(path)
    BY <1>5
  <2>. QED BY <1>4, <2>1
<1>8. Len(path) > 1 \/ path[1] # Blank
  <2>6. Len(path) = 1 \/ Len(path) > 1
    <3>1. \A n \in Nat \ {0} : n = 1 \/ n > 1
      OBVIOUS
    <3>. QED BY <1>5, <3>1, Zenon
  <2>1. SUFFICES ASSUME ~(Len(path) > 1), path[1] = Blank PROVE FALSE
    OBVIOUS
  <2>2. Len(path) = 1
    BY <2>1, <2>6
  <2>3. EmptyPath \in Seq(Piece) /\ Len(EmptyPath) = 1 /\ EmptyPath[1] = Blank
    BY EmptyAndRoot
  <2>4. \A i \in 1 .. Len(path) : path[i] = EmptyPath[i]
    BY <2>1, <2>2, <2>3
  <2>5. path = EmptyPath
    BY <2>2, <2>3, <2>4, SeqEqual
  <2>. QED BY <2>5
<1>9. IsAbsolute(w) <=> IsAbsolute(path)
  BY <1>4, <1>6, <1>7, <1>8, IsAbsoluteIs
<1>10. Base(names, w) = Base(names, path)
  BY <1>9 DEF Base
<1>11. Yields(Base(names, w), w, next)
  BY <1>2, <1>10, YieldsJoin DEF w
<1>12. SimplifyPath(cwd, w) = Absolute(next)
  BY <1>4, <1>6, <1>11, SimplifyIs
<1>. QED BY <1>3, <1>12 DEF Joined, w

\* Front and tail of a path from the root that has names.
LEMMA RootedFront ==
    ASSUME NEW names \in Seq(Named), names # <<>>
    PROVE  Front(Rooted(names)) = Rooted(Front(names)) /\ Tail(Rooted(names)) = names
<1>. DEFINE w == Rooted(names)
            m == Len(names)
            short == Front(names)
            v == Rooted(short)
<1>1. m \in Nat \ {0}
  BY EmptySeq
<1>2. /\ short \in Seq(Named) /\ Len(short) = m - 1
      /\ \A i \in 1 .. m - 1 : short[i] = names[i]
  BY FrontIs
<1>3. /\ w \in Seq(Piece) /\ Len(w) = m + 1
      /\ w[1] = Blank /\ \A i \in 1 .. m : w[i + 1] = names[i]
  BY RootedIs
<1>. HIDE DEF w, m, short
<1>4. /\ v \in Seq(Piece) /\ Len(v) = Len(short) + 1
      /\ v[1] = Blank /\ \A i \in 1 .. Len(short) : v[i + 1] = short[i]
  BY <1>2, RootedIs
<1>. HIDE DEF v
<1>5. w # <<>>
  <2>1. Len(w) > 0
    BY <1>1, <1>3
  <2>. QED BY <1>3, <2>1, NotEmpty
<1>6. /\ Front(w) \in Seq(Piece) /\ Len(Front(w)) = Len(w) - 1
      /\ \A i \in 1 .. Len(w) - 1 : Front(w)[i] = w[i]
  BY <1>3, <1>5, FrontIs
<1>7. Front(w) = v
  <2>1. Len(Front(w)) = m /\ Len(v) = m
    BY <1>1, <1>2, <1>3, <1>4, <1>6
  <2>2. ASSUME NEW i \in 1 .. m PROVE Front(w)[i] = v[i]
    <3>1. Front(w)[i] = w[i]
      BY <1>1, <1>3, <1>6
    <3>2. CASE i = 1
      BY <1>3, <1>4, <3>1, <3>2
    <3>3. CASE i # 1
      <4>1. i - 1 \in 1 .. m /\ i - 1 \in 1 .. m - 1 /\ (i - 1) + 1 = i
        BY <1>1, <3>3
      <4>2. v[i] = short[i - 1] /\ w[i] = names[i - 1]
        BY <1>2, <1>3, <1>4, <4>1
      <4>. QED BY <1>2, <3>1, <4>1, <4>2
    <3>. QED BY <3>2, <3>3
  <2>. QED BY <1>4, <1>6, <2>1, <2>2, SeqEqual
<1>8. Tail(w) = names
  <2>1. /\ Tail(w) \in Seq(Piece) /\ Len(Tail(w)) = Len(w) - 1
        /\ \A i \in 1 .. Len(Tail(w)) : Tail(w)[i] = w[i + 1]
    BY <1>3, <1>5, HeadTailProperties
  <2>2. names \in Seq(Piece) /\ Len(names) = m
    BY NamedPieces DEF m
  <2>3. Len(Tail(w)) = m
    BY <1>1, <1>3, <2>1
  <2>4. \A i \in 1 .. m : Tail(w)[i] = names[i]
    BY <1>3, <2>1, <2>3
  <2>. QED BY <2>1, <2>2, <2>3, <2>4, SeqEqual
<1>. QED BY <1>7, <1>8 DEF w, v, short

\* A path from the root that has names does not end in a slash.
LEMMA RootedEnds ==
    ASSUME NEW names \in Seq(Named), names # <<>>
    PROVE  /\ Absolute(names) = Rooted(names) /\ Unterminated(Rooted(names)) = Rooted(names)
           /\ Last(Rooted(names)) = Last(names) /\ Rooted(names) # RootPath /\ Rooted(names) # EmptyPath
<1>. DEFINE w == Rooted(names)
<1>1. Absolute(names) = w /\ Last(w) = names[Len(names)] /\ Last(w) \in Named
  BY LastOfAbsolute
<1>. HIDE DEF w
<1>2. Last(w) # Blank
  BY <1>1 DEF Named, Blank
<1>3. Unterminated(w) = w
  BY <1>2 DEF Unterminated, Blank
<1>4. Last(RootPath) = Blank /\ Last(EmptyPath) = Blank
  BY EmptyAndRoot DEF Last
<1>5. w # RootPath /\ w # EmptyPath
  BY <1>2, <1>4
<1>6. Last(names) = names[Len(names)]
  BY DEF Last
<1>. QED BY <1>1, <1>3, <1>5, <1>6 DEF w

\* The root ends in one.
LEMMA RootEnds == Unterminated(RootPath) = EmptyPath /\ Last(EmptyPath) = Blank
<1>1. /\ Front(RootPath) \in Seq(Piece) /\ Len(Front(RootPath)) = Len(RootPath) - 1
      /\ \A i \in 1 .. Len(RootPath) - 1 : Front(RootPath)[i] = RootPath[i]
  BY EmptyAndRoot, EmptyIsNotRoot, FrontIs
<1>2. Len(RootPath) = 2 /\ RootPath[1] = Blank /\ RootPath[2] = Blank
  BY EmptyAndRoot
<1>3. EmptyPath \in Seq(Piece) /\ Len(EmptyPath) = 1 /\ EmptyPath[1] = Blank
  BY EmptyAndRoot
<1>4. Len(Front(RootPath)) = 1 /\ Front(RootPath)[1] = Blank
  BY <1>1, <1>2
<1>5. Front(RootPath) = EmptyPath
  BY <1>1, <1>3, <1>4, SeqEqual
<1>6. Last(RootPath) = Blank
  BY <1>2 DEF Last
<1>7. Last(EmptyPath) = Blank
  BY <1>3 DEF Last
<1>8. Len(RootPath) > 1
  BY <1>2
<1>9. Unterminated(RootPath) = Front(RootPath)
  BY <1>6, <1>8 DEF Unterminated, Blank
<1>. QED BY <1>5, <1>7, <1>9

\* pathParent is simplifyPath of "..".
LEMMA ParentIs ==
    ASSUME NEW names \in Seq(Named)
    PROVE  PathParent(Absolute(names)) = SimplifyPath(Absolute(names), <<"..">>)
<1>. DEFINE up == IF names = <<>> THEN <<>> ELSE Front(names)
<1>1. up \in Seq(Named)
  BY FrontIs
<1>2. ".." \in Piece
  BY DEF Piece
<1>3. Turn(names, "..") = up
  BY DEF Turn
<1>. HIDE DEF up
<1>4. SimplifyPath(Absolute(names), <<"..">>) = Absolute(up)
  <2>1. Yields(names, <<"..">>, up) /\ <<"..">> \in Seq(Piece) \ {<<>>}
    BY <1>2, <1>3, OneYields
  <2>2. ~IsAbsolute(<<"..">>)
    <3>1. Len(<<"..">>) = 1
      OBVIOUS
    <3>. QED BY <3>1 DEF IsAbsolute
  <2>3. Base(names, <<"..">>) = names
    BY <2>2 DEF Base
  <2>4. Names(Absolute(names), names)
    BY DEF Names
  <2>. QED BY <2>1, <2>3, <2>4, SimplifyIs
<1>5. CASE names = <<>>
  <2>1. Absolute(names) = RootPath /\ Absolute(up) = RootPath
    BY <1>5 DEF Absolute, up
  <2>2. PathParent(RootPath) = RootPath
    BY DEF PathParent
  <2>. QED BY <1>4, <2>1, <2>2
<1>6. CASE names # <<>>
  <2>1. /\ Absolute(names) = Rooted(names) /\ Unterminated(Rooted(names)) = Rooted(names)
        /\ Rooted(names) # RootPath /\ Rooted(names) # EmptyPath
    BY <1>6, RootedEnds
  <2>2. Front(Rooted(names)) = Rooted(up)
    BY <1>6, RootedFront DEF up
  <2>3. PathParent(Rooted(names)) =
            IF Rooted(up) = EmptyPath THEN RootPath ELSE IF Rooted(up) = <<>> THEN EmptyPath ELSE Rooted(up)
    BY <2>1, <2>2, Zenon DEF PathParent
  <2>4. CASE up = <<>>
    <3>1. EmptyPath \in Seq(Piece)
      BY EmptyAndRoot
    <3>2. Rooted(up) = EmptyPath
      BY <2>4, <3>1, ConcatEmptySeq DEF Rooted
    <3>. QED BY <1>4, <2>1, <2>3, <2>4, <3>2 DEF Absolute
  <2>5. CASE up # <<>>
    <3>1. Rooted(up) = Absolute(up) /\ Rooted(up) # EmptyPath
      BY <1>1, <2>5, RootedEnds
    <3>2. Rooted(up) # <<>>
      BY <1>1, <3>1, AbsoluteIs
    <3>. QED BY <1>4, <2>1, <2>3, <3>1, <3>2
  <2>. QED BY <2>4, <2>5
<1>. QED BY <1>5, <1>6

\* The names that find meets: none but an empty one in the root.
Met(names) == IF names = <<>> THEN EmptyPath ELSE names

\* They are what follows the first slash.
LEMMA MetIs ==
    ASSUME NEW names \in Seq(Named)
    PROVE  /\ Met(names) = IF Absolute(names) = RootPath THEN <<"">> ELSE Tail(Absolute(names))
           /\ PathLast(Absolute(names)) = Last(Met(names))
<1>1. CASE names = <<>>
  <2>1. Absolute(names) = RootPath /\ Met(names) = EmptyPath
    BY <1>1 DEF Absolute, Met
  <2>2. EmptyPath = <<"">>
    BY DEF EmptyPath
  <2>3. PathLast(RootPath) = Last(EmptyPath)
    BY RootEnds DEF PathLast
  <2>. QED BY <2>1, <2>2, <2>3
<1>2. CASE names # <<>>
  <2>1. /\ Absolute(names) = Rooted(names) /\ Unterminated(Rooted(names)) = Rooted(names)
        /\ Last(Rooted(names)) = Last(names) /\ Rooted(names) # RootPath
    BY <1>2, RootedEnds
  <2>2. Tail(Rooted(names)) = names
    BY <1>2, RootedFront
  <2>3. Met(names) = names
    BY <1>2 DEF Met
  <2>4. PathLast(Rooted(names)) = Last(names)
    BY <2>1 DEF PathLast
  <2>. QED BY <2>1, <2>2, <2>3, <2>4
<1>. QED BY <1>1, <1>2

\* w is what find has left after so many steps, k of them before nothing is.
Left(w, path, k) ==
    /\ w = [n \in 0 .. Len(path) |-> w[n]] /\ w[0] = path
    /\ \A n \in 1 .. Len(path) :
          w[n] = IF w[n - 1] = EmptyPath THEN EmptyPath ELSE PathFirst(w[n - 1]).remainder
    /\ \A n \in 0 .. Len(path) : w[n] # EmptyPath <=> n < k

LEMMA WalkedIs ==
    ASSUME NEW path \in Seq(Piece), NEW k \in 0 .. Len(path), NEW w, Left(w, path, k)
    PROVE  Walked(path) = [n \in 1 .. k |-> PathFirst(w[n - 1]).name]
<1>. DEFINE N == Len(path)
            left[n \in 0 .. N] ==
                IF n = 0 THEN path
                ELSE IF left[n - 1] = EmptyPath THEN EmptyPath
                ELSE PathFirst(left[n - 1]).remainder
            steps == Cardinality({n \in 0 .. N : left[n] # EmptyPath})
<1>1. N \in Nat /\ k \in 0 .. N
  OBVIOUS
<1>2. Walked(path) = [n \in 1 .. steps |-> PathFirst(left[n - 1]).name]
  BY Zenon DEF Walked, left
<1>. HIDE DEF N
<1>3. /\ w = [n \in 0 .. N |-> w[n]] /\ w[0] = path
      /\ \A n \in 1 .. N : w[n] = IF w[n - 1] = EmptyPath THEN EmptyPath ELSE PathFirst(w[n - 1]).remainder
      /\ \A n \in 0 .. N : w[n] # EmptyPath <=> n < k
  BY DEF Left, N
<1>4. w = [n \in 0 .. N |-> IF n = 0 THEN path
                            ELSE IF w[n - 1] = EmptyPath THEN EmptyPath
                            ELSE PathFirst(w[n - 1]).remainder]
  <2>1. ASSUME NEW n \in 0 .. N
        PROVE  w[n] = IF n = 0 THEN path
                      ELSE IF w[n - 1] = EmptyPath THEN EmptyPath
                      ELSE PathFirst(w[n - 1]).remainder
    <3>1. CASE n = 0
      BY <1>3, <3>1
    <3>2. CASE n # 0
      <4>1. n \in 1 .. N
        BY <1>1, <3>2
      <4>. QED BY <1>3, <3>2, <4>1
    <3>. QED BY <3>1, <3>2
  <2>. QED BY <1>3, <2>1
<1>5. left = [n \in 0 .. N |-> IF n = 0 THEN path
                               ELSE IF left[n - 1] = EmptyPath THEN EmptyPath
                               ELSE PathFirst(left[n - 1]).remainder]
  BY <1>4 DEF left
<1>. HIDE DEF left
<1>6. ASSUME NEW n \in 0 .. N PROVE left[n] = w[n]
  <2>. DEFINE S == {i \in Nat : i \in 0 .. N => left[i] = w[i]}
  <2>1. 0 \in S
    BY <1>4, <1>5
  <2>2. ASSUME NEW i \in Nat, i \in S PROVE i + 1 \in S
    <3>1. SUFFICES ASSUME i + 1 \in 0 .. N PROVE left[i + 1] = w[i + 1]
      OBVIOUS
    <3>2. i \in 0 .. N /\ (i + 1) - 1 = i /\ i + 1 # 0
      BY <1>1, <3>1
    <3>3. left[i] = w[i]
      BY <2>2, <3>2
    <3>4. left[i + 1] = IF left[i] = EmptyPath THEN EmptyPath ELSE PathFirst(left[i]).remainder
      BY <1>5, <3>1, <3>2
    <3>5. w[i + 1] = IF w[i] = EmptyPath THEN EmptyPath ELSE PathFirst(w[i]).remainder
      BY <1>4, <3>1, <3>2
    <3>. QED BY <3>3, <3>4, <3>5
  <2>3. Nat \subseteq S
    <3>. HIDE DEF S
    <3>. QED BY <2>1, <2>2, SetInduction
  <2>. QED BY <1>1, <2>3
<1>7. steps = k
  <2>. DEFINE U == {n \in 0 .. N : left[n] # EmptyPath}
  <2>1. \A n \in 0 .. N : n \in U <=> n < k
    BY <1>3, <1>6
  <2>2. U \subseteq 0 .. N
    OBVIOUS
  <2>. HIDE DEF U
  <2>3. U = 0 .. k - 1
    <3>1. \A n : n \in 0 .. k - 1 <=> n \in 0 .. N /\ n < k
      BY <1>1
    <3>. QED BY <2>1, <2>2, <3>1
  <2>4. Cardinality(0 .. k - 1) = k
    <3>1. 0 \in Int /\ k - 1 \in Int
      BY <1>1
    <3>2. Cardinality(0 .. k - 1) = IF 0 > k - 1 THEN 0 ELSE k - 1 - 0 + 1
      BY <3>1, FS_Interval
    <3>. QED BY <1>1, <3>2
  <2>. QED BY <2>3, <2>4 DEF U
<1>. HIDE DEF steps
<1>8. ASSUME NEW n \in 1 .. k PROVE left[n - 1] = w[n - 1]
  <2>1. n - 1 \in 0 .. N
    BY <1>1
  <2>. QED BY <1>6, <2>1
<1>. QED BY <1>2, <1>7, <1>8

\* The rest of names behind the first n.
Rest(names, n) == SubSeq(names, n + 1, Len(names))

LEMMA RestIs ==
    ASSUME NEW names \in Seq(Named), NEW n \in 0 .. Len(names)
    PROVE  /\ Rest(names, n) \in Seq(Named) /\ Len(Rest(names, n)) = Len(names) - n
           /\ \A i \in 1 .. Len(names) - n : Rest(names, n)[i] = names[n + i]
<1>. DEFINE m == Len(names)
            rest == SubSeq(names, n + 1, m)
<1>1. m \in Nat /\ n \in Nat /\ n <= m
  OBVIOUS
<1>2. \A i \in n + 1 .. m : names[i] \in Named
  <2>1. \A i \in n + 1 .. m : i \in 1 .. m
    BY <1>1
  <2>. QED BY <2>1
<1>. HIDE DEF m
<1>3. n + 1 \in Int /\ m \in Int
  BY <1>1
<1>4. /\ rest \in Seq(Named) /\ Len(rest) = (IF n + 1 <= m THEN m - (n + 1) + 1 ELSE 0)
      /\ \A i \in 1 .. m - (n + 1) + 1 : rest[i] = names[(n + 1) + i - 1]
  BY <1>2, <1>3, SubSeqProperties
<1>. HIDE DEF rest
<1>5. Len(rest) = m - n
  BY <1>1, <1>4
<1>6. \A i \in 1 .. m - n : rest[i] = names[n + i]
  <2>1. TAKE i \in 1 .. m - n
  <2>2. i \in 1 .. m - (n + 1) + 1 /\ (n + 1) + i - 1 = n + i
    BY <1>1
  <2>. QED BY <1>4, <2>2
<1>. QED BY <1>4, <1>5, <1>6 DEF Rest, rest, m

\* What pathFirst takes from a path with names.
LEMMA FirstIs ==
    ASSUME NEW names \in Seq(Named), names # <<>>
    PROVE  PathFirst(Rooted(names)) = [name |-> Head(names), remainder |-> Rooted(Tail(names))]
<1>1. IsAbsolute(Rooted(names)) /\ Tail(Rooted(names)) = names
  <2>1. Absolute(names) = Rooted(names)
    BY RootedEnds
  <2>. QED BY <2>1, AbsoluteIs, RootedFront
<1>2. Tail(names) \in Seq(Named)
  BY HeadTailProperties
<1>3. Tail(names) # EmptyPath
  <2>1. SUFFICES ASSUME Tail(names) = EmptyPath PROVE FALSE
    OBVIOUS
  <2>2. EmptyPath \in Seq(Named) /\ EmptyPath # <<>>
    BY <1>2, <2>1, EmptyIsNotRoot
  <2>3. Head(EmptyPath) \in Named /\ Head(EmptyPath) = EmptyPath[1]
    BY <2>2, HeadIs, HeadTailProperties
  <2>. QED BY <2>3, EmptyAndRoot DEF Named, Blank
<1>4. Tail(names) = <<>> => Rooted(Tail(names)) = EmptyPath
  <2>1. EmptyPath \in Seq(Piece)
    BY EmptyAndRoot
  <2>. QED BY <2>1, ConcatEmptySeq DEF Rooted
<1>5. PathFirst(Rooted(names)) =
          [name |-> Head(names),
           remainder |-> IF Tail(names) \in {<<>>, EmptyPath} THEN EmptyPath ELSE EmptyPath \o Tail(names)]
  BY <1>1, Zenon DEF PathFirst
<1>. QED BY <1>3, <1>4, <1>5 DEF Rooted

\* And from the root: an empty name, and nothing is left.
LEMMA FirstOfRoot == PathFirst(RootPath).name = Blank /\ PathFirst(RootPath).remainder = EmptyPath
<1>1. IsAbsolute(RootPath)
  BY EmptyAndRoot, IsAbsoluteIs
<1>2. Tail(RootPath) = EmptyPath
  <2>1. /\ Tail(RootPath) \in Seq(Piece) /\ Len(Tail(RootPath)) = Len(RootPath) - 1
        /\ \A i \in 1 .. Len(Tail(RootPath)) : Tail(RootPath)[i] = RootPath[i + 1]
    BY EmptyAndRoot, EmptyIsNotRoot, HeadTailProperties
  <2>2. Len(RootPath) = 2 /\ RootPath[2] = Blank
    BY EmptyAndRoot
  <2>3. EmptyPath \in Seq(Piece) /\ Len(EmptyPath) = 1 /\ EmptyPath[1] = Blank
    BY EmptyAndRoot
  <2>4. Len(Tail(RootPath)) = 1 /\ Tail(RootPath)[1] = Blank
    <3>1. Len(Tail(RootPath)) = 1
      BY <2>1, <2>2
    <3>2. 1 \in 1 .. Len(Tail(RootPath)) /\ 1 + 1 = 2
      BY <3>1
    <3>3. Tail(RootPath)[1] = RootPath[1 + 1]
      BY <2>1, <3>2
    <3>4. Tail(RootPath)[1] = RootPath[2]
      BY <3>2, <3>3
    <3>. QED BY <2>2, <3>1, <3>4, Zenon
  <2>. DEFINE tail == Tail(RootPath)
  <2>5. tail \in Seq(Piece) /\ Len(tail) = 1 /\ tail[1] = Blank
    BY <2>1, <2>4
  <2>. HIDE DEF tail
  <2>6. tail = EmptyPath
    BY <2>3, <2>5, SeqEqual
  <2>. QED BY <2>6 DEF tail
<1>3. Head(EmptyPath) = Blank
  <2>1. Head(EmptyPath) = EmptyPath[1]
    BY EmptyAndRoot, EmptyIsNotRoot, HeadIs
  <2>. QED BY <2>1, EmptyAndRoot
<1>4. Tail(EmptyPath) = <<>>
  <2>1. Tail(EmptyPath) \in Seq(Piece) /\ Len(Tail(EmptyPath)) = Len(EmptyPath) - 1
    BY EmptyAndRoot, EmptyIsNotRoot, HeadTailProperties
  <2>2. Len(Tail(EmptyPath)) = 0
    BY <2>1, EmptyAndRoot
  <2>. QED BY <2>1, <2>2, EmptySeq
<1>5. PathFirst(RootPath) =
          [name |-> Head(EmptyPath),
           remainder |-> IF Tail(EmptyPath) \in {<<>>, EmptyPath} THEN EmptyPath ELSE EmptyPath \o Tail(EmptyPath)]
  BY <1>1, <1>2, Zenon DEF PathFirst
<1>6. PathFirst(RootPath) = [name |-> Blank, remainder |-> EmptyPath]
  BY <1>3, <1>4, <1>5
<1>. QED BY <1>6

\* A function of one argument that is a sequence of one piece.
LEMMA OneFunction == ASSUME NEW x PROVE [n \in 1 .. 1 |-> x] = <<x>>
OBVIOUS

\* find meets the names of a canonical path.
LEMMA WalkedAre ==
    ASSUME NEW names \in Seq(Named) PROVE Walked(Absolute(names)) = Met(names)
<1>1. CASE names = <<>>
  <2>. DEFINE w == [n \in 0 .. 2 |-> IF n = 0 THEN RootPath ELSE EmptyPath]
  <2>1. Absolute(names) = RootPath /\ Met(names) = EmptyPath
    BY <1>1 DEF Absolute, Met
  <2>2. RootPath \in Seq(Piece) /\ Len(RootPath) = 2
    BY EmptyAndRoot
  <2>3. \A n \in 0 .. 2 : n = 0 \/ n = 1 \/ n = 2
    OBVIOUS
  <2>4. w = [n \in 0 .. 2 |-> w[n]] /\ w[0] = RootPath /\ w[1] = EmptyPath /\ w[2] = EmptyPath
    OBVIOUS
  <2>. HIDE DEF w
  <2>5. \A n \in 1 .. 2 : w[n] = IF w[n - 1] = EmptyPath THEN EmptyPath ELSE PathFirst(w[n - 1]).remainder
    <3>1. w[1] = IF w[0] = EmptyPath THEN EmptyPath ELSE PathFirst(w[0]).remainder
      BY <2>4, FirstOfRoot
    <3>2. w[2] = IF w[1] = EmptyPath THEN EmptyPath ELSE PathFirst(w[1]).remainder
      BY <2>4
    <3>3. \A n \in 1 .. 2 : (n = 1 /\ n - 1 = 0) \/ (n = 2 /\ n - 1 = 1)
      OBVIOUS
    <3>. QED BY <3>1, <3>2, <3>3
  <2>6. \A n \in 0 .. 2 : w[n] # EmptyPath <=> n < 1
    BY <2>3, <2>4, EmptyIsNotRoot
  <2>. DEFINE k == 1
              first(n) == PathFirst(w[n - 1]).name
  <2>7. Left(w, RootPath, k)
    BY <2>2, <2>4, <2>5, <2>6 DEF Left
  <2>8. k \in 0 .. Len(RootPath)
    BY <2>2
  <2>. HIDE DEF k
  <2>9. Walked(RootPath) = [n \in 1 .. k |-> first(n)]
    <3>1. RootPath \in Seq(Piece)
      BY <2>2
    <3>. QED BY <2>7, <2>8, <3>1, WalkedIs
  <2>10. \A n \in 1 .. 1 : first(n) = Blank
    <3>1. \A n \in 1 .. 1 : n - 1 = 0
      OBVIOUS
    <3>. QED BY <2>4, <3>1, FirstOfRoot
  <2>. HIDE DEF first
  <2>11. [n \in 1 .. k |-> first(n)] = <<Blank>>
    <3>1. [n \in 1 .. 1 |-> first(n)] = [n \in 1 .. 1 |-> Blank]
      BY <2>10
    <3>. QED BY <3>1, OneFunction DEF k
  <2>. QED BY <2>1, <2>9, <2>11 DEF EmptyPath, Blank
<1>2. CASE names # <<>>
  <2>. DEFINE m == Len(names)
              path == Rooted(names)
              w == [n \in 0 .. m + 1 |-> IF n <= m THEN Rooted(Rest(names, n)) ELSE EmptyPath]
  <2>1. Absolute(names) = path /\ Met(names) = names
    BY <1>2, RootedEnds DEF Met
  <2>2. m \in Nat \ {0}
    BY <1>2, EmptySeq
  <2>3. path \in Seq(Piece) /\ Len(path) = m + 1
    BY RootedIs
  <2>4. ASSUME NEW n \in 0 .. m
        PROVE  /\ Rest(names, n) \in Seq(Named) /\ Len(Rest(names, n)) = m - n
               /\ \A i \in 1 .. m - n : Rest(names, n)[i] = names[n + i]
    BY RestIs
  <2>5. names \in Seq(Named) /\ Len(names) = m
    OBVIOUS
  <2>. HIDE DEF m, path
  <2>6. w = [n \in 0 .. m + 1 |-> w[n]] /\ w[m + 1] = EmptyPath
    BY <2>2
  <2>7. ASSUME NEW n \in 0 .. m PROVE w[n] = Rooted(Rest(names, n))
    <3>1. n \in 0 .. m + 1 /\ n <= m
      BY <2>2
    <3>. QED BY <3>1
  <2>. HIDE DEF w
  <2>8. Rest(names, 0) = names
    <3>1. 0 \in 0 .. m /\ m - 0 = m /\ \A i \in 1 .. m : 0 + i = i
      BY <2>2
    <3>2. /\ Rest(names, 0) \in Seq(Named) /\ Len(Rest(names, 0)) = m
          /\ \A i \in 1 .. m : Rest(names, 0)[i] = names[i]
      BY <2>4, <3>1
    <3>. QED BY <2>5, <3>2, SeqEqual
  <2>9. Rest(names, m) = <<>>
    <3>1. m \in 0 .. m /\ m - m = 0
      BY <2>2
    <3>2. Rest(names, m) \in Seq(Named) /\ Len(Rest(names, m)) = 0
      BY <2>4, <3>1
    <3>. QED BY <3>2, EmptySeq
  <2>10. ASSUME NEW n \in 0 .. m, n < m
         PROVE  /\ Rest(names, n) # <<>> /\ Head(Rest(names, n)) = names[n + 1]
                /\ Tail(Rest(names, n)) = Rest(names, n + 1)
    <3>. DEFINE rest == Rest(names, n)
                next == Rest(names, n + 1)
    <3>1. /\ rest \in Seq(Named) /\ Len(rest) = m - n
          /\ \A i \in 1 .. m - n : rest[i] = names[n + i]
      BY <2>4
    <3>2. n + 1 \in 0 .. m /\ m - (n + 1) = m - n - 1 /\ m - n > 0
      BY <2>2, <2>10
    <3>3. /\ next \in Seq(Named) /\ Len(next) = m - (n + 1)
          /\ \A i \in 1 .. m - (n + 1) : next[i] = names[n + 1 + i]
      BY <2>4, <3>2
    <3>. HIDE DEF rest, next
    <3>4. rest # <<>>
      BY <3>1, <3>2, NotEmpty
    <3>5. Head(rest) = names[n + 1]
      <4>1. Head(rest) = rest[1]
        BY <3>1, <3>4, HeadIs
      <4>2. 1 \in 1 .. m - n
        BY <2>2, <3>2
      <4>. QED BY <3>1, <4>1, <4>2
    <3>6. Tail(rest) = next
      <4>1. /\ Tail(rest) \in Seq(Named) /\ Len(Tail(rest)) = Len(rest) - 1
            /\ \A i \in 1 .. Len(Tail(rest)) : Tail(rest)[i] = rest[i + 1]
        BY <3>1, <3>4, HeadTailProperties
      <4>2. Len(Tail(rest)) = m - (n + 1)
        BY <3>1, <3>2, <4>1
      <4>3. ASSUME NEW i \in 1 .. m - (n + 1) PROVE Tail(rest)[i] = next[i]
        <5>1. i + 1 \in 1 .. m - n /\ n + (i + 1) = n + 1 + i
          BY <2>2
        <5>. QED BY <3>1, <3>3, <4>1, <4>2, <5>1
      <4>. QED BY <3>3, <4>1, <4>2, <4>3, SeqEqual
    <3>. QED BY <3>4, <3>5, <3>6 DEF rest, next
  <2>11. ASSUME NEW n \in 0 .. m, n < m
         PROVE  /\ w[n] # EmptyPath /\ PathFirst(w[n]).name = names[n + 1]
                /\ PathFirst(w[n]).remainder = w[n + 1]
    <3>1. Rest(names, n) \in Seq(Named) /\ Rest(names, n) # <<>>
      BY <2>4, <2>10, <2>11
    <3>2. w[n] # EmptyPath
      BY <2>7, <3>1, RootedEnds
    <3>3. PathFirst(w[n]) = [name |-> names[n + 1], remainder |-> Rooted(Rest(names, n + 1))]
      BY <2>7, <2>10, <2>11, <3>1, FirstIs
    <3>4. n + 1 \in 0 .. m
      BY <2>2, <2>11
    <3>. QED BY <2>7, <3>2, <3>3, <3>4
  <2>12. w[m] = EmptyPath
    <3>1. EmptyPath \in Seq(Piece)
      BY EmptyAndRoot
    <3>2. Rooted(<<>>) = EmptyPath
      BY <3>1, ConcatEmptySeq DEF Rooted
    <3>3. m \in 0 .. m
      BY <2>2
    <3>. QED BY <2>7, <2>9, <3>2, <3>3
  <2>13. ASSUME NEW n \in 1 .. m + 1
         PROVE  w[n] = IF w[n - 1] = EmptyPath THEN EmptyPath ELSE PathFirst(w[n - 1]).remainder
    <3>1. CASE n = m + 1
      <4>1. n - 1 = m
        BY <2>2, <3>1
      <4>. QED BY <2>6, <2>12, <3>1, <4>1
    <3>2. CASE n # m + 1
      <4>1. n - 1 \in 0 .. m /\ n - 1 < m /\ (n - 1) + 1 = n
        BY <2>2, <3>2
      <4>. QED BY <2>11, <4>1
    <3>. QED BY <3>1, <3>2
  <2>14. ASSUME NEW n \in 0 .. m + 1 PROVE w[n] # EmptyPath <=> n < m
    <3>1. CASE n < m
      <4>1. n \in 0 .. m
        BY <2>2, <3>1
      <4>. QED BY <2>11, <3>1, <4>1
    <3>2. CASE ~(n < m)
      <4>1. n = m \/ n = m + 1
        BY <2>2, <3>2
      <4>. QED BY <2>6, <2>12, <3>2, <4>1
    <3>. QED BY <3>1, <3>2
  <2>15. w[0] = path
    <3>1. 0 \in 0 .. m
      BY <2>2
    <3>. QED BY <2>7, <2>8, <3>1 DEF path
  <2>16. Left(w, path, m)
    BY <2>3, <2>6, <2>13, <2>14, <2>15 DEF Left
  <2>17. m \in 0 .. Len(path)
    BY <2>2, <2>3
  <2>18. Walked(path) = [n \in 1 .. m |-> PathFirst(w[n - 1]).name]
    BY <2>3, <2>16, <2>17, WalkedIs
  <2>19. ASSUME NEW n \in 1 .. m PROVE PathFirst(w[n - 1]).name = names[n]
    <3>1. n - 1 \in 0 .. m /\ n - 1 < m /\ (n - 1) + 1 = n
      BY <2>2
    <3>. QED BY <2>11, <3>1
  <2>20. [n \in 1 .. m |-> PathFirst(w[n - 1]).name] = [n \in 1 .. m |-> names[n]]
    BY <2>19
  <2>21. names = [n \in 1 .. m |-> names[n]]
    BY <2>5
  <2>. QED BY <2>1, <2>18, <2>20, <2>21
<1>. QED BY <1>1, <1>2

\* simplifyPath and what is done with its result.
LEMMA PathsAlwaysAgreeOn ==
    ASSUME NEW cwd \in Seq(Piece) \ {<<>>}, cwd = EmptyPath \/ Canonical(cwd),
           NEW path \in Seq(Piece) \ {<<>>}, NEW further \in Seq(Piece) \ {<<>>}
    PROVE  PathAgrees(cwd, path, further)
<1>. DEFINE simple == SimplifyPath(cwd, path)
<1>1. PICK names : Names(cwd, names)
  <2>1. CASE cwd = EmptyPath
    <3>1. <<>> \in Seq(Named)
      OBVIOUS
    <3>. QED BY <2>1, <3>1 DEF Names
  <2>2. CASE Canonical(cwd)
    BY <2>2, CanonicalIs DEF Names
  <2>. QED BY <2>1, <2>2
<1>2. Base(names, path) \in Seq(Named)
  BY <1>1 DEF Names, Base
<1>3. PICK result : Yields(Base(names, path), path, result)
  BY <1>2, YieldsSome
<1>4. simple = Absolute(result)
  BY <1>1, <1>3, SimplifyIs
<1>5. result \in Seq(Named)
  BY <1>3, YieldsNames
<1>. HIDE DEF simple
<1>6. Canonical(simple)
  BY <1>4, <1>5, AbsoluteIs
<1>7. SimplifyOne(simple) = simple
  BY <1>4, <1>5, SimplifyAgain
<1>8. ASSUME path # EmptyPath, ~IsAbsolute(further)
      PROVE  SimplifyPath(simple, further) = SimplifyPath(cwd, Joined(path, further))
  BY <1>1, <1>3, <1>4, <1>8, SimplifyFurther
<1>9. PathParent(simple) = SimplifyPath(simple, <<"..">>)
  BY <1>4, <1>5, ParentIs
<1>10. /\ Met(result) = IF simple = RootPath THEN <<"">> ELSE Tail(simple)
       /\ PathLast(simple) = Last(Met(result))
  BY <1>4, <1>5, MetIs
<1>11. Walked(simple) = Met(result)
  BY <1>4, <1>5, WalkedAre
<1>. QED BY <1>6, <1>7, <1>8, <1>9, <1>10, <1>11, Zenon DEF PathAgrees, simple

\* Strings are pieces.
LEMMA StringPaths == Seq(STRING) \subseteq Seq(Piece)
<1>1. STRING \subseteq Piece
  BY DEF Piece
<1>. QED BY <1>1, SeqMonotonic

-----------------------------------------------------------------------------
(* All calls. *)

\* CopiesAgree (memcpy, memmove and memset): whatever the addresses, their alignment, the length
\* and how the ranges overlap, the copies and fills change what they should and nothing else.
THEOREM CopiesAlwaysAgree == RoutineSpec => []CopiesAgree
<1>1. RoutineInit => CopiesAgree
  <2>1. ASSUME RoutineInit, routine = "copy" PROVE CopyAgrees(Memory, job.dest, job.src, job.n)
    <3>1. job \in CopyJobs
      BY <2>1 DEF RoutineInit
    <3>2. job.dest \in Nat /\ job.src \in Nat /\ job.n \in Nat /\ Holds(Memory, job.src, job.n)
      BY <3>1, JobAssumption DEF Holds
    <3>. QED BY <3>2, CopyAlwaysAgrees
  <2>2. ASSUME RoutineInit, routine = "set" PROVE SetAgrees(Memory, job.dest, job.c, job.n)
    <3>1. job \in SetJobs
      BY <2>2 DEF RoutineInit
    <3>. QED BY <3>1, JobAssumption, FillsAgree
  <2>. QED BY <2>1, <2>2 DEF CopiesAgree
<1>2. CopiesAgree /\ [FALSE]_<<routine, job>> => CopiesAgree'
  BY DEF CopiesAgree
<1>. QED BY <1>1, <1>2, PTL DEF RoutineSpec

\* ClocksAgree (getClockDivider, the divisor in the UART's init, getSystemTimer): for every clock,
\* rate and moment the card is not clocked faster than the divisor aimed at says nor at half of
\* that, the line's rate is the nearest there is where UART::init accepts it, its fraction is
\* refused just below whole divisors only, and the time read is one that passed while it was read.
THEOREM ClocksAlwaysAgree == RoutineSpec => []ClocksAgree
<1>1. RoutineInit => ClocksAgree
  <2>1. ASSUME RoutineInit, routine = "clock" PROVE DividerAgrees(job.base, job.target)
    <3>1. job \in ClockJobs
      BY <2>1 DEF RoutineInit
    <3>. QED BY <3>1, JobAssumption, DividersAgree
  <2>2. ASSUME RoutineInit, routine = "baud" PROVE BaudAgrees(job.clockrate, job.baud)
    <3>1. job \in BaudJobs
      BY <2>2 DEF RoutineInit
    <3>. QED BY <3>1, JobAssumption, BaudsAgree
  <2>3. ASSUME RoutineInit, routine = "time" PROVE TimeAgrees(job, Half)
    <3>1. job \in TimeJobs
      BY <2>3 DEF RoutineInit
    <3>. QED BY <3>1, JobAssumption, TimesAreRead
  <2>. QED BY <2>1, <2>2, <2>3 DEF ClocksAgree
<1>2. ClocksAgree /\ [FALSE]_<<routine, job>> => ClocksAgree'
  BY DEF ClocksAgree
<1>. QED BY <1>1, <1>2, PTL DEF RoutineSpec

\* PathsAgree (simplifyPath, pathFirst, pathLast, pathParent): whatever the directory and the path,
\* the simplified path is canonical, stays as it is, may be gone on from in the path's place, and
\* is taken apart into its own names.
THEOREM PathsAlwaysAgree == RoutineSpec => []PathsAgree
<1>1. RoutineInit => PathsAgree
  <2>1. ASSUME RoutineInit, routine = "path" PROVE PathAgrees(job.cwd, job.path, job.further)
    <3>1. job \in PathJobs
      BY <2>1 DEF RoutineInit
    <3>2. /\ {job.cwd, job.path, job.further} \subseteq Seq(STRING) \ {<<>>}
          /\ job.cwd = EmptyPath \/ Canonical(job.cwd)
      BY <3>1, JobAssumption
    <3>3. {job.cwd, job.path, job.further} \subseteq Seq(Piece) \ {<<>>}
      BY <3>2, StringPaths
    <3>. QED BY <3>2, <3>3, PathsAlwaysAgreeOn
  <2>. QED BY <2>1 DEF PathsAgree
<1>2. PathsAgree /\ [FALSE]_<<routine, job>> => PathsAgree'
  BY DEF PathsAgree
<1>. QED BY <1>1, <1>2, PTL DEF RoutineSpec
====
