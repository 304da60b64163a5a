---- MODULE Clocks ----
(***************************************************************************)
(* Arithmetic of clocks: the divider of the SD clock (getClockDivider in     *)
(* src/storage/EMMC.cpp), that of the serial line (init in src/pi/UART.cpp)  *)
(* and the reading of the system timer, which has two registers for one      *)
(* count (getSystemTimer in src/aarch64/Timer.cpp).                          *)
(***************************************************************************)
EXTENDS Integers, FiniteSetsExt

(* The divisor that is aimed at; none, 0, where an inexact quotient of 1 is taken back. *)
TargetedDivisor(base_clock, target_rate) ==
    IF target_rate > base_clock THEN 1
    ELSE (base_clock \div target_rate) - (IF base_clock % target_rate = 0 THEN 0 ELSE 1)

(* The highest bit set. *)
FirstBit(n) == Max({b \in 0 .. 30 : 2^b <= n})

\* A variant that does not go up to the next power of two.
ExponentDown(divisor) == IF divisor = 0 THEN 31 ELSE FirstBit(divisor)

(* The power of two that is not below the divisor. *)
Exponent(divisor) ==
    IF divisor = 0 THEN 31
    ELSE IF 2^FirstBit(divisor) = divisor THEN FirstBit(divisor)
    ELSE FirstBit(divisor) + 1

(* What the ten bits of the field hold: half of the power of two, or 0 for no division. *)
FieldOf(exponent) ==
    IF exponent = 0 THEN 0 ELSE IF exponent > 10 THEN 1023 ELSE 2^(exponent - 1)

(* Low eight bits to bits 8 to 15 of the register, the upper two to bits 6 and 7. *)
GetClockDivider(base_clock, target_rate) ==
    LET divisor == FieldOf(Exponent(TargetedDivisor(base_clock, target_rate)))
    IN  ((divisor % 256) * 256) + (((divisor \div 256) % 4) * 64)

(* External, the host controller: it divides by twice the field. *)
Denominator(register) ==
    LET field == ((register \div 256) % 256) + (((register \div 64) % 4) * 256)
    IN  IF field = 0 THEN 1 ELSE 2 * field

(* The whole part and the 64ths of the serial line's divisor. *)
BaudDivisor(clockrate, baud) ==
    LET baud64 == baud * 16
        fractdiv2 == ((clockrate % baud64) * 8) \div baud
    IN  [intdiv |-> clockrate \div baud64, fractdiv |-> (fractdiv2 \div 2) + (fractdiv2 % 2)]

(* What UART::init asserts: the rate, and that the divisor fits its two registers. *)
BaudAccepted(clockrate, baud) ==
    LET d == BaudDivisor(clockrate, baud)
    IN  baud \in 300 .. 4000000 /\ d.intdiv \in 1 .. 65535 /\ d.fractdiv <= 63

(* getSystemTimer, its reads made at the times at: both halves, and again if the upper one *)
(* has changed.                                                                            *)
GetSystemTimer(at, half) ==
    IF at[1] \div half = at[3] \div half THEN ((at[1] \div half) * half) + (at[2] % half)
    ELSE ((at[4] \div half) * half) + (at[5] % half)

----
(* The clock does not exceed the target and is more than half of it if the quotient is exact *)
(* and ten bits are enough.  Another quotient is rounded down and lowered by one: it is the  *)
(* base clock over that number, above the target, that is not exceeded then.                 *)
DividerAgrees(base_clock, target_rate) ==
    LET quotient == base_clock \div target_rate
        least == IF base_clock % target_rate = 0 THEN quotient ELSE quotient - 1
        register == GetClockDivider(base_clock, target_rate)
    IN  least \in 1 .. 2046 => Denominator(register) \in least .. 2 * least - 1

(* A divisor the code accepts is rounded to the nearest 64th.  Of clocks no more than half a *)
(* 64th below a whole divisor the fraction is rounded up to 64, which is not carried: there, *)
(* and on account of the fraction only there, the last assertion stops the kernel.           *)
BaudAgrees(clockrate, baud) ==
    LET d == BaudDivisor(clockrate, baud)
        error(sixtyfourths) == sixtyfourths * baud - 4 * clockrate
    IN  /\ BaudAccepted(clockrate, baud) =>
              2 * error(64 * d.intdiv + d.fractdiv) \in -baud .. baud
        /\ d.fractdiv > 63 <=> 2 * error(64 * (d.intdiv + 1)) \in 0 .. baud

(* The time read is one that was passed while reading, wherever the lower half wraps.        *)
TimeAgrees(at, half) == GetSystemTimer(at, half) \in at[1] .. at[5]

====
