---------------------------- MODULE Synchronize ----------------------------
(***************************************************************************)
(* Critical sections on the one core: enterCritical masks interrupts and   *)
(* keeps the mask it found on a stack, leaveCritical takes it back.  A      *)
(* spinlock of Level::IRQ is such a section and nothing more, because the   *)
(* build has no other cores; one of Level::Task is nothing at all.          *)
(***************************************************************************)
EXTENDS Integers

CONSTANT MAX_CRITICAL_LEVEL

ASSUME LevelAssumption == MAX_CRITICAL_LEVEL \in Nat \ {0}

VARIABLES
    daif,             \* the interrupts the processor masks: "I" (IRQ), "F" (FIQ)
    criticalLevel,    \* how many masks are kept
    flags             \* the masks kept

critical == <<daif, criticalLevel, flags>>

Masks == SUBSET {"I", "F"}
Levels == 0 .. MAX_CRITICAL_LEVEL - 1

\* What Interrupts::init leaves: everything is masked at boot, then IRQs are enabled.
Running == {"F"}

CriticalInit ==
    /\ daif = Running
    /\ criticalLevel = 0
    /\ flags = [level \in Levels |-> {}]

CriticalTypeOK ==
    /\ daif \in Masks
    /\ criticalLevel \in 0 .. MAX_CRITICAL_LEVEL
    /\ flags \in [Levels -> Masks]

\* A variant of disableBoth that masks only FIQs.
DisableFIQs == daif' = daif \union {"F"} /\ UNCHANGED <<criticalLevel, flags>>

DisableBoth == daif' = {"I", "F"} /\ UNCHANGED <<criticalLevel, flags>>

\* The asserts of enterCritical and leaveCritical.
RoomToEnter == criticalLevel < MAX_CRITICAL_LEVEL
RoomToLeave == 0 < criticalLevel

\* enterCritical after disableBoth; Level::IRQ lets FIQs through again.
Keep(current) ==
    /\ RoomToEnter
    /\ flags' = [flags EXCEPT ![criticalLevel] = current]
    /\ criticalLevel' = criticalLevel + 1
    /\ daif' = daif \ {"F"}

\* leaveCritical up to the mask it will restore, Kept, and that last step.
Kept == flags[criticalLevel - 1]
Release ==
    /\ RoomToLeave
    /\ criticalLevel' = criticalLevel - 1
    /\ daif' = daif \union {"F"}
    /\ UNCHANGED flags
Restore(mask) == daif' = mask /\ UNCHANGED <<criticalLevel, flags>>
=============================================================================
