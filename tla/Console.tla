------------------------------ MODULE Console ------------------------------
(***************************************************************************)
(* The console: the main loop, the UART's two ring buffers and the handler *)
(* of its interrupt, on one core.  The handler may interrupt the main loop *)
(* between any two steps in which IRQs are not masked; bytes arrive in and  *)
(* leave the UART's own FIFOs at any time.                                  *)
(*                                                                         *)
(* The main loop is a script: what it still has to write, one item per      *)
(* character, for UART::write(char), and one for what write(buffer, count)  *)
(* and printf do at their end.  With nothing left it reads a character.     *)
(***************************************************************************)
EXTENDS Synchronize, Sequences

CONSTANTS
    UART_BUFFER_SIZE,    \* slots of a ring buffer
    FifoDepth,           \* bytes the UART's own FIFOs hold
    TxTrigger,           \* the UART asks for more to send at this fill
    Typed,               \* characters that may arrive
    Printed,             \* characters that may be written
    NL, CR, DEL, None,
    Commands,            \* scripts a command line may lead to
    Prompt, Erase        \* scripts of the prompt and of a deleted character

Put(c) == [op |-> "put", ch |-> c, buffered |-> FALSE]
Buffered(c) == [op |-> "put", ch |-> c, buffered |-> TRUE]
Drain == [op |-> "drain", ch |-> None, buffered |-> FALSE]
Flush == [op |-> "flush", ch |-> None, buffered |-> FALSE]

Items == [op : {"put"}, ch : Printed, buffered : BOOLEAN] \union {Drain, Flush}

\* Scripts in which a buffer ends with a drain.
WellFormed(script) ==
    /\ script \in Seq(Items)
    /\ \A i \in 1 .. Len(script) :
          script[i].buffered => \E j \in i + 1 .. Len(script) : script[j] = Drain

ASSUME ConsoleAssumption ==
    /\ UART_BUFFER_SIZE \in Nat /\ UART_BUFFER_SIZE >= 2
    /\ FifoDepth \in Nat \ {0}
    /\ TxTrigger \in 0 .. FifoDepth - 1
    /\ None \notin Printed
    /\ {NL, CR} \subseteq Printed
    /\ Typed \ {DEL} \subseteq Printed
    /\ \A script \in Commands \union {Prompt, Erase} : WellFormed(script)

VARIABLES
    status, inputQueue, rxIn, rxOut, outputQueue, txIn, txOut,    \* UART.cpp
    rxFifo, txFifo, intTx, wire,    \* the UART: FIFOs, INT_TX in IMSC, the line
    task,      \* where the main loop is
    script,    \* what it still has to write
    ch,        \* its variable ch
    moved,     \* what the current read or write of a character will return
    saved,     \* current_flags of enterCritical, to_restore of leaveCritical
    irq,       \* where the handler is, "idle" if it does not run
    spsr       \* the mask of what it interrupted

rings == <<inputQueue, rxIn, rxOut, outputQueue, txIn, txOut>>
device == <<rxFifo, txFifo, intTx, wire>>
locals == <<script, ch, moved, saved>>
vars == <<critical, status, rings, device, task, locals, irq, spsr>>

Slots == 0 .. UART_BUFFER_SIZE - 1
After(index) == (index + 1) % UART_BUFFER_SIZE
Length(in, out) == (in - out) % UART_BUFFER_SIZE

Init ==
    /\ CriticalInit
    /\ status = "Normal"
    /\ inputQueue = [i \in Slots |-> None] /\ rxIn = 0 /\ rxOut = 0
    /\ outputQueue = [i \in Slots |-> None] /\ txIn = 0 /\ txOut = 0
    /\ rxFifo = <<>> /\ txFifo = <<>> /\ intTx = FALSE /\ wire = None
    /\ task = "main" /\ script = Prompt /\ ch = None /\ moved = FALSE /\ saved = {}
    /\ irq = "idle" /\ spsr = {}

-----------------------------------------------------------------------------
(* The main loop.  A step of it needs the processor.                        *)

Op == IF script = <<>> THEN "read" ELSE Head(script).op

At(label) == irq = "idle" /\ task = label /\ UNCHANGED <<irq, spsr>>
Goto(label) == task' = label
Panic == Goto("panic") /\ UNCHANGED <<critical, status, rings, device, locals>>

\* Items main() and what it calls print after a character is read.
Reply(c) ==
    IF c = NL THEN {<<Put(CR), Put(NL)>> \o command \o Prompt : command \in Commands}
    ELSE IF c = DEL THEN {<<>>, Erase}
    ELSE {<<Put(c)>>}

\* read, write(char) and the end of write(buffer, count) start with the lock.
Call ==
    /\ At("main") /\ Op # "flush"
    /\ Goto("enter") /\ moved' = FALSE
    /\ UNCHANGED <<critical, status, rings, device, script, ch, saved>>

\* flush: wait until the UART is no longer busy.
AwaitIdle ==
    /\ At("main") /\ Op = "flush" /\ txFifo = <<>>
    /\ Goto("main") /\ script' = Tail(script)
    /\ UNCHANGED <<critical, status, rings, device, ch, moved, saved>>

Enter ==
    /\ At("enter")
    /\ Goto("mask") /\ saved' = daif
    /\ UNCHANGED <<critical, status, rings, device, script, ch, moved>>

Mask ==
    /\ At("mask")
    /\ Goto("keep") /\ DisableBoth
    /\ UNCHANGED <<status, rings, device, locals>>

Lock ==
    /\ At("keep")
    /\ \/ ~RoomToEnter /\ Panic
       \/ /\ Keep(saved)
          /\ Goto(Op)
          /\ UNCHANGED <<status, rings, device, locals>>

\* read; after an overrun it returns at once.
Read ==
    /\ At("read")
    /\ Goto(IF status # "Normal" THEN "wfi" ELSE "load")
    /\ UNCHANGED <<critical, status, rings, device, locals>>

\* A variant of the test for an empty buffer that forgets that indices wrap.
LoadUnwrapped ==
    /\ At("load")
    /\ \/ /\ rxIn <= rxOut
          /\ Goto("unlock") /\ UNCHANGED locals
       \/ /\ rxIn > rxOut
          /\ Goto("taken") /\ ch' = inputQueue[rxOut] /\ moved' = TRUE
          /\ UNCHANGED <<script, saved>>
    /\ UNCHANGED <<critical, status, rings, device>>

Load ==
    /\ At("load")
    /\ \/ /\ rxIn = rxOut
          /\ Goto("unlock") /\ UNCHANGED locals
       \/ /\ rxIn # rxOut
          /\ Goto("taken") /\ ch' = inputQueue[rxOut] /\ moved' = TRUE
          /\ UNCHANGED <<script, saved>>
    /\ UNCHANGED <<critical, status, rings, device>>

\* A variant that forgets to wrap the index.
TakenUnwrapped ==
    /\ At("taken")
    /\ Goto("unlock") /\ rxOut' = rxOut + 1
    /\ UNCHANGED <<critical, status, inputQueue, rxIn, outputQueue, txIn, txOut, device, locals>>

Taken ==
    /\ At("taken")
    /\ Goto("unlock") /\ rxOut' = After(rxOut)
    /\ UNCHANGED <<critical, status, inputQueue, rxIn, outputQueue, txIn, txOut, device, locals>>

\* A variant of write(char) that forgets the lock when there is no room.
StoreLeaks ==
    /\ At("put")
    /\ \/ /\ After(txIn) = txOut
          /\ Goto("main") /\ script' = Tail(script) /\ UNCHANGED <<rings, ch, moved, saved>>
       \/ /\ After(txIn) # txOut
          /\ Goto("stored") /\ outputQueue' = [outputQueue EXCEPT ![txIn] = Head(script).ch]
          /\ moved' = TRUE
          /\ UNCHANGED <<inputQueue, rxIn, rxOut, txIn, txOut, script, ch, saved>>
    /\ UNCHANGED <<critical, status, device>>

\* write(char); without room it gives up.
Store ==
    /\ At("put")
    /\ \/ /\ After(txIn) = txOut
          /\ Goto("unlock") /\ UNCHANGED <<rings, locals>>
       \/ /\ After(txIn) # txOut
          /\ Goto("stored") /\ outputQueue' = [outputQueue EXCEPT ![txIn] = Head(script).ch]
          /\ moved' = TRUE
          /\ UNCHANGED <<inputQueue, rxIn, rxOut, txIn, txOut, script, ch, saved>>
    /\ UNCHANGED <<critical, status, device>>

Stored ==
    /\ At("stored")
    /\ Goto("arm") /\ txIn' = After(txIn)
    /\ UNCHANGED <<critical, status, inputQueue, rxIn, rxOut, outputQueue, txOut, device, locals>>

\* A variant that leaves the interrupt as it is.
ArmNothing ==
    /\ At("arm")
    /\ Goto("unlock")
    /\ UNCHANGED <<critical, status, rings, device, locals>>

Arm ==
    /\ At("arm")
    /\ Goto("unlock") /\ intTx' = TRUE
    /\ UNCHANGED <<critical, status, rings, rxFifo, txFifo, wire, locals>>

\* write(buffer, count), its end: as much as the UART takes now, and an interrupt
\* for the rest.
DrainQueue ==
    /\ At("drain")
    /\ \/ txIn = txOut /\ Goto("unlock") /\ UNCHANGED <<txFifo, intTx>>
       \/ /\ txIn # txOut /\ Len(txFifo) < FifoDepth
          /\ Goto("sent") /\ txFifo' = Append(txFifo, outputQueue[txOut])
          /\ UNCHANGED intTx
       \/ /\ txIn # txOut /\ Len(txFifo) = FifoDepth
          /\ Goto("unlock") /\ intTx' = TRUE
          /\ UNCHANGED txFifo
    /\ UNCHANGED <<critical, status, rings, rxFifo, wire, locals>>

Sent ==
    /\ At("sent")
    /\ Goto("drain") /\ txOut' = After(txOut)
    /\ UNCHANGED <<critical, status, inputQueue, rxIn, rxOut, outputQueue, txIn, device, locals>>

Unlock ==
    /\ At("unlock")
    /\ \/ ~RoomToLeave /\ Panic
       \/ /\ Release
          /\ Goto("unmask") /\ saved' = Kept
          /\ UNCHANGED <<status, rings, device, script, ch, moved>>

\* What remains of a buffer after a character of it did not fit: its end.  The
\* result for a carriage return in front of a newline is not looked at.
FirstDrain == CHOOSE i \in 1 .. Len(script) :
                 script[i] = Drain /\ \A j \in 1 .. i - 1 : script[j] # Drain
Remaining ==
    IF moved \/ ~Head(script).buffered THEN Tail(script)
    ELSE SubSeq(script, FirstDrain, Len(script))

\* leaveCritical's last step, and the return to main().
Unmask ==
    /\ At("unmask")
    /\ Restore(saved)
    /\ \/ Op = "read" /\ moved /\ Goto("main") /\ script' \in Reply(ch)
       \/ Op = "read" /\ ~moved /\ Goto("wfi") /\ UNCHANGED script
       \/ Op # "read" /\ Goto("main") /\ script' = Remaining
    /\ UNCHANGED <<status, rings, device, ch, moved, saved>>

\* The interrupt line of the UART: received bytes, or room in front of the trigger
\* while INT_TX is enabled.
Pending == rxFifo # <<>> \/ (intTx /\ Len(txFifo) <= TxTrigger)

\* wfi: the processor sleeps until an interrupt is pending.  It takes one that is not
\* masked (Interrupt) before it goes on, and goes on at once with one that is.
Sleep ==
    /\ At("wfi")
    /\ Goto("asleep")
    /\ UNCHANGED <<critical, status, rings, device, locals>>

Wake ==
    /\ At("asleep") /\ Pending /\ "I" \in daif
    /\ Goto("main")
    /\ UNCHANGED <<critical, status, rings, device, locals>>

Task == \/ Call \/ AwaitIdle \/ Enter \/ Mask \/ Lock
        \/ Read \/ Load \/ Taken
        \/ Store \/ Stored \/ Arm
        \/ DrainQueue \/ Sent
        \/ Unlock \/ Unmask \/ Sleep \/ Wake

-----------------------------------------------------------------------------
(* The interrupt.  Between its steps only the device moves.                 *)

\* Exception entry and IRQStub; an interrupted wfi is over.
Interrupt ==
    /\ irq = "idle" /\ "I" \notin daif /\ Pending
    /\ irq' = "acquire" /\ spsr' = daif /\ daif' = {"I"}
    /\ task' = IF task = "asleep" THEN "main" ELSE task
    /\ UNCHANGED <<criticalLevel, flags, status, rings, device, locals>>

Acquire ==
    /\ irq = "acquire"
    /\ \/ ~RoomToEnter /\ irq' = "panic" /\ UNCHANGED critical
       \/ Keep(daif) /\ irq' = "receive"
    /\ UNCHANGED <<status, rings, device, task, locals, spsr>>

\* A variant of the loop over received bytes that does not look for room.
ReceiveAlways ==
    /\ irq = "receive"
    /\ \/ /\ rxFifo # <<>>
          /\ rxFifo' = Tail(rxFifo)
          /\ inputQueue' = [inputQueue EXCEPT ![rxIn] = Head(rxFifo)]
          /\ rxIn' = After(rxIn)
          /\ UNCHANGED <<status, irq>>
       \/ /\ rxFifo = <<>>
          /\ irq' = "transmit"
          /\ UNCHANGED <<status, inputQueue, rxIn, rxFifo>>
    /\ UNCHANGED <<critical, rxOut, outputQueue, txIn, txOut, txFifo, intTx, wire,
                   task, locals, spsr>>

Receive ==
    /\ irq = "receive"
    /\ \/ /\ rxFifo # <<>>
          /\ rxFifo' = Tail(rxFifo)
          /\ \/ /\ After(rxIn) # rxOut
                /\ inputQueue' = [inputQueue EXCEPT ![rxIn] = Head(rxFifo)]
                /\ rxIn' = After(rxIn)
                /\ UNCHANGED status
             \/ /\ After(rxIn) = rxOut
                /\ status' = "Overrun"
                /\ UNCHANGED <<inputQueue, rxIn>>
          /\ UNCHANGED irq
       \/ /\ rxFifo = <<>>
          /\ irq' = "transmit"
          /\ UNCHANGED <<status, inputQueue, rxIn, rxFifo>>
    /\ UNCHANGED <<critical, rxOut, outputQueue, txIn, txOut, txFifo, intTx, wire,
                   task, locals, spsr>>

\* A variant that turns the interrupt off also when the UART is full.
TransmitOnce ==
    /\ irq = "transmit"
    /\ \/ /\ Len(txFifo) < FifoDepth /\ txIn # txOut
          /\ txFifo' = Append(txFifo, outputQueue[txOut])
          /\ txOut' = After(txOut)
          /\ UNCHANGED <<intTx, irq>>
       \/ /\ Len(txFifo) = FifoDepth \/ txIn = txOut
          /\ intTx' = FALSE
          /\ irq' = "release"
          /\ UNCHANGED <<txFifo, txOut>>
    /\ UNCHANGED <<critical, status, inputQueue, rxIn, rxOut, outputQueue, txIn, rxFifo, wire,
                   task, locals, spsr>>

Transmit ==
    /\ irq = "transmit"
    /\ \/ /\ Len(txFifo) < FifoDepth /\ txIn # txOut
          /\ txFifo' = Append(txFifo, outputQueue[txOut])
          /\ txOut' = After(txOut)
          /\ UNCHANGED <<intTx, irq>>
       \/ /\ Len(txFifo) < FifoDepth /\ txIn = txOut
          /\ intTx' = FALSE
          /\ irq' = "release"
          /\ UNCHANGED <<txFifo, txOut>>
       \/ /\ Len(txFifo) = FifoDepth
          /\ irq' = "release"
          /\ UNCHANGED <<txFifo, txOut, intTx>>
    /\ UNCHANGED <<critical, status, inputQueue, rxIn, rxOut, outputQueue, txIn, rxFifo, wire,
                   task, locals, spsr>>

\* leaveCritical at once, then the end of interrupt and eret.
ReleaseAndReturn ==
    /\ irq = "release"
    /\ \/ /\ ~RoomToLeave
          /\ irq' = "panic"
          /\ UNCHANGED critical
       \/ /\ RoomToLeave
          /\ irq' = "idle"
          /\ criticalLevel' = criticalLevel - 1
          /\ daif' = spsr
          /\ UNCHANGED flags
    /\ UNCHANGED <<status, rings, device, task, locals, spsr>>

Handler == Acquire \/ Receive \/ Transmit \/ ReleaseAndReturn

-----------------------------------------------------------------------------
(* The device.                                                              *)

\* A byte that finds the FIFO full is lost; the driver does not look at that flag.
Arrive ==
    \E c \in Typed :
        /\ rxFifo' = IF Len(rxFifo) < FifoDepth THEN Append(rxFifo, c) ELSE rxFifo
        /\ UNCHANGED <<critical, status, rings, txFifo, intTx, wire, task, locals, irq, spsr>>

Shift ==
    /\ txFifo # <<>>
    /\ wire' = Head(txFifo)
    /\ txFifo' = Tail(txFifo)
    /\ UNCHANGED <<critical, status, rings, rxFifo, intTx, task, locals, irq, spsr>>

Next == Task \/ Interrupt \/ Handler \/ Arrive \/ Shift

\* The processor runs and prefers neither the main loop nor a pending interrupt for
\* ever: bytes arrive more slowly than instructions are executed, and an interrupt is
\* taken as soon as it is not masked.  The UART sends what it has.
Fairness ==
    /\ SF_vars(Task)
    /\ SF_vars(Interrupt)
    /\ WF_vars(Handler)
    /\ WF_vars(Shift)

Spec == Init /\ [][Next]_vars
FairSpec == Spec /\ Fairness

TypeOK ==
    /\ CriticalTypeOK
    /\ status \in {"Normal", "Overrun"}
    /\ inputQueue \in [Slots -> Typed \union {None}] /\ rxIn \in Slots /\ rxOut \in Slots
    /\ outputQueue \in [Slots -> Printed \union {None}] /\ txIn \in Slots /\ txOut \in Slots
    /\ rxFifo \in Seq(Typed) /\ txFifo \in Seq(Printed)
    /\ intTx \in BOOLEAN /\ wire \in Printed \union {None}
    /\ task \in {"main", "enter", "mask", "keep", "read", "load", "taken", "put", "stored",
                 "arm", "drain", "sent", "unlock", "unmask", "wfi", "asleep", "panic"}
    /\ script \in Seq(Items) /\ ch \in Typed \union {None}
    /\ moved \in BOOLEAN /\ saved \in Masks
    /\ irq \in {"idle", "acquire", "receive", "transmit", "release", "panic"}
    /\ spsr \in Masks
=============================================================================
