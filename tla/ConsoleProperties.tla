------------------------- MODULE ConsoleProperties -------------------------
(***************************************************************************)
(* What the console promises, as properties of Console.                    *)
(***************************************************************************)
EXTENDS Console

\* Where the main loop holds the lock, and where it is about to change the mask.
Inside == {"keep", "read", "load", "taken", "put", "stored", "arm", "drain", "sent",
           "unlock", "unmask"}

\* The handler never runs while the main loop holds the lock of the ring buffers.
MutualExclusion == irq # "idle" => task \notin Inside

\* Outside the lock no mask is kept and interrupts are as they were: every path
\* through read and write gives back what it took, until an overrun.
MaskRestored ==
    status = "Normal" /\ irq = "idle" /\ task \notin Inside =>
        daif = Running /\ criticalLevel = 0

\* Bytes waiting to be sent are never forgotten: once the lock is free, either the
\* buffer is empty or the interrupt that empties it is enabled.
TransmitArmed ==
    irq = "idle" /\ task \notin Inside /\ txIn # txOut => intTx

\* The bytes of a ring buffer, oldest first.
Contents(queue, in, out) ==
    [i \in 1 .. Length(in, out) |-> queue[(out + i - 1) % UART_BUFFER_SIZE]]

\* A byte is out of a buffer as soon as it is copied from its slot.
Rest(queue, in, out, copied) ==
    SubSeq(Contents(queue, in, out), IF copied THEN 2 ELSE 1, Length(in, out))

Input == INSTANCE ByteChannel WITH
    Bytes <- Typed,
    queue <- Rest(inputQueue, rxIn, rxOut, task = "taken") \o rxFifo,
    last <- ch,
    sound <- (status = "Normal")

Output == INSTANCE ByteChannel WITH
    Bytes <- Printed,
    queue <- txFifo \o Rest(outputQueue, txIn, txOut, task = "sent"),
    last <- wire,
    sound <- TRUE

\* Characters reach main() in the order they arrived, each once, and the driver loses
\* none of them without saying Overrun and refusing to read on.
InputIsChannel == Input!Spec

\* Every character a write accepts goes out on the line once and in order.
OutputIsChannel == Output!Spec

\* Accepted characters do not stay in the driver: bytes leave the UART again and again
\* until there are none, or an overrun has stopped the console.
OutputProgress ==
    \/ []<>(txIn = txOut /\ txFifo = <<>>)
    \/ <>(status # "Normal")
    \/ []<><<Shift>>_vars

\* A character in the UART while the main loop sleeps wakes it and main() reads on
\* without another key being pressed, unless the buffer overruns.  Nothing of the kind
\* holds for one that arrives between the last read and wfi: it waits in the buffer for
\* the next interrupt.
TypedIsRead ==
    task = "asleep" /\ rxFifo # <<>> ~> task = "taken" \/ status # "Normal"
=============================================================================
