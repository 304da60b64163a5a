------------------------------ MODULE MCConsole ------------------------------
(* Instances of Console for TLC: few characters and short scripts. *)
EXTENDS ConsoleProperties

CONSTANTS x

MCPrompt == <<Buffered(x), Buffered(x), Drain>>
MCErase == <<Put(x), Flush>>
MCCommands == {<<>>, <<Put(CR), Buffered(NL), Drain>>}
ShortPrompt == <<Buffered(x), Drain>>
OneCommand == {<<>>}
Printing == {<<Put(x), Flush>>}

\* What can still be read: the masks kept, the locals of the functions that run, and
\* of one direction the bytes in its slots, of the other only how many there are.
Locals == <<task, script, task \in Inside /\ moved,
            IF task \in {"mask", "keep", "unmask"} THEN saved ELSE {}>>
Processor == <<daif, [level \in 0 .. criticalLevel - 1 |-> flags[level]], status,
               irq, IF irq = "idle" THEN {} ELSE spsr>>
InputView == <<Processor, Locals, ch, rxOut, Contents(inputQueue, rxIn, rxOut), rxFifo,
               Length(txIn, txOut), Len(txFifo), intTx>>
OutputView == <<Processor, Locals, wire, txOut, Contents(outputQueue, txIn, txOut), txFifo,
                intTx, ch, Contents(inputQueue, rxIn, rxOut), rxFifo>>
=============================================================================
