---------------------------- MODULE ConsoleProofs ----------------------------
(***************************************************************************)
(* Theorems about Console, for every size of its buffers and FIFOs, every  *)
(* set of characters, every depth of the stack of masks and all scripts.   *)
(***************************************************************************)
EXTENDS ConsoleProperties, NatSetInduction, SequenceTheorems

\* Every step is read with these.
USE DEF At, Goto, Panic, locals, rings, device, critical

-----------------------------------------------------------------------------
(* The lock excludes the handler, because it masks IRQs until its last step.*)

Excluded ==
    /\ MutualExclusion
    /\ irq = "idle" /\ task \in Inside => "I" \in daif

LEMMA ExcludedInit == Init => Excluded
BY DEF Init, Excluded, MutualExclusion, Inside

LEMMA ExcludedStep == Excluded /\ [Next]_vars => Excluded'
<1> SUFFICES ASSUME Excluded, [Next]_vars PROVE Excluded'
  OBVIOUS
<1> USE DEF Excluded, MutualExclusion, Inside
<1>1. CASE Call \/ AwaitIdle \/ Enter \/ Sleep \/ Wake
  BY <1>1 DEF Call, AwaitIdle, Enter, Sleep, Wake
<1>2. CASE Mask
  BY <1>2 DEF Mask, DisableBoth
<1>3. CASE Lock
  <2>1. CASE task' = "panic"
    BY <1>3, <2>1 DEF Lock
  <2>2. CASE Keep(saved) /\ irq = "idle" /\ task = "keep" /\ UNCHANGED irq
    BY <2>2 DEF Keep
  <2>. QED BY <1>3, <2>1, <2>2 DEF Lock
<1>4. CASE Read \/ Load \/ Taken \/ Store \/ Stored \/ Arm \/ DrainQueue \/ Sent
  BY <1>4 DEF Read, Load, Taken, Store, Stored, Arm, DrainQueue, Sent
<1>5. CASE Unlock
  BY <1>5 DEF Unlock, Release
<1>6. CASE Unmask
  BY <1>6 DEF Unmask
<1>7. CASE Interrupt
  BY <1>7 DEF Interrupt
<1>8. CASE Handler
  BY <1>8 DEF Handler, Acquire, Receive, Transmit, ReleaseAndReturn
<1>9. CASE Arrive \/ Shift \/ UNCHANGED vars
  BY <1>9 DEF Arrive, Shift, vars
<1>. QED BY <1>1, <1>2, <1>3, <1>4, <1>5, <1>6, <1>7, <1>8, <1>9 DEF Next, Task

\* The handler never runs while the main loop is between taking and giving back the
\* lock of the ring buffers, at whatever step the interrupt comes.
THEOREM Exclusive == Spec => []MutualExclusion
<1>1. Excluded => MutualExclusion
  BY DEF Excluded
<1>. QED BY <1>1, ExcludedInit, ExcludedStep, PTL DEF Spec
-----------------------------------------------------------------------------
(* Scripts.                                                                 *)

LEMMA WellFormedEmpty == WellFormed(<<>>)
BY EmptySeq DEF WellFormed

LEMMA WellFormedSuffix ==
    ASSUME NEW s, WellFormed(s), NEW i \in 1 .. Len(s)
    PROVE  WellFormed(SubSeq(s, i, Len(s)))
<1>. DEFINE t == SubSeq(s, i, Len(s))
<1>1. s \in Seq(Items) /\ Len(s) \in Nat
  BY LenProperties DEF WellFormed
<1>2. \A k \in i .. Len(s) : s[k] \in Items
  BY <1>1, ElementOfSeq
<1>3. /\ t \in Seq(Items)
      /\ Len(t) = Len(s) - i + 1
      /\ \A k \in 1 .. Len(s) - i + 1 : t[k] = s[i + k - 1]
  BY <1>1, <1>2, SubSeqProperties
<1>. HIDE DEF t
<1>4. ASSUME NEW k \in 1 .. Len(t), t[k].buffered
      PROVE  \E j \in k + 1 .. Len(t) : t[j] = Drain
  <2>1. i + k - 1 \in 1 .. Len(s) /\ s[i + k - 1].buffered
    BY <1>1, <1>3, <1>4
  <2>2. PICK j \in i + k .. Len(s) : s[j] = Drain
    BY <1>1, <2>1 DEF WellFormed
  <2>3. j - i + 1 \in k + 1 .. Len(t) /\ t[j - i + 1] = Drain
    BY <1>1, <1>3, <2>2
  <2>. QED BY <2>3
<1>. QED BY <1>3, <1>4 DEF WellFormed, t

LEMMA WellFormedTail ==
    ASSUME NEW s, WellFormed(s), s # <<>>
    PROVE  WellFormed(Tail(s)) /\ Head(s) \in Items
<1>1. s \in Seq(Items) /\ Len(s) \in Nat \ {0}
  BY EmptySeq DEF WellFormed
<1>2. Tail(s) = SubSeq(s, 2, Len(s)) /\ Head(s) \in Items
  BY <1>1, TailIsSubSeq, HeadTailProperties
<1>3. CASE Len(s) = 1
  <2>1. Tail(s) = <<>>
    BY <1>1, <1>2, <1>3, SubSeqEmpty
  <2>. QED BY <1>2, <2>1, WellFormedEmpty
<1>4. CASE Len(s) # 1
  <2>1. 2 \in 1 .. Len(s)
    BY <1>1, <1>4
  <2>. QED BY <1>2, <2>1, WellFormedSuffix
<1>. QED BY <1>3, <1>4

LEMMA WellFormedConcat ==
    ASSUME NEW s, NEW t, WellFormed(s), WellFormed(t)
    PROVE  WellFormed(s \o t)
<1>. DEFINE u == s \o t
<1>1. s \in Seq(Items) /\ t \in Seq(Items) /\ Len(s) \in Nat /\ Len(t) \in Nat
  BY LenProperties DEF WellFormed
<1>2. /\ u \in Seq(Items)
      /\ Len(u) = Len(s) + Len(t)
      /\ \A i \in 1 .. Len(s) + Len(t) :
            u[i] = IF i <= Len(s) THEN s[i] ELSE t[i - Len(s)]
  BY <1>1, ConcatProperties
<1>. HIDE DEF u
<1>3. ASSUME NEW i \in 1 .. Len(u), u[i].buffered
      PROVE  \E j \in i + 1 .. Len(u) : u[j] = Drain
  <2>1. CASE i <= Len(s)
    <3>1. PICK j \in i + 1 .. Len(s) : s[j] = Drain
      BY <1>1, <1>2, <1>3, <2>1 DEF WellFormed
    <3>2. j \in i + 1 .. Len(u) /\ u[j] = Drain
      BY <1>1, <1>2, <3>1
    <3>. QED BY <3>2
  <2>2. CASE i > Len(s)
    <3>1. i - Len(s) \in 1 .. Len(t) /\ t[i - Len(s)].buffered
      BY <1>1, <1>2, <1>3, <2>2
    <3>2. PICK j \in i - Len(s) + 1 .. Len(t) : t[j] = Drain
      BY <1>1, <3>1 DEF WellFormed
    <3>3. j + Len(s) \in i + 1 .. Len(u) /\ u[j + Len(s)] = Drain
      BY <1>1, <1>2, <2>2, <3>2
    <3>. QED BY <3>3
  <2>. QED BY <1>1, <1>2, <2>1, <2>2
<1>. QED BY <1>2, <1>3 DEF WellFormed, u

\* A buffer has an end.
LEMMA DrainComes ==
    ASSUME WellFormed(script), script # <<>>, Head(script).buffered
    PROVE  FirstDrain \in 1 .. Len(script)
<1>. DEFINE drains == {i \in 1 .. Len(script) : script[i] = Drain}
<1>1. script \in Seq(Items) /\ Len(script) \in Nat \ {0} /\ Head(script) = script[1]
  BY EmptySeq DEF WellFormed
<1>2. drains # {} /\ drains \subseteq Nat
  BY <1>1 DEF WellFormed
<1>3. PICK i \in drains : \A j \in drains : i <= j
  <2>. HIDE DEF drains
  <2>. QED BY <1>2, LeastNatural
<1>4. \A j \in 1 .. i - 1 : script[j] # Drain
  BY <1>1, <1>3
<1>. QED BY <1>3, <1>4 DEF FirstDrain

LEMMA WellFormedPut ==
    ASSUME NEW c \in Printed
    PROVE  WellFormed(<<Put(c)>>)
<1>1. Put(c) \in Items /\ ~Put(c).buffered
  BY DEF Put, Items
<1>. QED BY <1>1 DEF WellFormed

\* What main() prints for a character is a well-formed script again.
LEMMA WellFormedReply ==
    ASSUME NEW c \in Typed, NEW s \in Reply(c)
    PROVE  WellFormed(s)
<1>1. WellFormed(<<>>) /\ WellFormed(Prompt) /\ WellFormed(Erase)
        /\ \A command \in Commands : WellFormed(command)
  BY WellFormedEmpty, ConsoleAssumption
<1>2. CASE c = NL
  <2>1. PICK command \in Commands : s = <<Put(CR), Put(NL)>> \o command \o Prompt
    BY <1>2 DEF Reply
  <2>2. <<Put(CR), Put(NL)>> = <<Put(CR)>> \o <<Put(NL)>>
    OBVIOUS
  <2>3. WellFormed(<<Put(CR), Put(NL)>>)
    BY <2>2, WellFormedPut, WellFormedConcat, ConsoleAssumption
  <2>. QED BY <1>1, <2>1, <2>3, WellFormedConcat
<1>3. CASE c # NL /\ c = DEL
  BY <1>1, <1>3 DEF Reply
<1>4. CASE c # NL /\ c # DEL
  BY <1>4, WellFormedPut, ConsoleAssumption DEF Reply
<1>. QED BY <1>2, <1>3, <1>4

-----------------------------------------------------------------------------
(* Types.  That a byte taken from a ring is one that was put there needs    *)
(* what the slots between the two indices hold, and where the main loop is. *)

\* The slots in use.
Used(in, out) == IF out <= in THEN out .. in - 1 ELSE (out .. UART_BUFFER_SIZE - 1) \union (0 .. in - 1)

Filled ==
    /\ \A i \in Used(rxIn, rxOut) : inputQueue[i] \in Typed
    /\ \A i \in Used(txIn, txOut) : outputQueue[i] \in Printed
    /\ task = "stored" => outputQueue[txIn] \in Printed /\ After(txIn) # txOut

Loop ==
    /\ WellFormed(script)
    /\ task \in {"enter", "mask", "keep"} => Op \in {"read", "put", "drain"} /\ ~moved
    /\ task \in {"read", "load"} => Op = "read" /\ ~moved
    /\ task = "taken" => Op = "read" /\ rxIn # rxOut /\ ch \in Typed
    /\ task \in {"put", "stored", "arm"} => Op = "put"
    /\ task \in {"drain", "sent"} => Op = "drain"
    /\ task = "sent" => txIn # txOut
    /\ task \in {"unlock", "unmask"} /\ Op = "read" /\ moved => ch \in Typed

LEMMA AfterIs ==
    ASSUME NEW i \in Slots
    PROVE  After(i) = IF i = UART_BUFFER_SIZE - 1 THEN 0 ELSE i + 1
BY ConsoleAssumption DEF After, Slots

\* An index that steps adds a slot or gives one back.
LEMMA UsedStep ==
    ASSUME NEW in \in Slots, NEW out \in Slots
    PROVE  /\ After(in) \in Slots
           /\ in # out => out \in Used(in, out) /\ Used(in, After(out)) = Used(in, out) \ {out}
           /\ After(in) # out => Used(After(in), out) = Used(in, out) \union {in}
           /\ in \notin Used(in, out)
           /\ Used(in, out) \subseteq Slots
BY AfterIs, ConsoleAssumption DEF Used, Slots

TypeInv == TypeOK /\ Excluded /\ Loop /\ Filled

LEMMA TypeInvInit == Init => TypeInv
<1> SUFFICES ASSUME Init PROVE TypeInv
  OBVIOUS
<1>1. WellFormed(Prompt) /\ Prompt \in Seq(Items)
  BY ConsoleAssumption DEF WellFormed
<1>2. TypeOK
  <2>1. CriticalTypeOK /\ saved \in Masks /\ spsr \in Masks
    BY LevelAssumption DEF Init, CriticalInit, CriticalTypeOK, Masks, Running
  <2>2. /\ 0 \in Slots
        /\ inputQueue \in [Slots -> Typed \union {None}]
        /\ outputQueue \in [Slots -> Printed \union {None}]
    BY ConsoleAssumption DEF Init, Slots
  <2>. QED BY <1>1, <2>1, <2>2, EmptySeq DEF Init, TypeOK
<1>3. Loop /\ Filled
  BY <1>1, ConsoleAssumption DEF Init, Loop, Filled, Used
<1>. QED BY <1>2, <1>3, ExcludedInit DEF TypeInv

LEMMA LoopStep == TypeInv /\ [Next]_vars => Loop'
<1> SUFFICES ASSUME TypeInv, [Next]_vars PROVE Loop'
  OBVIOUS
<1> USE DEF TypeInv
<1>1. WellFormed(script) /\ (script = <<>> => Op = "read") /\ (script # <<>> => Head(script) \in Items /\ Op = Head(script).op)
  BY WellFormedTail DEF Loop, Op
<1>2. script # <<>> => Op \in {"put", "drain", "flush"}
  BY <1>1 DEF Items, Drain, Flush
<1>3. CASE Call \/ Enter \/ Mask \/ Sleep \/ Wake
  BY <1>1, <1>2, <1>3 DEF Call, Enter, Mask, DisableBoth, Sleep, Wake, Loop, Op
<1>4. CASE AwaitIdle
  BY <1>1, <1>4, WellFormedTail DEF AwaitIdle, Loop
<1>5. CASE Lock
  BY <1>5 DEF Lock, Loop, Op
<1>6. CASE Read
  BY <1>6 DEF Read, Loop, Op
<1>7. CASE Load
  <2>1. rxIn # rxOut => inputQueue[rxOut] \in Typed
    BY UsedStep DEF Filled, TypeOK
  <2>. QED BY <1>7, <2>1 DEF Load, Loop, Op
<1>8. CASE Taken \/ Store \/ Stored \/ Arm
  BY <1>8 DEF Taken, Store, Stored, Arm, Loop, Op
<1>9. CASE DrainQueue \/ Sent
  BY <1>9 DEF DrainQueue, Sent, Loop, Op
<1>10. CASE Unlock
  BY <1>10 DEF Unlock, Loop, Op
<1>11. CASE Unmask
  <2>1. CASE Op = "read" /\ moved /\ script' \in Reply(ch) /\ task' = "main" /\ task = "unmask"
    BY <2>1, WellFormedReply DEF Loop
  <2>2. CASE Op = "read" /\ task' = "wfi" /\ UNCHANGED script
    BY <1>1, <2>2 DEF Loop
  <2>3. CASE Op # "read" /\ task' = "main" /\ script' = Remaining
    <3>1. script # <<>> /\ script \in Seq(Items) /\ Len(script) \in Nat \ {0} /\ Head(script) = script[1]
      BY <1>1, <2>3, EmptySeq DEF WellFormed
    <3>2. CASE moved \/ ~Head(script).buffered
      BY <3>1, <3>2, <1>1, <2>3, WellFormedTail DEF Remaining, Loop
    <3>3. CASE ~(moved \/ ~Head(script).buffered)
      <4>1. FirstDrain \in 1 .. Len(script)
        BY <1>1, <3>1, <3>3, DrainComes
      <4>2. WellFormed(Remaining)
        BY <1>1, <3>3, <4>1, WellFormedSuffix DEF Remaining
      <4>. QED BY <2>3, <4>2 DEF Loop
    <3>. QED BY <3>2, <3>3
  <2>. QED BY <1>11, <2>1, <2>2, <2>3 DEF Unmask
<1>12. CASE Interrupt
  BY <1>12 DEF Interrupt, Loop, Op
<1>13. CASE Handler
  <2>1. task \notin Inside
    BY <1>13 DEF Excluded, MutualExclusion, Handler, Acquire, Receive, Transmit, ReleaseAndReturn
  <2>. QED BY <1>13, <2>1 DEF Inside, Loop, Op, Handler, Acquire, Receive, Transmit, ReleaseAndReturn
<1>14. CASE Arrive \/ Shift \/ UNCHANGED vars
  BY <1>14 DEF Arrive, Shift, vars, Loop, Op
<1>. QED BY <1>3, <1>4, <1>5, <1>6, <1>7, <1>8, <1>9, <1>10, <1>11, <1>12, <1>13, <1>14 DEF Next, Task

\* write(char) is only asked for what may be printed.
LEMMA PutIsPrinted ==
    ASSUME WellFormed(script), Op = "put"
    PROVE  Head(script).ch \in Printed
<1>1. script # <<>> /\ Head(script).op = "put"
  BY DEF Op
<1>2. Head(script) \in Items
  BY <1>1, WellFormedTail
<1>. QED BY <1>1, <1>2 DEF Items, Drain, Flush

LEMMA FilledStep == TypeInv /\ [Next]_vars => Filled'
<1> SUFFICES ASSUME TypeInv, [Next]_vars PROVE Filled'
  OBVIOUS
<1> USE DEF TypeInv
<1>0. /\ rxIn \in Slots /\ rxOut \in Slots /\ txIn \in Slots /\ txOut \in Slots
      /\ DOMAIN inputQueue = Slots /\ DOMAIN outputQueue = Slots
  BY DEF TypeOK
<1>1. CASE Call \/ AwaitIdle \/ Enter \/ Mask \/ Read \/ Load \/ Arm \/ DrainQueue
                \/ Unlock \/ Unmask \/ Sleep \/ Wake
  BY <1>1 DEF Call, AwaitIdle, Enter, Mask, Read, Load, Arm, DrainQueue, Unlock, Unmask,
              Sleep, Wake, Filled
<1>2. CASE Lock
  BY <1>2 DEF Lock, Loop, Filled
<1>3. CASE Taken
  <2>1. Used(rxIn, rxOut') = Used(rxIn, rxOut) \ {rxOut}
    BY <1>0, <1>3, UsedStep DEF Taken, Loop
  <2>. QED BY <1>3, <2>1 DEF Taken, Filled
<1>4. CASE Store
  <2>1. CASE After(txIn) # txOut /\ outputQueue' = [outputQueue EXCEPT ![txIn] = Head(script).ch]
                /\ UNCHANGED <<inputQueue, rxIn, rxOut, txIn, txOut>>
    <3>1. Head(script).ch \in Printed
      BY <1>4, PutIsPrinted DEF Store, Loop
    <3>2. txIn \notin Used(txIn, txOut) /\ Used(txIn, txOut) \subseteq Slots
      BY <1>0, UsedStep
    <3>. QED BY <1>0, <2>1, <3>1, <3>2 DEF Filled
  <2>. QED BY <1>4, <2>1 DEF Store, Filled
<1>5. CASE Stored
  <2>1. Used(txIn', txOut) = Used(txIn, txOut) \union {txIn}
    BY <1>0, <1>5, UsedStep DEF Stored, Filled
  <2>. QED BY <1>5, <2>1 DEF Stored, Filled
<1>6. CASE Sent
  <2>1. Used(txIn, txOut') = Used(txIn, txOut) \ {txOut}
    BY <1>0, <1>6, UsedStep DEF Sent, Loop
  <2>. QED BY <1>6, <2>1 DEF Sent, Filled
<1>7. CASE Interrupt
  BY <1>7 DEF Interrupt, Filled
<1>8. CASE Handler
  <2>1. task # "stored"
    BY <1>8 DEF Excluded, MutualExclusion, Inside, Handler, Acquire, Receive, Transmit,
                ReleaseAndReturn
  <2>2. CASE Acquire \/ ReleaseAndReturn
    BY <2>2 DEF Acquire, ReleaseAndReturn, Filled
  <2>3. CASE Receive
    <3>1. CASE After(rxIn) # rxOut /\ rxFifo # <<>>
                  /\ inputQueue' = [inputQueue EXCEPT ![rxIn] = Head(rxFifo)]
                  /\ rxIn' = After(rxIn) /\ UNCHANGED <<rxOut, outputQueue, txIn, txOut, task>>
      <4>1. Head(rxFifo) \in Typed
        BY <3>1, HeadTailProperties DEF TypeOK
      <4>2. Used(rxIn', rxOut) = Used(rxIn, rxOut) \union {rxIn}
              /\ rxIn \notin Used(rxIn, rxOut) /\ Used(rxIn, rxOut) \subseteq Slots
        BY <1>0, <3>1, UsedStep
      <4>. QED BY <1>0, <2>1, <3>1, <4>1, <4>2 DEF Filled
    <3>. QED BY <2>1, <2>3, <3>1 DEF Receive, Filled
  <2>4. CASE Transmit
    <3>1. CASE txIn # txOut /\ txOut' = After(txOut)
      <4>1. Used(txIn, txOut') = Used(txIn, txOut) \ {txOut}
        BY <1>0, <3>1, UsedStep
      <4>. QED BY <2>1, <2>4, <3>1, <4>1 DEF Transmit, Filled
    <3>. QED BY <2>1, <2>4, <3>1 DEF Transmit, Filled
  <2>. QED BY <1>8, <2>2, <2>3, <2>4 DEF Handler
<1>9. CASE Arrive \/ Shift \/ UNCHANGED vars
  BY <1>9 DEF Arrive, Shift, vars, Filled
<1>. QED BY <1>1, <1>2, <1>3, <1>4, <1>5, <1>6, <1>7, <1>8, <1>9 DEF Next, Task

\* The part of the type invariant about the processor and the locals.
ProcessorOK ==
    /\ CriticalTypeOK
    /\ status \in {"Normal", "Overrun"}
    /\ ch \in Typed \union {None} /\ moved \in BOOLEAN
    /\ saved \in Masks /\ spsr \in Masks

\* The part about the buffers and the device.
QueuesOK ==
    /\ inputQueue \in [Slots -> Typed \union {None}] /\ rxIn \in Slots /\ rxOut \in Slots
    /\ outputQueue \in [Slots -> Printed \union {None}] /\ txIn \in Slots /\ txOut \in Slots
    /\ rxFifo \in Seq(Typed) /\ txFifo \in Seq(Printed)
    /\ intTx \in BOOLEAN /\ wire \in Printed \union {None}

\* The part about where the main loop and the handler are.
PlacesOK ==
    /\ task \in {"main", "enter", "mask", "keep", "read", "load", "taken", "put", "stored",
                 "arm", "drain", "sent", "unlock", "unmask", "wfi", "asleep", "panic"}
    /\ irq \in {"idle", "acquire", "receive", "transmit", "release", "panic"}

LEMMA TypeParts == TypeOK <=> ProcessorOK /\ QueuesOK /\ PlacesOK /\ script \in Seq(Items)
BY DEF TypeOK, ProcessorOK, QueuesOK, PlacesOK

LEMMA ProcessorStep == TypeInv /\ [Next]_vars => ProcessorOK'
<1> SUFFICES ASSUME TypeInv, [Next]_vars PROVE ProcessorOK'
  OBVIOUS
<1>1. ProcessorOK /\ QueuesOK
  BY TypeParts DEF TypeInv
<1>2. /\ Levels = 0 .. MAX_CRITICAL_LEVEL - 1
      /\ RoomToEnter => criticalLevel \in Levels
      /\ RoomToLeave => criticalLevel - 1 \in Levels
      /\ MAX_CRITICAL_LEVEL \in Nat
  BY <1>1, LevelAssumption DEF Levels, RoomToEnter, RoomToLeave, ProcessorOK, CriticalTypeOK
<1> USE DEF ProcessorOK, CriticalTypeOK
<1>3. ASSUME NEW current \in Masks, Keep(current) PROVE CriticalTypeOK'
  BY <1>1, <1>2, <1>3 DEF Keep, Masks
<1>4. CASE Call \/ AwaitIdle \/ Enter \/ Read \/ Taken \/ Store \/ Stored \/ Arm \/ DrainQueue
                \/ Sent \/ Sleep \/ Wake
  BY <1>1, <1>4 DEF Call, AwaitIdle, Enter, Read, Taken, Store, Stored, Arm, DrainQueue, Sent,
                    Sleep, Wake
<1>5. CASE Mask
  BY <1>1, <1>5 DEF Mask, DisableBoth, Masks
<1>6. CASE Lock
  <2>1. CriticalTypeOK'
    BY <1>1, <1>3, <1>6 DEF Lock
  <2>. QED BY <1>1, <1>6, <2>1 DEF Lock
<1>7. CASE Load
  BY <1>1, <1>7 DEF Load, QueuesOK
<1>8. CASE Unlock
  <2>1. CASE Panic
    BY <1>1, <1>8, <2>1 DEF Unlock
  <2>2. CASE Release /\ saved' = Kept /\ UNCHANGED <<status, ch, moved, spsr>>
    <3>1. saved' \in Masks /\ criticalLevel' \in 0 .. MAX_CRITICAL_LEVEL
      BY <1>1, <1>2, <2>2 DEF Release, Kept, RoomToLeave
    <3>2. daif' \in Masks
      BY <1>1, <2>2 DEF Release, Masks
    <3>. QED BY <1>1, <2>2, <3>1, <3>2 DEF Release
  <2>. QED BY <1>8, <2>1, <2>2 DEF Unlock
<1>9. CASE Unmask
  BY <1>1, <1>9 DEF Unmask, Restore
<1>10. CASE Interrupt
  BY <1>1, <1>10 DEF Interrupt, Masks
<1>11. CASE Handler
  <2>1. CASE Acquire
    <3>1. CriticalTypeOK'
      BY <1>1, <1>3, <2>1 DEF Acquire
    <3>. QED BY <1>1, <2>1, <3>1 DEF Acquire
  <2>2. CASE Receive \/ Transmit
    BY <1>1, <2>2 DEF Receive, Transmit
  <2>3. CASE ReleaseAndReturn
    BY <1>1, <1>2, <2>3 DEF ReleaseAndReturn
  <2>. QED BY <1>11, <2>1, <2>2, <2>3 DEF Handler
<1>12. CASE Arrive \/ Shift \/ UNCHANGED vars
  BY <1>1, <1>12 DEF Arrive, Shift, vars
<1>. QED BY <1>4, <1>5, <1>6, <1>7, <1>8, <1>9, <1>10, <1>11, <1>12 DEF Next, Task

LEMMA QueuesStep == TypeInv /\ [Next]_vars => QueuesOK'
<1> SUFFICES ASSUME TypeInv, [Next]_vars PROVE QueuesOK'
  OBVIOUS
<1>1. QueuesOK /\ Filled /\ Loop
  BY TypeParts DEF TypeInv
<1>2. \A i \in Slots : After(i) \in Slots
  BY UsedStep
<1>3. txIn # txOut => outputQueue[txOut] \in Printed /\ Append(txFifo, outputQueue[txOut]) \in Seq(Printed)
  BY <1>1, UsedStep, AppendProperties DEF Filled, QueuesOK
<1> USE DEF QueuesOK
<1>4. CASE Call \/ AwaitIdle \/ Enter \/ Mask \/ Lock \/ Read \/ Load \/ Arm \/ Unlock \/ Unmask
                \/ Sleep \/ Wake \/ Interrupt
  BY <1>1, <1>4 DEF Call, AwaitIdle, Enter, Mask, Lock, Read, Load, Arm, Unlock, Unmask, Sleep,
                    Wake, Interrupt
<1>5. CASE Taken \/ Stored \/ Sent
  BY <1>1, <1>2, <1>5 DEF Taken, Stored, Sent
<1>6. CASE Store
  <2>1. Head(script).ch \in Printed
    BY <1>1, <1>6, PutIsPrinted DEF Store, Loop
  <2>. QED BY <1>1, <1>6, <2>1 DEF Store
<1>7. CASE DrainQueue
  BY <1>1, <1>3, <1>7 DEF DrainQueue
<1>8. CASE Handler
  <2>1. CASE Acquire \/ ReleaseAndReturn
    BY <1>1, <2>1 DEF Acquire, ReleaseAndReturn
  <2>2. CASE Receive
    <3>1. rxFifo # <<>> => Head(rxFifo) \in Typed /\ Tail(rxFifo) \in Seq(Typed)
      BY <1>1, HeadTailProperties
    <3>. QED BY <1>1, <1>2, <2>2, <3>1 DEF Receive
  <2>3. CASE Transmit
    BY <1>1, <1>2, <1>3, <2>3 DEF Transmit
  <2>. QED BY <1>8, <2>1, <2>2, <2>3 DEF Handler
<1>9. CASE Arrive
  <2>1. \A c \in Typed : Append(rxFifo, c) \in Seq(Typed)
    BY <1>1, AppendProperties
  <2>. QED BY <1>1, <1>9, <2>1 DEF Arrive
<1>10. CASE Shift
  <2>1. Head(txFifo) \in Printed /\ Tail(txFifo) \in Seq(Printed)
    BY <1>1, <1>10, HeadTailProperties DEF Shift
  <2>. QED BY <1>1, <1>10, <2>1 DEF Shift
<1>11. CASE UNCHANGED vars
  BY <1>1, <1>11 DEF vars
<1>. QED BY <1>4, <1>5, <1>6, <1>7, <1>8, <1>9, <1>10, <1>11 DEF Next, Task

LEMMA PlacesStep == TypeInv /\ [Next]_vars => PlacesOK'
<1> SUFFICES ASSUME TypeInv, [Next]_vars PROVE PlacesOK'
  OBVIOUS
<1>1. PlacesOK /\ Loop
  BY TypeParts DEF TypeInv
<1> USE DEF PlacesOK
<1>2. CASE Lock
  BY <1>1, <1>2 DEF Lock, Loop
<1>3. CASE Task /\ ~Lock
  BY <1>1, <1>3 DEF Task, Call, AwaitIdle, Enter, Mask, Read, Load, Taken, Store, Stored, Arm,
                    DrainQueue, Sent, Unlock, Unmask, Sleep, Wake
<1>4. CASE Interrupt \/ Handler
  BY <1>1, <1>4 DEF Interrupt, Handler, Acquire, Receive, Transmit, ReleaseAndReturn
<1>5. CASE Arrive \/ Shift \/ UNCHANGED vars
  BY <1>1, <1>5 DEF Arrive, Shift, vars
<1>. QED BY <1>2, <1>3, <1>4, <1>5 DEF Next

LEMMA TypeInvStep == TypeInv /\ [Next]_vars => TypeInv'
<1> SUFFICES ASSUME TypeInv, [Next]_vars PROVE TypeInv'
  OBVIOUS
<1>1. ProcessorOK' /\ QueuesOK' /\ PlacesOK' /\ Loop' /\ Filled' /\ Excluded'
  BY ProcessorStep, QueuesStep, PlacesStep, LoopStep, FilledStep, ExcludedStep DEF TypeInv
<1>2. script' \in Seq(Items)
  BY <1>1 DEF Loop, WellFormed
<1>3. TypeOK'
  BY <1>1, <1>2 DEF TypeOK, ProcessorOK, QueuesOK, PlacesOK
<1>. QED BY <1>1, <1>3 DEF TypeInv

\* The console stays within its types: indices within the buffers, the level of
\* critical sections within its stack, and only characters that were typed or
\* printed in the buffers' slots that are read.
THEOREM ConsoleTypeCorrect == Spec => []TypeOK
<1>1. TypeInv => TypeOK
  BY DEF TypeInv
<1>. QED BY <1>1, TypeInvInit, TypeInvStep, PTL DEF Spec

-----------------------------------------------------------------------------
(* Waiting bytes have their interrupt.  The only step without it is the one *)
(* between storing a byte and arming; the handler disarms when it finds     *)
(* nothing, and it cannot come between a byte's copy and the step of txOut. *)

Waiting ==
    /\ task # "arm" /\ txIn # txOut => intTx
    /\ task = "sent" => txIn # txOut

LEMMA WaitingInit == Init => Waiting
BY DEF Init, Waiting

LEMMA WaitingStep == TypeInv /\ Waiting /\ [Next]_vars => Waiting'
<1> SUFFICES ASSUME TypeInv, Waiting, [Next]_vars PROVE Waiting'
  OBVIOUS
<1> USE DEF Waiting
<1>1. CASE Call \/ AwaitIdle \/ Enter \/ Mask \/ Read \/ Load \/ Taken \/ Unlock \/ Unmask
                \/ Sleep \/ Wake
  BY <1>1 DEF Call, AwaitIdle, Enter, Mask, Read, Load, Taken, Unlock, Unmask, Sleep, Wake
<1>2. CASE Lock
  BY <1>2 DEF Lock, TypeInv, Loop
<1>3. CASE Store \/ Stored \/ Arm
  BY <1>3 DEF Store, Stored, Arm
<1>4. CASE DrainQueue \/ Sent
  BY <1>4 DEF DrainQueue, Sent
<1>5. CASE Interrupt
  BY <1>5 DEF Interrupt
<1>6. CASE Handler
  <2>1. task \notin {"arm", "sent"}
    BY <1>6 DEF TypeInv, Excluded, MutualExclusion, Inside, Handler, Acquire, Receive, Transmit,
                ReleaseAndReturn
  <2>2. CASE Acquire \/ Receive \/ ReleaseAndReturn
    BY <2>2 DEF Acquire, Receive, ReleaseAndReturn
  <2>3. CASE Transmit
    BY <2>1, <2>3 DEF Transmit
  <2>. QED BY <1>6, <2>2, <2>3 DEF Handler
<1>7. CASE Arrive \/ Shift \/ UNCHANGED vars
  BY <1>7 DEF Arrive, Shift, vars
<1>. QED BY <1>1, <1>2, <1>3, <1>4, <1>5, <1>6, <1>7 DEF Next, Task

\* Whenever the lock is free and bytes wait to be sent, the transmit interrupt is
\* enabled: neither write nor the handler can leave bytes behind.
THEOREM Armed == Spec => []TransmitArmed
<1>1. Waiting => TransmitArmed
  BY DEF Waiting, TransmitArmed, Inside
<1>. QED BY <1>1, TypeInvInit, TypeInvStep, WaitingInit, WaitingStep, PTL DEF Spec

-----------------------------------------------------------------------------
(* Until an overrun the mask that interrupts had is where the code will     *)
(* look for it: in saved before Keep and after Release, in flags[0] between *)
(* the two, in spsr during the handler.                                     *)

Outside == {"main", "enter", "mask", "wfi", "asleep"}
Locked == {"read", "load", "taken", "put", "stored", "arm", "drain", "sent", "unlock"}

MaskKept ==
    /\ flags \in [Levels -> Masks]
    /\ status = "Normal" =>
          /\ task \in Outside \union Locked \union {"keep", "unmask"}
          /\ task \in {"mask", "keep", "unmask"} => saved = Running
          /\ task \in Locked => criticalLevel = 1 /\ flags[0] = Running /\ irq = "idle"
          /\ task \in {"keep", "unmask"} => criticalLevel = 0 /\ irq = "idle"
          /\ task \in Outside /\ irq = "idle" => criticalLevel = 0 /\ daif = Running
          /\ irq # "idle" => spsr = Running
          /\ irq = "acquire" => criticalLevel = 0 /\ daif = {"I"}
          /\ irq \in {"receive", "transmit", "release"} => criticalLevel = 1
          /\ irq \in {"idle", "acquire", "receive", "transmit", "release"}

LEMMA MaskKeptInit == Init => MaskKept
BY DEF Init, CriticalInit, MaskKept, Outside, Locked, Masks, Running

LEMMA MaskKeptStep == MaskKept /\ TypeInv /\ [Next]_vars => MaskKept'
<1> SUFFICES ASSUME MaskKept, TypeInv, [Next]_vars PROVE MaskKept'
  OBVIOUS
<1>0. 0 \in Levels /\ (RoomToEnter <=> criticalLevel < MAX_CRITICAL_LEVEL)
        /\ MAX_CRITICAL_LEVEL \in Nat \ {0}
  BY LevelAssumption DEF Levels, RoomToEnter
<1> USE DEF MaskKept, Outside, Locked, Masks, Running
<1>1. CASE Call \/ AwaitIdle \/ Enter \/ Sleep \/ Wake
  BY <1>1 DEF Call, AwaitIdle, Enter, Sleep, Wake
<1>2. CASE Mask
  BY <1>2 DEF Mask, DisableBoth
<1>3. CASE Lock
  <2>1. CASE Keep(saved) /\ task = "keep" /\ task' = Op /\ UNCHANGED <<status, irq>>
    <3>1. Op \in {"read", "put", "drain"} /\ irq = "idle"
      BY <1>3, <2>1 DEF Lock, TypeInv, Loop
    <3>2. flags' \in [Levels -> Masks] /\ (status = "Normal" => flags'[0] = Running /\ criticalLevel' = 1)
      <4>1. saved \in Masks /\ criticalLevel \in Levels
        BY <1>0, <2>1 DEF Keep, TypeInv, TypeOK, CriticalTypeOK, Levels
      <4>. QED BY <1>0, <2>1, <4>1 DEF Keep
    <3>. QED BY <2>1, <3>1, <3>2
  <2>2. CASE ~RoomToEnter
    <3>1. status # "Normal"
      BY <1>0, <1>3, <2>2 DEF Lock
    <3>2. UNCHANGED <<flags, status>>
      BY <1>3, <2>2 DEF Lock, Keep
    <3>. QED BY <3>1, <3>2
  <2>. QED BY <1>3, <2>1, <2>2 DEF Lock
<1>4. CASE Read \/ Load \/ Taken \/ Store \/ Stored \/ Arm \/ DrainQueue \/ Sent
  BY <1>4 DEF Read, Load, Taken, Store, Stored, Arm, DrainQueue, Sent
<1>5. CASE Unlock
  BY <1>0, <1>5 DEF Unlock, Release, RoomToLeave, Kept
<1>6. CASE Unmask
  BY <1>6 DEF Unmask, Restore
<1>7. CASE Interrupt
  BY <1>7 DEF Interrupt, TypeInv, Excluded, MutualExclusion, Inside
<1>8. CASE Handler
  BY <1>0, <1>8 DEF Handler, Acquire, Receive, Transmit, ReleaseAndReturn, RoomToLeave, Keep
<1>9. CASE Arrive \/ Shift \/ UNCHANGED vars
  BY <1>9 DEF Arrive, Shift, vars
<1>. QED BY <1>1, <1>2, <1>3, <1>4, <1>5, <1>6, <1>7, <1>8, <1>9 DEF Next, Task

\* Outside the lock and the handler no mask is kept and interrupts are as
\* Interrupts::init left them, until an overrun.
THEOREM Restored == Spec => []MaskRestored
<1>1. MaskKept => MaskRestored
  BY DEF MaskKept, MaskRestored, Inside, Outside, Locked
<1>. QED BY <1>1, TypeInvInit, TypeInvStep, MaskKeptInit, MaskKeptStep, PTL DEF Spec

-----------------------------------------------------------------------------
(* The bytes of a ring.                                                     *)

\* The slot of the i-th byte.
Place(out, i) == IF out + i - 1 < UART_BUFFER_SIZE THEN out + i - 1 ELSE out + i - 1 - UART_BUFFER_SIZE

LEMMA Wraps ==
    ASSUME NEW n \in Nat, n < 2 * UART_BUFFER_SIZE
    PROVE  n % UART_BUFFER_SIZE = IF n < UART_BUFFER_SIZE THEN n ELSE n - UART_BUFFER_SIZE
BY ConsoleAssumption

LEMMA LengthIs ==
    ASSUME NEW in \in Slots, NEW out \in Slots
    PROVE  /\ Length(in, out) = IF out <= in THEN in - out ELSE in - out + UART_BUFFER_SIZE
           /\ Length(in, out) \in 0 .. UART_BUFFER_SIZE - 1
BY ConsoleAssumption DEF Slots, Length

LEMMA PlaceIs ==
    ASSUME NEW in \in Slots, NEW out \in Slots, NEW i \in 1 .. Length(in, out)
    PROVE  Place(out, i) \in Used(in, out)
<1>1. /\ Length(in, out) \in 0 .. UART_BUFFER_SIZE - 1
      /\ Length(in, out) = IF out <= in THEN in - out ELSE in - out + UART_BUFFER_SIZE
  BY LengthIs
<1>. QED BY <1>1, ConsoleAssumption DEF Slots, Place, Used

\* They are those of the slots in use, in order.
LEMMA ContentsAre ==
    ASSUME NEW S, NEW q \in [Slots -> S], NEW in \in Slots, NEW out \in Slots
    PROVE  /\ Contents(q, in, out) \in Seq(S)
           /\ Len(Contents(q, in, out)) = Length(in, out)
           /\ \A i \in 1 .. Length(in, out) : Contents(q, in, out)[i] = q[Place(out, i)]
<1>1. /\ UART_BUFFER_SIZE \in Nat /\ in \in 0 .. UART_BUFFER_SIZE - 1 /\ out \in 0 .. UART_BUFFER_SIZE - 1
      /\ Length(in, out) \in 0 .. UART_BUFFER_SIZE - 1
  <2>1. Length(in, out) \in 0 .. UART_BUFFER_SIZE - 1
    BY LengthIs
  <2>. QED BY <2>1, ConsoleAssumption DEF Slots
<1>2. ASSUME NEW i \in 1 .. Length(in, out)
      PROVE  (out + i - 1) % UART_BUFFER_SIZE = Place(out, i)
  <2>1. PICK n \in Nat : n = out + i - 1
    BY <1>1, <1>2
  <2>2. n < 2 * UART_BUFFER_SIZE
    BY <1>1, <1>2, <2>1
  <2>3. n % UART_BUFFER_SIZE = IF n < UART_BUFFER_SIZE THEN n ELSE n - UART_BUFFER_SIZE
    BY <2>2, Wraps
  <2>. QED BY <1>1, <1>2, <2>1, <2>3 DEF Place
<1>3. Contents(q, in, out) = [i \in 1 .. Length(in, out) |-> q[Place(out, i)]]
  BY <1>2 DEF Contents
<1>4. \A i \in 1 .. Length(in, out) : q[Place(out, i)] \in S
  BY PlaceIs, UsedStep
<1>5. Length(in, out) \in Nat
  BY <1>1
<1>. HIDE DEF Place, Length
<1>6. Contents(q, in, out) \in Seq(S)
  BY <1>3, <1>4, <1>5, IsASeq
<1>7. Len(Contents(q, in, out)) = Length(in, out)
  BY <1>3, <1>5, <1>6, LenProperties
<1>. QED BY <1>3, <1>6, <1>7

LEMMA ContentAt ==
    ASSUME NEW S, NEW q \in [Slots -> S], NEW in \in Slots, NEW out \in Slots,
           NEW i \in 1 .. Length(in, out)
    PROVE  Contents(q, in, out)[i] = q[Place(out, i)]
BY ContentsAre

\* Storing into the slot behind them changes nothing yet.
LEMMA ContentsStay ==
    ASSUME NEW S, NEW q \in [Slots -> S], NEW r \in [Slots -> S], NEW in \in Slots, NEW out \in Slots,
           \A i \in Slots : i # in => r[i] = q[i]
    PROVE  Contents(r, in, out) = Contents(q, in, out)
<1>1. \A i \in Used(in, out) : r[i] = q[i]
  BY UsedStep
<1>2. Contents(q, in, out) = Contents(r, in, out)
  <2>1. Contents(q, in, out) \in Seq(S)
    BY ContentsAre
  <2>2. Len(Contents(q, in, out)) = Length(in, out)
    BY ContentsAre
  <2>3. \A i \in 1 .. Length(in, out) : Contents(q, in, out)[i] = q[Place(out, i)]
    BY ContentsAre
  <2>4. Contents(r, in, out) \in Seq(S)
    BY <1>1, ContentsAre
  <2>5. Len(Contents(r, in, out)) = Length(in, out)
    BY <1>1, ContentsAre
  <2>6. \A i \in 1 .. Length(in, out) : Contents(r, in, out)[i] = r[Place(out, i)]
    BY <1>1, ContentsAre
  <2>7. \A i \in 1 .. Length(in, out) : Contents(q, in, out)[i] = Contents(r, in, out)[i]
    BY <1>1, <2>3, <2>6, PlaceIs
  <2>. QED BY <2>1, <2>2, <2>4, <2>5, <2>7, SeqEqual
<1>. QED BY <1>2

\* The step of the index adds the byte.
LEMMA ContentsGrow ==
    ASSUME NEW S, NEW q \in [Slots -> S], NEW in \in Slots, NEW out \in Slots, After(in) # out
    PROVE  Contents(q, After(in), out) = Append(Contents(q, in, out), q[in])
<1>. DEFINE next == After(in)
            n == Length(in, out)
<1>1. next \in Slots /\ q[in] \in S /\ next # out
  BY UsedStep
<1>2. next = IF in = UART_BUFFER_SIZE - 1 THEN 0 ELSE in + 1
  BY AfterIs
<1>. HIDE DEF next
<1>3. /\ n = IF out <= in THEN in - out ELSE in - out + UART_BUFFER_SIZE
      /\ Length(next, out) = IF out <= next THEN next - out ELSE next - out + UART_BUFFER_SIZE
  BY <1>1, LengthIs
<1>. HIDE DEF n
<1>4. n \in Nat /\ Length(next, out) = n + 1
  BY <1>1, <1>2, <1>3, ConsoleAssumption DEF Slots
<1>5. Place(out, n + 1) = in
  BY <1>3, ConsoleAssumption DEF Slots, Place
<1>6. /\ Contents(q, in, out) \in Seq(S)
      /\ Len(Contents(q, in, out)) = n
      /\ \A i \in 1 .. n : Contents(q, in, out)[i] = q[Place(out, i)]
  <2>1. Contents(q, in, out) \in Seq(S)
    BY ContentsAre
  <2>2. Len(Contents(q, in, out)) = n
    BY ContentsAre DEF n
  <2>3. \A i \in 1 .. n : Contents(q, in, out)[i] = q[Place(out, i)]
    BY ContentsAre DEF n
  <2>. QED BY <2>1, <2>2, <2>3
<1>7. /\ Contents(q, next, out) \in Seq(S)
      /\ Len(Contents(q, next, out)) = n + 1
      /\ \A i \in 1 .. n + 1 : Contents(q, next, out)[i] = q[Place(out, i)]
  <2>1. Contents(q, next, out) \in Seq(S)
    BY <1>1, ContentsAre
  <2>2. Len(Contents(q, next, out)) = Length(next, out)
    BY <1>1, ContentsAre
  <2>3. \A i \in 1 .. Length(next, out) : Contents(q, next, out)[i] = q[Place(out, i)]
    BY <1>1, ContentAt
  <2>. QED BY <1>4, <2>1, <2>2, <2>3
<1>8. /\ Append(Contents(q, in, out), q[in]) \in Seq(S)
      /\ Len(Append(Contents(q, in, out), q[in])) = n + 1
      /\ \A i \in 1 .. n : Append(Contents(q, in, out), q[in])[i] = Contents(q, in, out)[i]
      /\ Append(Contents(q, in, out), q[in])[n + 1] = q[in]
  BY <1>1, <1>6, AppendProperties
<1>9. \A i \in 1 .. n + 1 : i = n + 1 \/ i \in 1 .. n
  BY <1>4
<1>10. \A i \in 1 .. n + 1 : Contents(q, next, out)[i] = Append(Contents(q, in, out), q[in])[i]
  <2>. HIDE DEF Place
  <2>. QED BY <1>5, <1>6, <1>7, <1>8, <1>9
<1>11. Contents(q, next, out) = Append(Contents(q, in, out), q[in])
  BY <1>7, <1>8, <1>10, SeqEqual
<1>. QED BY <1>11 DEF next

\* The step of the other takes the oldest away.
LEMMA ContentsShrink ==
    ASSUME NEW S, NEW q \in [Slots -> S], NEW in \in Slots, NEW out \in Slots, in # out
    PROVE  /\ Contents(q, in, out) # <<>>
           /\ Head(Contents(q, in, out)) = q[out]
           /\ Tail(Contents(q, in, out)) = Contents(q, in, After(out))
<1>. DEFINE next == After(out)
            n == Length(in, out)
<1>1. next \in Slots
  BY UsedStep
<1>2. next = IF out = UART_BUFFER_SIZE - 1 THEN 0 ELSE out + 1
  BY AfterIs
<1>. HIDE DEF next
<1>3. /\ n = IF out <= in THEN in - out ELSE in - out + UART_BUFFER_SIZE
      /\ Length(in, next) = IF next <= in THEN in - next ELSE in - next + UART_BUFFER_SIZE
  BY <1>1, LengthIs
<1>. HIDE DEF n
<1>4. n \in Nat /\ 0 < n /\ n < UART_BUFFER_SIZE /\ Length(in, next) = n - 1
  BY <1>1, <1>2, <1>3, ConsoleAssumption DEF Slots
<1>5. Place(out, 1) = out /\ \A i \in 1 .. n - 1 : Place(next, i) = Place(out, i + 1)
  BY <1>2, <1>4, ConsoleAssumption DEF Slots, Place
<1>. DEFINE C == Contents(q, in, out)
<1>6. /\ C \in Seq(S)
      /\ Len(C) = n
      /\ \A i \in 1 .. n : C[i] = q[Place(out, i)]
  <2>1. C \in Seq(S)
    BY ContentsAre
  <2>2. Len(C) = n
    BY ContentsAre DEF n
  <2>3. \A i \in 1 .. n : C[i] = q[Place(out, i)]
    BY ContentsAre DEF n
  <2>. QED BY <2>1, <2>2, <2>3
<1>7. /\ Contents(q, in, next) \in Seq(S)
      /\ Len(Contents(q, in, next)) = n - 1
      /\ \A i \in 1 .. n - 1 : Contents(q, in, next)[i] = q[Place(next, i)]
  <2>1. Contents(q, in, next) \in Seq(S)
    BY <1>1, ContentsAre
  <2>2. Len(Contents(q, in, next)) = Length(in, next)
    BY <1>1, ContentsAre
  <2>3. \A i \in 1 .. Length(in, next) : Contents(q, in, next)[i] = q[Place(next, i)]
    BY <1>1, ContentAt
  <2>. QED BY <1>4, <2>1, <2>2, <2>3
<1>. HIDE DEF C
<1>8. C # <<>> /\ Head(C) = C[1]
  BY <1>4, <1>6, EmptySeq
<1>9. /\ Tail(C) \in Seq(S)
      /\ Len(Tail(C)) = n - 1
      /\ \A i \in 1 .. n - 1 : Tail(C)[i] = C[i + 1]
  BY <1>6, <1>8, HeadTailProperties
<1>10. 1 \in 1 .. n /\ \A i \in 1 .. n - 1 : i + 1 \in 1 .. n
  BY <1>4
<1>11. \A i \in 1 .. n - 1 : Tail(C)[i] = Contents(q, in, next)[i]
  <2>. HIDE DEF Place
  <2>. QED BY <1>5, <1>6, <1>7, <1>9, <1>10
<1>12. Tail(C) = Contents(q, in, next)
  BY <1>7, <1>9, <1>11, SeqEqual
<1>13. Head(C) = q[out]
  BY <1>5, <1>6, <1>8, <1>10
<1>. QED BY <1>8, <1>12, <1>13 DEF next, C

\* What is left of them while a byte is being copied out.
LEMMA RestIs ==
    ASSUME NEW S, NEW q \in [Slots -> S], NEW in \in Slots, NEW out \in Slots
    PROVE  /\ Rest(q, in, out, FALSE) = Contents(q, in, out)
           /\ in # out => Rest(q, in, out, TRUE) = Contents(q, in, After(out))
<1>1. Contents(q, in, out) \in Seq(S)
  BY ContentsAre
<1>2. Len(Contents(q, in, out)) = Length(in, out)
  BY ContentsAre
<1>3. Rest(q, in, out, FALSE) = Contents(q, in, out)
  BY <1>1, <1>2, SubSeqFull DEF Rest
<1>4. ASSUME in # out PROVE Rest(q, in, out, TRUE) = Contents(q, in, After(out))
  <2>1. Contents(q, in, out) # <<>> /\ Tail(Contents(q, in, out)) = Contents(q, in, After(out))
    BY <1>4, ContentsShrink
  <2>2. Rest(q, in, out, TRUE) = Tail(Contents(q, in, out))
    BY <1>1, <1>2, <1>4, <2>1, TailIsSubSeq DEF Rest
  <2>. QED BY <2>1, <2>2
<1>. QED BY <1>3, <1>4

-----------------------------------------------------------------------------
(* Two queues, one behind the other.                                        *)

\* The oldest byte of the first is the oldest of both.
LEMMA ConcatTail ==
    ASSUME NEW S, NEW s \in Seq(S), NEW t \in Seq(S), s # <<>>
    PROVE  /\ s \o t # <<>>
           /\ Head(s \o t) = Head(s)
           /\ Tail(s \o t) = Tail(s) \o t
<1>1. Len(s) \in Nat \ {0} /\ Len(t) \in Nat
  BY EmptySeq, LenProperties
<1>2. /\ s \o t \in Seq(S)
      /\ Len(s \o t) = Len(s) + Len(t)
      /\ \A i \in 1 .. Len(s) + Len(t) : (s \o t)[i] = IF i <= Len(s) THEN s[i] ELSE t[i - Len(s)]
  BY ConcatProperties
<1>3. /\ Tail(s) \in Seq(S)
      /\ Len(Tail(s)) = Len(s) - 1
      /\ \A i \in 1 .. Len(s) - 1 : Tail(s)[i] = s[i + 1]
  BY HeadTailProperties
<1>4. s \o t # <<>>
  BY <1>1, <1>2, EmptySeq
<1>5. Head(s \o t) = Head(s)
  BY <1>1, <1>2, <1>4
<1>6. /\ Tail(s \o t) \in Seq(S)
      /\ Len(Tail(s \o t)) = Len(s) + Len(t) - 1
      /\ \A i \in 1 .. Len(s) + Len(t) - 1 : Tail(s \o t)[i] = (s \o t)[i + 1]
  BY <1>1, <1>2, <1>4, HeadTailProperties
<1>7. /\ Tail(s) \o t \in Seq(S)
      /\ Len(Tail(s) \o t) = Len(s) + Len(t) - 1
      /\ \A i \in 1 .. Len(s) + Len(t) - 1 :
            (Tail(s) \o t)[i] = IF i <= Len(s) - 1 THEN Tail(s)[i] ELSE t[i - (Len(s) - 1)]
  BY <1>1, <1>3, ConcatProperties
<1>8. ASSUME NEW i \in 1 .. Len(s) + Len(t) - 1
      PROVE  Tail(s \o t)[i] = (Tail(s) \o t)[i]
  <2>1. (s \o t)[i + 1] = IF i + 1 <= Len(s) THEN s[i + 1] ELSE t[i + 1 - Len(s)]
    BY <1>1, <1>2
  <2>2. CASE i <= Len(s) - 1
    <3>1. i \in 1 .. Len(s) - 1 /\ i + 1 <= Len(s)
      BY <1>1, <2>2
    <3>. QED BY <1>3, <1>6, <1>7, <2>1, <2>2, <3>1
  <2>3. CASE ~(i <= Len(s) - 1)
    <3>1. i + 1 - Len(s) = i - (Len(s) - 1) /\ ~(i + 1 <= Len(s))
      BY <1>1, <2>3
    <3>. QED BY <1>6, <1>7, <2>1, <2>3, <3>1
  <2>. QED BY <2>2, <2>3
<1>9. Tail(s \o t) = Tail(s) \o t
  BY <1>1, <1>6, <1>7, <1>8, SeqEqual
<1>. QED BY <1>4, <1>5, <1>9

\* A byte that goes into the second is the youngest of both.
LEMMA ConcatAppend ==
    ASSUME NEW S, NEW s \in Seq(S), NEW t \in Seq(S), NEW b \in S
    PROVE  s \o Append(t, b) = Append(s \o t, b)
<1>1. <<b>> \in Seq(S) /\ s \o t \in Seq(S)
  BY ConcatProperties
<1>2. Append(t, b) = t \o <<b>> /\ Append(s \o t, b) = (s \o t) \o <<b>>
  BY <1>1, AppendIsConcat
<1>. QED BY <1>1, <1>2, ConcatAssociative

\* One that moves from the second to the first keeps its place.
LEMMA ConcatMove ==
    ASSUME NEW S, NEW s \in Seq(S), NEW t \in Seq(S), t # <<>>
    PROVE  Append(s, Head(t)) \o Tail(t) = s \o t
<1>1. Head(t) \in S /\ Tail(t) \in Seq(S) /\ <<Head(t)>> \in Seq(S)
  BY HeadTailProperties
<1>2. Append(s, Head(t)) = s \o <<Head(t)>>
  BY <1>1, AppendIsConcat
<1>3. t = <<Head(t)>> \o Tail(t)
  <2>1. Len(t) \in Nat \ {0} /\ Head(t) = t[1]
    BY EmptySeq
  <2>2. 1 \in 1 .. Len(t) /\ Len(t) \in 1 .. Len(t) /\ 2 = 1 + 1
    BY <2>1
  <2>3. SubSeq(t, 1, Len(t)) = <<t[1]>> \o SubSeq(t, 2, Len(t))
    BY <2>2, SubSeqRecursiveFirst
  <2>. QED BY <2>1, <2>3, SubSeqFull, TailIsSubSeq
<1>4. (s \o <<Head(t)>>) \o Tail(t) = s \o (<<Head(t)>> \o Tail(t))
  BY <1>1, ConcatAssociative
<1>. QED BY <1>2, <1>3, <1>4

\* One that is dropped between them.
LEMMA ConcatRemove ==
    ASSUME NEW S, NEW s \in Seq(S), NEW t \in Seq(S), t # <<>>
    PROVE  /\ Len(s) + 1 \in DOMAIN (s \o t)
           /\ s \o Tail(t) = SubSeq(s \o t, 1, Len(s)) \o SubSeq(s \o t, Len(s) + 2, Len(s \o t))
<1>1. Len(s) \in Nat /\ Len(t) \in Nat \ {0}
  BY EmptySeq, LenProperties
<1>2. /\ s \o t \in Seq(S) /\ Len(s \o t) = Len(s) + Len(t)
      /\ DOMAIN (s \o t) = 1 .. Len(s) + Len(t)
  BY ConcatProperties, LenProperties
<1>3. SubSeq(s \o t, 1, Len(s)) = s
  <2>1. CASE Len(s) = 0
    <3>1. s = <<>>
      BY <2>1, EmptySeq
    <3>2. SubSeq(s \o t, 1, 0) = <<>>
      BY SubSeqEmpty
    <3>. QED BY <2>1, <3>1, <3>2
  <2>2. CASE Len(s) # 0
    <3>1. 1 \in 1 .. Len(s) /\ Len(s) \in 1 .. Len(s)
      BY <1>1, <2>2
    <3>. QED BY <3>1, SubSeqOfConcat1, SubSeqFull
  <2>. QED BY <2>1, <2>2
<1>4. SubSeq(s \o t, Len(s) + 2, Len(s) + Len(t)) = Tail(t)
  <2>1. Tail(t) = SubSeq(t, 2, Len(t))
    BY TailIsSubSeq
  <2>2. CASE Len(t) = 1
    <3>1. SubSeq(t, 2, 1) = <<>>
      BY SubSeqEmpty
    <3>2. Len(s) + Len(t) < Len(s) + 2 /\ Len(s) + 2 \in Int /\ Len(s) + Len(t) \in Int
      BY <1>1, <2>2
    <3>3. SubSeq(s \o t, Len(s) + 2, Len(s) + Len(t)) = <<>>
      BY <3>2, SubSeqEmpty
    <3>. QED BY <2>1, <2>2, <3>1, <3>3
  <2>3. CASE Len(t) # 1
    <3>1. /\ Len(s) + 2 \in Len(s) + 1 .. Len(s) + Len(t)
          /\ Len(s) + Len(t) \in Len(s) + 1 .. Len(s) + Len(t)
          /\ Len(s) + 2 - Len(s) = 2 /\ Len(s) + Len(t) - Len(s) = Len(t)
      <4>. DEFINE m == Len(s)
                  n == Len(t)
      <4>1. m \in Nat /\ n \in Nat \ {0, 1}
        BY <1>1, <2>3
      <4>. HIDE DEF m, n
      <4>2. m + 2 \in m + 1 .. m + n /\ m + n \in m + 1 .. m + n /\ m + 2 - m = 2 /\ m + n - m = n
        BY <4>1
      <4>. QED BY <4>2 DEF m, n
    <3>2. SubSeq(s \o t, Len(s) + 2, Len(s) + Len(t)) =
             SubSeq(t, Len(s) + 2 - Len(s), Len(s) + Len(t) - Len(s))
      BY <3>1, SubSeqOfConcat2
    <3>. QED BY <2>1, <3>1, <3>2
  <2>. QED BY <2>2, <2>3
<1>5. Len(s) + 1 \in 1 .. Len(s) + Len(t)
  BY <1>1
<1>. QED BY <1>2, <1>3, <1>4, <1>5
-----------------------------------------------------------------------------
(* Either direction is a channel.  A byte is out of a ring as soon as it is *)
(* copied, so the step of the index that follows changes nothing; and only  *)
(* the lock keeps the handler from copying it again.                        *)

Incoming == Rest(inputQueue, rxIn, rxOut, task = "taken")
Outgoing == Rest(outputQueue, txIn, txOut, task = "sent")

\* A character is only taken while no overrun is noted.
Reads == task = "load" => status = "Normal"

ChannelInv == TypeInv /\ Reads

LEMMA ReadsStep == ChannelInv /\ [Next]_vars => Reads'
<1> SUFFICES ASSUME ChannelInv, [Next]_vars PROVE Reads'
  OBVIOUS
<1> USE DEF Reads, ChannelInv
<1>1. CASE Task
  <2>1. CASE Lock
    BY <2>1 DEF Lock, TypeInv, Loop
  <2>. QED BY <1>1, <2>1 DEF Task, Call, AwaitIdle, Enter, Mask, Read, Load, Taken, Store, Stored,
                             Arm, DrainQueue, Sent, Unlock, Unmask, Sleep, Wake
<1>2. CASE Interrupt
  BY <1>2 DEF Interrupt
<1>3. CASE Handler
  <2>1. task # "load" /\ UNCHANGED task
    BY <1>3 DEF TypeInv, Excluded, MutualExclusion, Inside, Handler, Acquire, Receive, Transmit,
                ReleaseAndReturn
  <2>. QED BY <2>1
<1>4. CASE Arrive \/ Shift \/ UNCHANGED vars
  BY <1>4 DEF Arrive, Shift, vars
<1>. QED BY <1>1, <1>2, <1>3, <1>4 DEF Next

LEMMA ChannelInvHolds == Spec => []ChannelInv
<1>1. Init => ChannelInv
  BY TypeInvInit DEF Init, ChannelInv, Reads
<1>2. ChannelInv /\ [Next]_vars => ChannelInv'
  BY TypeInvStep, ReadsStep DEF ChannelInv
<1>. QED BY <1>1, <1>2, PTL DEF Spec

IncomingCorrect ==
    /\ Incoming \in Seq(Typed \union {None})
    /\ task # "taken" => Incoming = Contents(inputQueue, rxIn, rxOut)
    /\ task = "taken" => Incoming = Contents(inputQueue, rxIn, After(rxOut))

LEMMA IncomingIs == TypeInv => IncomingCorrect
<1>. SUFFICES ASSUME TypeInv PROVE IncomingCorrect
  OBVIOUS
<1>1. /\ inputQueue \in [Slots -> Typed \union {None}] /\ rxIn \in Slots /\ rxOut \in Slots
      /\ task = "taken" => rxIn # rxOut
  BY DEF TypeInv, TypeOK, Loop
<1>2. CASE task = "taken"
  <2>1. (task = "taken") = TRUE
    BY <1>2
  <2>2. Incoming = Rest(inputQueue, rxIn, rxOut, TRUE)
    BY <2>1 DEF Incoming
  <2>3. Rest(inputQueue, rxIn, rxOut, TRUE) = Contents(inputQueue, rxIn, After(rxOut))
    BY <1>1, <1>2, RestIs
  <2>4. Contents(inputQueue, rxIn, After(rxOut)) \in Seq(Typed \union {None})
    BY <1>1, UsedStep, ContentsAre
  <2>. QED BY <1>2, <2>2, <2>3, <2>4 DEF IncomingCorrect
<1>3. CASE task # "taken"
  <2>1. (task = "taken") = FALSE
    BY <1>3
  <2>2. Incoming = Rest(inputQueue, rxIn, rxOut, FALSE)
    BY <2>1 DEF Incoming
  <2>3. Rest(inputQueue, rxIn, rxOut, FALSE) = Contents(inputQueue, rxIn, rxOut)
    BY <1>1, RestIs
  <2>4. Contents(inputQueue, rxIn, rxOut) \in Seq(Typed \union {None})
    BY <1>1, ContentsAre
  <2>. QED BY <1>3, <2>2, <2>3, <2>4 DEF IncomingCorrect
<1>. QED BY <1>2, <1>3

LEMMA IncomingNext == TypeInv' => IncomingCorrect'
BY IncomingIs, PTL

OutgoingCorrect ==
    /\ Outgoing \in Seq(Printed \union {None})
    /\ task # "sent" => Outgoing = Contents(outputQueue, txIn, txOut)
    /\ task = "sent" => Outgoing = Contents(outputQueue, txIn, After(txOut))

LEMMA OutgoingIs == TypeInv => OutgoingCorrect
<1>. SUFFICES ASSUME TypeInv PROVE OutgoingCorrect
  OBVIOUS
<1>1. /\ outputQueue \in [Slots -> Printed \union {None}] /\ txIn \in Slots /\ txOut \in Slots
      /\ task = "sent" => txIn # txOut
  BY DEF TypeInv, TypeOK, Loop
<1>2. CASE task = "sent"
  <2>1. (task = "sent") = TRUE
    BY <1>2
  <2>2. Outgoing = Rest(outputQueue, txIn, txOut, TRUE)
    BY <2>1 DEF Outgoing
  <2>3. Rest(outputQueue, txIn, txOut, TRUE) = Contents(outputQueue, txIn, After(txOut))
    BY <1>1, <1>2, RestIs
  <2>4. Contents(outputQueue, txIn, After(txOut)) \in Seq(Printed \union {None})
    BY <1>1, UsedStep, ContentsAre
  <2>. QED BY <1>2, <2>2, <2>3, <2>4 DEF OutgoingCorrect
<1>3. CASE task # "sent"
  <2>1. (task = "sent") = FALSE
    BY <1>3
  <2>2. Outgoing = Rest(outputQueue, txIn, txOut, FALSE)
    BY <2>1 DEF Outgoing
  <2>3. Rest(outputQueue, txIn, txOut, FALSE) = Contents(outputQueue, txIn, txOut)
    BY <1>1, RestIs
  <2>4. Contents(outputQueue, txIn, txOut) \in Seq(Printed \union {None})
    BY <1>1, ContentsAre
  <2>. QED BY <1>3, <2>2, <2>3, <2>4 DEF OutgoingCorrect
<1>. QED BY <1>2, <1>3

LEMMA OutgoingNext == TypeInv' => OutgoingCorrect'
BY OutgoingIs, PTL

\* A step that leaves the input alone.
LEMMA InputFrame ==
    ASSUME UNCHANGED <<inputQueue, rxIn, rxOut, rxFifo, ch, status>>,
           task = "taken" <=> task' = "taken"
    PROVE  UNCHANGED <<Incoming \o rxFifo, ch, status = "Normal">>
<1>1. (task = "taken") = (task' = "taken")
  OBVIOUS
<1>2. Incoming' = Incoming
  BY <1>1 DEF Incoming
<1>. QED BY <1>2

LEMMA InputTypes ==
    ASSUME TypeInv
    PROVE  /\ inputQueue \in [Slots -> Typed \union {None}] /\ rxIn \in Slots /\ rxOut \in Slots
           /\ rxFifo \in Seq(Typed) /\ rxFifo \in Seq(Typed \union {None})
           /\ Contents(inputQueue, rxIn, rxOut) \in Seq(Typed \union {None})
<1>1. /\ inputQueue \in [Slots -> Typed \union {None}] /\ rxIn \in Slots /\ rxOut \in Slots
      /\ rxFifo \in Seq(Typed)
  BY DEF TypeInv, TypeOK
<1>2. rxFifo \in Seq(Typed \union {None})
  BY <1>1, SeqMonotonic
<1>3. Contents(inputQueue, rxIn, rxOut) \in Seq(Typed \union {None})
  BY <1>1, ContentsAre
<1>. QED BY <1>1, <1>2, <1>3

LEMMA InputLoad ==
    ASSUME ChannelInv, ChannelInv', Load, rxIn # rxOut
    PROVE  Input!Take
<1>. DEFINE C == Contents(inputQueue, rxIn, rxOut)
<1>1. TypeInv /\ TypeInv' /\ status = "Normal"
  BY DEF ChannelInv, Reads, Load
<1>2. /\ inputQueue \in [Slots -> Typed \union {None}] /\ rxIn \in Slots /\ rxOut \in Slots
      /\ rxFifo \in Seq(Typed \union {None}) /\ C \in Seq(Typed \union {None})
  BY <1>1, InputTypes
<1>3. C # <<>> /\ Head(C) = inputQueue[rxOut] /\ Tail(C) = Contents(inputQueue, rxIn, After(rxOut))
  BY <1>2, ContentsShrink
<1>4. Incoming = C
  BY <1>1, IncomingIs DEF Load, IncomingCorrect
<1>5. Incoming' = Contents(inputQueue, rxIn, After(rxOut))
  BY <1>1, IncomingNext DEF Load, IncomingCorrect
<1>. HIDE DEF C
<1>6. C \o rxFifo # <<>> /\ Head(C \o rxFifo) = Head(C) /\ Tail(C \o rxFifo) = Tail(C) \o rxFifo
  BY <1>2, <1>3, ConcatTail
<1>7. ch' = Head(Incoming \o rxFifo) /\ (Incoming \o rxFifo)' = Tail(Incoming \o rxFifo)
  BY <1>3, <1>4, <1>5, <1>6 DEF Load
<1>8. Incoming \o rxFifo # <<>> /\ status' = status
  BY <1>4, <1>6 DEF Load
<1>. QED BY <1>1, <1>7, <1>8 DEF Input!Take, Incoming

LEMMA InputTaken ==
    ASSUME ChannelInv, ChannelInv', Taken
    PROVE  UNCHANGED <<Incoming \o rxFifo, ch, status = "Normal">>
<1>1. Incoming = Contents(inputQueue, rxIn, After(rxOut))
  BY IncomingIs DEF ChannelInv, Taken, IncomingCorrect
<1>2. Incoming' = Contents(inputQueue, rxIn, After(rxOut))
  BY IncomingNext DEF ChannelInv, Taken, IncomingCorrect
<1>. QED BY <1>1, <1>2 DEF Taken

LEMMA InputReceive ==
    ASSUME ChannelInv, ChannelInv', Receive
    PROVE  [Input!Next]_<<Incoming \o rxFifo, ch, status = "Normal">>
<1>. DEFINE C == Contents(inputQueue, rxIn, rxOut)
<1>1. TypeInv /\ TypeInv' /\ task # "taken" /\ UNCHANGED <<task, ch>>
  BY DEF ChannelInv, TypeInv, Excluded, MutualExclusion, Inside, Receive
<1>2. /\ inputQueue \in [Slots -> Typed \union {None}] /\ rxIn \in Slots /\ rxOut \in Slots
      /\ rxFifo \in Seq(Typed) /\ rxFifo \in Seq(Typed \union {None}) /\ C \in Seq(Typed \union {None})
  BY <1>1, InputTypes
<1>3. Incoming = C
  BY <1>1, IncomingIs DEF IncomingCorrect
<1>4. Incoming' = Contents(inputQueue', rxIn', rxOut)
  BY <1>1, IncomingNext DEF Receive, IncomingCorrect
<1>5. CASE rxFifo # <<>> /\ After(rxIn) # rxOut
  <2>. DEFINE q == [inputQueue EXCEPT ![rxIn] = Head(rxFifo)]
  <2>1. /\ rxFifo' = Tail(rxFifo) /\ inputQueue' = q /\ rxIn' = After(rxIn) /\ status' = status
    BY <1>5 DEF Receive
  <2>2. Head(rxFifo) \in Typed \union {None}
    BY <1>2, <1>5, HeadTailProperties
  <2>3. /\ q \in [Slots -> Typed \union {None}] /\ q[rxIn] = Head(rxFifo)
        /\ \A i \in Slots : i # rxIn => q[i] = inputQueue[i]
    BY <1>2, <2>2
  <2>. HIDE DEF q
  <2>4. Contents(q, rxIn, rxOut) = C
    BY <1>2, <2>3, ContentsStay
  <2>5. Contents(q, After(rxIn), rxOut) = Append(C, Head(rxFifo))
    BY <1>2, <1>5, <2>3, <2>4, ContentsGrow
  <2>. HIDE DEF C
  <2>6. Append(C, Head(rxFifo)) \o Tail(rxFifo) = C \o rxFifo
    BY <1>2, <1>5, ConcatMove
  <2>7. (Incoming \o rxFifo)' = Incoming \o rxFifo
    BY <1>3, <1>4, <2>1, <2>5, <2>6
  <2>. QED BY <1>1, <2>1, <2>7
<1>6. CASE rxFifo # <<>> /\ After(rxIn) = rxOut
  <2>1. rxFifo' = Tail(rxFifo) /\ status' = "Overrun" /\ UNCHANGED <<inputQueue, rxIn>>
    BY <1>6 DEF Receive
  <2>2. Incoming' = C
    BY <1>4, <2>1
  <2>. HIDE DEF C
  <2>3. /\ Len(C) + 1 \in DOMAIN (C \o rxFifo)
        /\ C \o Tail(rxFifo) = SubSeq(C \o rxFifo, 1, Len(C)) \o SubSeq(C \o rxFifo, Len(C) + 2, Len(C \o rxFifo))
    BY <1>2, <1>6, ConcatRemove
  <2>4. PICK i \in DOMAIN (Incoming \o rxFifo) : i = Len(C) + 1
    BY <1>3, <2>3
  <2>5. i - 1 = Len(C) /\ i + 1 = Len(C) + 2
    BY <1>2, <2>4, LenProperties
  <2>6. (Incoming \o rxFifo)' =
           SubSeq(Incoming \o rxFifo, 1, i - 1) \o SubSeq(Incoming \o rxFifo, i + 1, Len(Incoming \o rxFifo))
    BY <1>3, <2>1, <2>2, <2>3, <2>5
  <2>. QED BY <1>1, <2>1, <2>6 DEF Input!Next, Input!Lose, Input!RemoveAt, Incoming
<1>7. CASE rxFifo = <<>>
  BY <1>1, <1>7, InputFrame DEF Receive
<1>. QED BY <1>5, <1>6, <1>7

LEMMA InputArrive ==
    ASSUME ChannelInv, ChannelInv', Arrive
    PROVE  [Input!Next]_<<Incoming \o rxFifo, ch, status = "Normal">>
<1>1. TypeInv /\ UNCHANGED <<inputQueue, rxIn, rxOut, task, ch, status>>
  BY DEF ChannelInv, Arrive
<1>2. Incoming' = Incoming
  BY <1>1 DEF Incoming
<1>3. PICK c \in Typed : rxFifo' = IF Len(rxFifo) < FifoDepth THEN Append(rxFifo, c) ELSE rxFifo
  BY DEF Arrive
<1>4. CASE rxFifo' = Append(rxFifo, c)
  <2>1. Incoming \in Seq(Typed \union {None}) /\ rxFifo \in Seq(Typed \union {None})
    BY <1>1, InputTypes, IncomingIs DEF IncomingCorrect
  <2>2. Incoming \o Append(rxFifo, c) = Append(Incoming \o rxFifo, c)
    BY <2>1, ConcatAppend
  <2>3. (Incoming \o rxFifo)' = Append(Incoming \o rxFifo, c)
    BY <1>2, <1>4, <2>2
  <2>. QED BY <1>1, <2>3 DEF Input!Next, Input!Put, Incoming
<1>5. CASE rxFifo' = rxFifo
  BY <1>1, <1>2, <1>5
<1>. QED BY <1>3, <1>4, <1>5

LEMMA InputStep ==
    ChannelInv /\ ChannelInv' /\ [Next]_vars => [Input!Next]_<<Incoming \o rxFifo, ch, status = "Normal">>
<1>. SUFFICES ASSUME ChannelInv, ChannelInv', [Next]_vars
     PROVE  [Input!Next]_<<Incoming \o rxFifo, ch, status = "Normal">>
  OBVIOUS
<1>. DEFINE Stays == UNCHANGED <<inputQueue, rxIn, rxOut, rxFifo, ch, status>>
            Keeps == task = "taken" <=> task' = "taken"
<1>1. Stays /\ Keeps => UNCHANGED <<Incoming \o rxFifo, ch, status = "Normal">>
  BY InputFrame
<1>2. CASE Load
  <2>1. CASE rxIn = rxOut
    BY <1>1, <1>2, <2>1 DEF Load
  <2>2. CASE rxIn # rxOut
    BY <1>2, <2>2, InputLoad DEF Input!Next
  <2>. QED BY <2>1, <2>2
<1>3. CASE Taken
  BY <1>3, InputTaken
<1>4. CASE Call \/ AwaitIdle \/ Enter \/ Mask \/ Read \/ Store \/ Stored \/ Arm \/ DrainQueue \/ Sent
                \/ Unlock \/ Unmask \/ Sleep \/ Wake
  <2>1. Stays /\ Keeps
    BY <1>4 DEF Call, AwaitIdle, Enter, Mask, Read, Store, Stored, Arm, DrainQueue, Sent, Unlock,
                Unmask, Sleep, Wake
  <2>. QED BY <1>1, <2>1
<1>5. CASE Lock
  <2>1. Stays /\ Keeps
    BY <1>5 DEF Lock, ChannelInv, TypeInv, Loop
  <2>. QED BY <1>1, <2>1
<1>6. CASE Interrupt \/ Acquire \/ Transmit \/ ReleaseAndReturn \/ Shift \/ UNCHANGED vars
  <2>1. Stays /\ Keeps
    BY <1>6 DEF Interrupt, Acquire, Transmit, ReleaseAndReturn, Shift, vars
  <2>. QED BY <1>1, <2>1
<1>7. CASE Receive
  BY <1>7, InputReceive
<1>8. CASE Arrive
  BY <1>8, InputArrive
<1>. QED BY <1>2, <1>3, <1>4, <1>5, <1>6, <1>7, <1>8 DEF Next, Task, Handler

\* The input of the console is a channel: characters reach main() in the order they
\* arrived, each once, and one the driver drops for want of room makes it refuse to read.
THEOREM InputImplementsChannel == Spec => InputIsChannel
<1>1. Init => Incoming \o rxFifo = <<>> /\ ch = None /\ status = "Normal"
  <2>. SUFFICES ASSUME Init PROVE Incoming = <<>> /\ rxFifo = <<>> /\ ch = None /\ status = "Normal"
    BY EmptySeq, ConcatEmptySeq
  <2>1. TypeInv /\ task # "taken" /\ rxIn = 0 /\ rxOut = 0 /\ rxFifo = <<>> /\ ch = None /\ status = "Normal"
    BY TypeInvInit DEF Init
  <2>2. Incoming \in Seq(Typed \union {None}) /\ Incoming = Contents(inputQueue, rxIn, rxOut)
    BY <2>1, IncomingIs DEF IncomingCorrect
  <2>3. Length(rxIn, rxOut) = 0
    BY <2>1, ConsoleAssumption DEF Length
  <2>4. Len(Incoming) = 0
    BY <2>1, <2>2, <2>3, InputTypes, ContentsAre
  <2>. QED BY <2>1, <2>2, <2>4, EmptySeq
<1>2. Init => Input!Init
  BY <1>1 DEF Input!Init, Incoming
<1>3. ChannelInv /\ ChannelInv' /\ [Next]_vars =>
         [Input!Next]_<<Rest(inputQueue, rxIn, rxOut, task = "taken") \o rxFifo, ch, status = "Normal">>
  BY InputStep DEF Incoming
<1>. QED BY <1>2, <1>3, ChannelInvHolds, PTL DEF Spec, InputIsChannel, Input!Spec

-----------------------------------------------------------------------------
(* The output, likewise: bytes go from the ring to the UART's FIFO, either  *)
(* by the drain of a write or by the handler.                               *)

\* A step that leaves the output alone.
LEMMA OutputFrame ==
    ASSUME UNCHANGED <<outputQueue, txIn, txOut, txFifo, wire>>,
           task = "sent" <=> task' = "sent"
    PROVE  UNCHANGED <<txFifo \o Outgoing, wire, TRUE>>
<1>1. (task = "sent") = (task' = "sent")
  OBVIOUS
<1>2. Outgoing' = Outgoing
  BY <1>1 DEF Outgoing
<1>. QED BY <1>2

LEMMA OutputTypes ==
    ASSUME TypeInv
    PROVE  /\ outputQueue \in [Slots -> Printed \union {None}] /\ txIn \in Slots /\ txOut \in Slots
           /\ txFifo \in Seq(Printed) /\ txFifo \in Seq(Printed \union {None})
           /\ Contents(outputQueue, txIn, txOut) \in Seq(Printed \union {None})
<1>1. /\ outputQueue \in [Slots -> Printed \union {None}] /\ txIn \in Slots /\ txOut \in Slots
      /\ txFifo \in Seq(Printed)
  BY DEF TypeInv, TypeOK
<1>2. txFifo \in Seq(Printed \union {None})
  BY <1>1, SeqMonotonic
<1>3. Contents(outputQueue, txIn, txOut) \in Seq(Printed \union {None})
  BY <1>1, ContentsAre
<1>. QED BY <1>1, <1>2, <1>3

\* The oldest byte of the ring is copied to the FIFO.
LEMMA OutputCopy ==
    ASSUME ChannelInv, txIn # txOut, task # "sent", txFifo' = Append(txFifo, outputQueue[txOut]),
           Outgoing' = Contents(outputQueue, txIn, After(txOut)), UNCHANGED wire
    PROVE  UNCHANGED <<txFifo \o Outgoing, wire, TRUE>>
<1>. DEFINE C == Contents(outputQueue, txIn, txOut)
<1>1. /\ outputQueue \in [Slots -> Printed \union {None}] /\ txIn \in Slots /\ txOut \in Slots
      /\ txFifo \in Seq(Printed \union {None}) /\ C \in Seq(Printed \union {None})
  BY OutputTypes DEF ChannelInv
<1>2. Outgoing = C
  BY OutgoingIs DEF ChannelInv, OutgoingCorrect
<1>3. C # <<>> /\ Head(C) = outputQueue[txOut] /\ Tail(C) = Contents(outputQueue, txIn, After(txOut))
  BY <1>1, ContentsShrink
<1>. HIDE DEF C
<1>4. Append(txFifo, Head(C)) \o Tail(C) = txFifo \o C
  BY <1>1, <1>3, ConcatMove
<1>. QED BY <1>2, <1>3, <1>4

LEMMA OutputDrain ==
    ASSUME ChannelInv, ChannelInv', DrainQueue
    PROVE  UNCHANGED <<txFifo \o Outgoing, wire, TRUE>>
<1>1. CASE txIn # txOut /\ Len(txFifo) < FifoDepth
  <2>1. /\ task = "drain" /\ task' = "sent" /\ txFifo' = Append(txFifo, outputQueue[txOut])
        /\ UNCHANGED <<outputQueue, txIn, txOut, wire>>
    BY <1>1 DEF DrainQueue, ChannelInv, TypeInv, TypeOK
  <2>2. Outgoing' = Contents(outputQueue, txIn, After(txOut))
    BY <2>1, OutgoingNext DEF ChannelInv, OutgoingCorrect
  <2>. QED BY <1>1, <2>1, <2>2, OutputCopy
<1>2. CASE ~(txIn # txOut /\ Len(txFifo) < FifoDepth)
  BY <1>2, OutputFrame DEF DrainQueue
<1>. QED BY <1>1, <1>2

LEMMA OutputSent ==
    ASSUME ChannelInv, ChannelInv', Sent
    PROVE  UNCHANGED <<txFifo \o Outgoing, wire, TRUE>>
<1>1. Outgoing = Contents(outputQueue, txIn, After(txOut))
  BY OutgoingIs DEF ChannelInv, Sent, OutgoingCorrect
<1>2. Outgoing' = Contents(outputQueue, txIn, After(txOut))
  BY OutgoingNext DEF ChannelInv, Sent, OutgoingCorrect
<1>. QED BY <1>1, <1>2 DEF Sent

LEMMA OutputTransmit ==
    ASSUME ChannelInv, ChannelInv', Transmit
    PROVE  UNCHANGED <<txFifo \o Outgoing, wire, TRUE>>
<1>1. task # "sent" /\ task' = task
  BY DEF ChannelInv, TypeInv, Excluded, MutualExclusion, Inside, Transmit
<1>2. CASE txFifo' = txFifo /\ txOut' = txOut
  BY <1>1, <1>2, OutputFrame DEF Transmit
<1>3. CASE ~(txFifo' = txFifo /\ txOut' = txOut)
  <2>1. /\ txIn # txOut /\ txFifo' = Append(txFifo, outputQueue[txOut]) /\ txOut' = After(txOut)
        /\ UNCHANGED <<outputQueue, txIn, wire>>
    BY <1>3 DEF Transmit
  <2>2. Outgoing' = Contents(outputQueue, txIn, After(txOut))
    BY <1>1, <2>1, OutgoingNext DEF ChannelInv, OutgoingCorrect
  <2>. QED BY <1>1, <2>1, <2>2, OutputCopy
<1>. QED BY <1>2, <1>3

LEMMA OutputStore ==
    ASSUME ChannelInv, ChannelInv', Store
    PROVE  UNCHANGED <<txFifo \o Outgoing, wire, TRUE>>
<1>1. CASE After(txIn) = txOut
  BY <1>1, OutputFrame DEF Store
<1>2. CASE After(txIn) # txOut
  <2>1. /\ outputQueue' = [outputQueue EXCEPT ![txIn] = Head(script).ch]
        /\ task # "sent" /\ task' # "sent" /\ UNCHANGED <<txIn, txOut, txFifo, wire>>
    BY <1>2 DEF Store
  <2>2. /\ outputQueue \in [Slots -> Printed \union {None}] /\ txIn \in Slots /\ txOut \in Slots
        /\ outputQueue' \in [Slots -> Printed \union {None}]
    BY DEF ChannelInv, TypeInv, TypeOK
  <2>3. \A i \in Slots : i # txIn => outputQueue'[i] = outputQueue[i]
    BY <2>1, <2>2
  <2>4. Contents(outputQueue', txIn, txOut) = Contents(outputQueue, txIn, txOut)
    BY <2>2, <2>3, ContentsStay
  <2>5. Outgoing = Contents(outputQueue, txIn, txOut) /\ Outgoing' = Contents(outputQueue', txIn', txOut')
    BY <2>1, OutgoingIs, OutgoingNext DEF ChannelInv, OutgoingCorrect
  <2>. QED BY <2>1, <2>4, <2>5
<1>. QED BY <1>1, <1>2

LEMMA OutputStored ==
    ASSUME ChannelInv, ChannelInv', Stored
    PROVE  Output!Put
<1>. DEFINE C == Contents(outputQueue, txIn, txOut)
            b == outputQueue[txIn]
<1>1. /\ outputQueue \in [Slots -> Printed \union {None}] /\ txIn \in Slots /\ txOut \in Slots
      /\ txFifo \in Seq(Printed \union {None}) /\ C \in Seq(Printed \union {None})
  BY OutputTypes DEF ChannelInv
<1>2. b \in Printed /\ After(txIn) # txOut
  BY DEF ChannelInv, TypeInv, Filled, Stored
<1>3. Contents(outputQueue, After(txIn), txOut) = Append(C, b)
  BY <1>1, <1>2, ContentsGrow
<1>4. Outgoing = C
  BY OutgoingIs DEF ChannelInv, Stored, OutgoingCorrect
<1>5. Outgoing' = Contents(outputQueue, After(txIn), txOut)
  BY OutgoingNext DEF ChannelInv, Stored, OutgoingCorrect
<1>. HIDE DEF C, b
<1>6. txFifo \o Append(C, b) = Append(txFifo \o C, b)
  BY <1>1, <1>2, ConcatAppend
<1>7. (txFifo \o Outgoing)' = Append(txFifo \o Outgoing, b) /\ UNCHANGED wire
  BY <1>3, <1>4, <1>5, <1>6 DEF Stored
<1>. QED BY <1>2, <1>7 DEF Output!Put, Outgoing

LEMMA OutputShift ==
    ASSUME ChannelInv, ChannelInv', Shift
    PROVE  Output!Take
<1>1. txFifo \in Seq(Printed \union {None}) /\ Outgoing \in Seq(Printed \union {None})
  BY OutputTypes, OutgoingIs DEF ChannelInv, OutgoingCorrect
<1>2. /\ txFifo \o Outgoing # <<>>
      /\ Head(txFifo \o Outgoing) = Head(txFifo)
      /\ Tail(txFifo \o Outgoing) = Tail(txFifo) \o Outgoing
  BY <1>1, ConcatTail DEF Shift
<1>3. Outgoing' = Outgoing
  BY DEF Shift, Outgoing
<1>4. (txFifo \o Outgoing)' = Tail(txFifo \o Outgoing) /\ wire' = Head(txFifo \o Outgoing)
  BY <1>2, <1>3 DEF Shift
<1>. QED BY <1>2, <1>4 DEF Output!Take, Outgoing

LEMMA OutputStep ==
    ChannelInv /\ ChannelInv' /\ [Next]_vars => [Output!Next]_<<txFifo \o Outgoing, wire, TRUE>>
<1>. SUFFICES ASSUME ChannelInv, ChannelInv', [Next]_vars
     PROVE  [Output!Next]_<<txFifo \o Outgoing, wire, TRUE>>
  OBVIOUS
<1>. DEFINE Stays == UNCHANGED <<outputQueue, txIn, txOut, txFifo, wire>>
            Keeps == task = "sent" <=> task' = "sent"
<1>1. Stays /\ Keeps => UNCHANGED <<txFifo \o Outgoing, wire, TRUE>>
  BY OutputFrame
<1>2. CASE DrainQueue
  BY <1>2, OutputDrain
<1>3. CASE Sent
  BY <1>3, OutputSent
<1>4. CASE Call \/ AwaitIdle \/ Enter \/ Mask \/ Read \/ Load \/ Taken \/ Arm \/ Unlock \/ Unmask
                \/ Sleep \/ Wake
  <2>1. Stays /\ Keeps
    BY <1>4 DEF Call, AwaitIdle, Enter, Mask, Read, Load, Taken, Arm, Unlock, Unmask, Sleep, Wake
  <2>. QED BY <1>1, <2>1
<1>5. CASE Lock
  <2>1. Stays /\ Keeps
    BY <1>5 DEF Lock, ChannelInv, TypeInv, Loop
  <2>. QED BY <1>1, <2>1
<1>6. CASE Interrupt \/ Acquire \/ Receive \/ ReleaseAndReturn \/ Arrive \/ UNCHANGED vars
  <2>1. Stays /\ Keeps
    BY <1>6 DEF Interrupt, Acquire, Receive, ReleaseAndReturn, Arrive, vars
  <2>. QED BY <1>1, <2>1
<1>7. CASE Transmit
  BY <1>7, OutputTransmit
<1>8. CASE Store
  BY <1>8, OutputStore
<1>9. CASE Stored
  BY <1>9, OutputStored DEF Output!Next
<1>10. CASE Shift
  BY <1>10, OutputShift DEF Output!Next
<1>. QED BY <1>2, <1>3, <1>4, <1>5, <1>6, <1>7, <1>8, <1>9, <1>10 DEF Next, Task, Handler

\* The output of the console is a channel that loses nothing: every character a write
\* accepts goes out on the line once and in order, whichever of the drain and the
\* handler sends it.
THEOREM OutputImplementsChannel == Spec => OutputIsChannel
<1>1. Init => txFifo \o Outgoing = <<>> /\ wire = None
  <2>. SUFFICES ASSUME Init PROVE Outgoing = <<>> /\ txFifo = <<>> /\ wire = None
    BY EmptySeq, ConcatEmptySeq
  <2>1. TypeInv /\ task # "sent" /\ txIn = 0 /\ txOut = 0 /\ txFifo = <<>> /\ wire = None
    BY TypeInvInit DEF Init
  <2>2. Outgoing \in Seq(Printed \union {None}) /\ Outgoing = Contents(outputQueue, txIn, txOut)
    BY <2>1, OutgoingIs DEF OutgoingCorrect
  <2>3. Length(txIn, txOut) = 0
    BY <2>1, ConsoleAssumption DEF Length
  <2>4. Len(Outgoing) = 0
    BY <2>1, <2>2, <2>3, OutputTypes, ContentsAre
  <2>. QED BY <2>1, <2>2, <2>4, EmptySeq
<1>2. Init => Output!Init
  BY <1>1 DEF Output!Init, Outgoing
<1>3. ChannelInv /\ ChannelInv' /\ [Next]_vars =>
         [Output!Next]_<<txFifo \o Rest(outputQueue, txIn, txOut, task = "sent"), wire, TRUE>>
  BY OutputStep DEF Outgoing
<1>. QED BY <1>2, <1>3, ChannelInvHolds, PTL DEF Spec, OutputIsChannel, Output!Spec
=============================================================================
