-------------------------------- MODULE Board --------------------------------
(***************************************************************************)
(* The board: one program, which asks for property tags at boot and then   *)
(* uses the timer and the pins, the interrupts that come between its        *)
(* statements, and the devices that raise them.                             *)
(*                                                                         *)
(* An interrupt is taken at any time after its line is pending.  Its        *)
(* handler runs with interrupts masked: between its steps only devices move.*)
(***************************************************************************)
EXTENDS GPIO, Timer, Mailbox

CONSTANTS
    PinModes,    \* of each pin: the modes the program gives it
    Boot         \* the tags it asks for first, in order

ASSUME BoardAssumption ==
    /\ Lines = {"timer", "gpio"}
    /\ Boot \in Seq(Tags)
    /\ PinModes \in [Pins -> SUBSET (Inputs \union {"Output", "AlternateFunction0"})]

VARIABLES
    booting,    \* the tags still to be asked for
    todo        \* the statements the program's current call still has to make

program == <<booting, todo>>
vars == <<table, failed, gpio, timer, mail, program>>

Init ==
    /\ TableInit /\ GPIOInit /\ TimerStart /\ MailInit
    /\ booting = Boot /\ todo = <<>>

Runs == failed = "none"
Idle == serving = NoPin

-----------------------------------------------------------------------------
(* The program. *)

\* UART::init and main() ask for the clock rate, the memory and the board.
AskForTag ==
    /\ booting # <<>> /\ todo = <<>>
    /\ GetTag(Head(booting))
    /\ booting' = Tail(booting)
    /\ UNCHANGED <<table, failed, gpio, timer, todo>>

AskStep ==
    /\ Kernel
    /\ UNCHANGED <<table, failed, gpio, timer, program>>

\* Any call whose assertions hold.
Calls ==
    {TimerInit, TimerDisconnect}
    \union (IF irqConnected THEN {} ELSE {ManagerInit})
    \union UNION {PinCalls(p, PinModes[p]) : p \in Pins}

Call ==
    /\ booting = <<>> /\ step = "idle" /\ todo = <<>>
    /\ todo' \in Calls
    /\ UNCHANGED <<table, failed, gpio, timer, mail, booting>>

Statement ==
    /\ todo # <<>>
    /\ todo' = Tail(todo)
    /\ \/ TableStatement(Head(todo)) /\ UNCHANGED <<gpio, timer>>
       \/ PinStatement(Head(todo)) /\ UNCHANGED <<table, timer>>
       \/ TimerStatement(Head(todo)) /\ UNCHANGED <<table, gpio>>
    /\ UNCHANGED <<failed, mail, booting>>

Program == Idle /\ (AskForTag \/ AskStep \/ Call \/ Statement)

-----------------------------------------------------------------------------
(* Interrupts. *)

\* The pins the program's current call is about.
Busy == {todo[i].pin : i \in {j \in 1 .. Len(todo) : "pin" \in DOMAIN todo[j]}}

TimerInterrupt ==
    /\ AlarmPending
    /\ CallIRQHandler("timer")
    /\ IF "timer" \in handlers THEN Rearm ELSE UNCHANGED timer
    /\ UNCHANGED <<table, gpio, mail, program>>

GPIOInterrupt ==
    /\ latched # {}
    /\ "gpio" \in enabled
    /\ \E p \in latched : Find(p)
    /\ UNCHANGED <<table, timer, mail, program>>

HandlePin ==
    /\ \E p \in Pins : Serve(p, p \notin Busy) \/ Acknowledge(p)
    /\ UNCHANGED <<table, failed, timer, mail, program>>

Interrupt ==
    \/ Idle /\ ~masked /\ (TimerInterrupt \/ GPIOInterrupt)
    \/ HandlePin

-----------------------------------------------------------------------------
(* Devices. *)

Devices ==
    \/ (\E p \in Pins : Event(p)) /\ UNCHANGED <<table, failed, timer, mail, program>>
    \/ TimePasses /\ UNCHANGED <<table, failed, gpio, mail, program>>
    \/ Firmware /\ UNCHANGED <<table, failed, gpio, timer, program>>

Next == Runs /\ (Program \/ Interrupt \/ Devices)

Spec == Init /\ [][Next]_vars

-----------------------------------------------------------------------------

\* Of the assertions on the way from the controller to a pin's handler two can fail: that
\* the pin is an input, after a setMode of a pin that is connected, and that it expects an
\* event, for one that was latched before the pin was told to detect none and is handled
\* after.  But however calls and events interleave no line is enabled without a handler,
\* and no pin is called without one.
NoHandlerMissing == failed \in {"none", "mode", "interrupt"}

\* However calls and handlers interleave, no bit of a shared register is lost: but for
\* the pins a call is busy with, the hardware detects exactly what each pin expects.
SourcesMatchPins ==
    \A p \in Pins \ Busy :
        {k \in Kinds : p \in sources[k]} = {pin[p].interrupt, pin[p].interrupt2} \ {Unknown}

\* An event of a pin that acknowledges its own events stays latched until its handler
\* has started after it.
EventsAreServed == \A p \in pins : ~pin[p].autoAck /\ p \in fresh => p \in latched
=============================================================================
