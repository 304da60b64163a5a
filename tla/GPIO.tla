-------------------------------- MODULE GPIO --------------------------------
(***************************************************************************)
(* Pins, their registers and the manager that serves their interrupts.     *)
(*                                                                         *)
(* A register of event sources holds a bit for each of many pins: a call    *)
(* reads it, changes its pin's bit and writes it back, under the spinlock,  *)
(* which masks interrupts.  A call is the sequence of its statements.       *)
(***************************************************************************)
EXTENDS Interrupts, FiniteSets

CONSTANTS
    Pins,    \* pin numbers
    Kinds    \* the kinds of event a pin can be set to detect

Unknown == "Unknown"
Inputs == {"Input", "InputPullUp", "InputPullDown"}
NoPin == -1

ASSUME PinAssumption ==
    IsFiniteSet(Pins) /\ Pins \subseteq 0 .. 53 /\ Unknown \notin Kinds

VARIABLES
    pin,             \* of each pin: the members of Pin, and its fields in GPFSEL and GPPUPPDN
    pins,            \* Manager::pins: the pins that are connected
    irqConnected,
    sources,         \* GPREN, GPFEN, ...: for each kind of event, the pins that detect it
    latched,         \* GPEDS: the pins with an event
    masked,          \* the spinlock is held
    copy,            \* the register a call has read
    serving,         \* the pin interruptHandler has found
    returned,        \* its handler has returned
    fresh            \* history: pins with an event since their handler last started

manager == <<irqConnected, serving, returned>>
events == <<sources, latched, fresh>>
gpio == <<pin, pins, manager, events, masked, copy>>

GPIOInit ==
    /\ pin = [p \in Pins |-> [mode |-> Unknown, handler |-> FALSE, autoAck |-> FALSE,
                              interrupt |-> Unknown, interrupt2 |-> Unknown,
                              select |-> "input", pull |-> "Off"]]
    /\ pins = {} /\ irqConnected = FALSE /\ serving = NoPin /\ returned = FALSE
    /\ sources = [k \in Kinds |-> {}] /\ latched = {} /\ fresh = {}
    /\ masked = FALSE /\ copy = {}

-----------------------------------------------------------------------------
(* Calls. *)

Set(p, field, value) == [op |-> "set", pin |-> p, field |-> field, value |-> value]
Slot(p, on) == [op |-> "slot", pin |-> p, on |-> on]
Fetch(p, k) == [op |-> "fetch", pin |-> p, kind |-> k]
Detect(p, k, on) == [op |-> "detect", pin |-> p, kind |-> k, on |-> on]

\* A variant that changes the register without the spinlock.
UpdateUnlocked(p, k, on) == <<Fetch(p, k), Detect(p, k, on)>>

\* Read, change and write back a register of event sources.
Update(p, k, on) == <<[op |-> "lock"], Fetch(p, k), Detect(p, k, on), [op |-> "unlock"]>>

SetPull(p, state) == <<Set(p, "pull", state)>>
SetAlternateFunction(p, n) == <<Set(p, "select", <<"alternate", n>>)>>

\* setMode.  The bit of an output is set and then cleared with the rest of the field, so
\* that the pin stays an input.
SetMode(p, m) ==
    LET mode == <<Set(p, "mode", m)>>
        select == <<Set(p, "select", "input")>>
    IN  CASE m = "Input" -> mode \o select \o SetPull(p, "Off")
          [] m = "InputPullUp" -> mode \o select \o SetPull(p, "Up")
          [] m = "InputPullDown" -> mode \o select \o SetPull(p, "Down")
          [] m = "Output" -> mode \o SetPull(p, "Off") \o select
          [] m = "AlternateFunction0" -> mode \o SetPull(p, "Off") \o SetAlternateFunction(p, 0)

ConnectPin(p, auto) == <<Set(p, "handler", TRUE), Set(p, "autoAck", auto), Slot(p, TRUE)>>
DisconnectPin(p) == <<Set(p, "handler", FALSE), Slot(p, FALSE)>>

\* enable and enable2 note what the pin expects before they change the register,
\* disableInterrupt and disableInterrupt2 forget it afterwards.  A pin that expects none
\* clears its bit in the register behind those of event sources, which nothing reads.
Enable(p, field, k) == <<Set(p, field, k)>> \o Update(p, k, TRUE)
Disable(p, field) ==
    (IF pin[p][field] = Unknown THEN <<>> ELSE Update(p, pin[p][field], FALSE))
    \o <<Set(p, field, Unknown)>>

\* Manager::init.
ManagerInit == Connect("gpio") \o <<[op |-> "irqConnected"]>>

\* The calls a program may make of a pin: those whose assertions hold.  setMode has none
\* that looks at what the pin is used for; every other call wants it to be an input.
PinCalls(p, modes) ==
    LET self == pin[p]
        input == self.mode \in Inputs
        fields == {"interrupt", "interrupt2"}
        unused == {f \in fields : self[f] = Unknown}
        idle == unused = fields
    IN  {SetMode(p, m) : m \in modes}
        \union (IF input /\ idle /\ ~self.handler /\ irqConnected
                THEN {ConnectPin(p, auto) : auto \in BOOLEAN} ELSE {})
        \union (IF input /\ idle /\ self.handler THEN {DisconnectPin(p)} ELSE {})
        \union (IF input /\ self.handler
                THEN {Enable(p, f, k) : f \in unused, k \in Kinds \ {self.interrupt, self.interrupt2}}
                ELSE {})
        \union (IF input THEN {Disable(p, f) : f \in fields} ELSE {})

\* The pins that share their registers of event sources with p.
Bank(p) == {q \in Pins : q \div 32 = p \div 32}

PinStatement(s) ==
    \/ /\ s.op = "set"
       /\ pin' = [pin EXCEPT ![s.pin][s.field] = s.value]
       /\ UNCHANGED <<pins, manager, events, masked, copy>>
    \/ /\ s.op = "slot"
       /\ pins' = IF s.on THEN pins \union {s.pin} ELSE pins \ {s.pin}
       /\ UNCHANGED <<pin, manager, events, masked, copy>>
    \/ /\ s.op = "irqConnected"
       /\ irqConnected' = TRUE
       /\ UNCHANGED <<pin, pins, serving, returned, events, masked, copy>>
    \/ /\ s.op \in {"lock", "unlock"}
       /\ masked' = (s.op = "lock")
       /\ UNCHANGED <<pin, pins, manager, events, copy>>
    \/ /\ s.op = "fetch"
       /\ copy' = sources[s.kind] \cap Bank(s.pin)
       /\ UNCHANGED <<pin, pins, manager, events, masked>>
    \/ /\ s.op = "detect"
       /\ sources' = [sources EXCEPT ![s.kind] =
                         (@ \ Bank(s.pin)) \union
                         IF s.on THEN copy \union {s.pin} ELSE copy \ {s.pin}]
       /\ copy' = {}
       /\ fresh' = IF s.on THEN fresh ELSE fresh \ {s.pin}
       /\ UNCHANGED <<pin, pins, manager, latched, masked>>

-----------------------------------------------------------------------------
(* Events and the handler of their interrupt. *)

\* The pin has an event of a kind it is set to detect.
Event(p) ==
    /\ \E k \in Kinds : p \in sources[k]
    /\ latched' = latched \union {p}
    /\ fresh' = fresh \union {p}
    /\ UNCHANGED <<pin, pins, manager, sources, masked, copy>>

\* disableAllInterrupts: its loop ends in front of the last register of the second bank.
Silenced(p) ==
    [k \in Kinds |-> IF k = "AsyncFallingEdge" /\ p >= 32 THEN sources[k] ELSE sources[k] \ {p}]

\* Manager::interruptHandler up to the call of the first pin that has an event.
Assertions(p) ==
    IF ~irqConnected THEN "irqConnected"
    ELSE IF p \notin pins THEN "none"
    ELSE IF pin[p].mode \notin Inputs THEN "mode"
    ELSE IF pin[p].interrupt = Unknown /\ pin[p].interrupt2 = Unknown THEN "interrupt"
    ELSE IF ~pin[p].handler THEN "handler"
    ELSE "none"

Find(p) ==
    /\ p \in latched /\ \A q \in latched : p <= q
    /\ failed' = Assertions(p)
    /\ \/ Assertions(p) # "none" /\ UNCHANGED gpio
       \/ /\ Assertions(p) = "none" /\ p \notin pins
          /\ sources' = Silenced(p) /\ latched' = latched \ {p} /\ fresh' = fresh \ {p}
          /\ UNCHANGED <<pin, pins, manager, masked, copy>>
       \/ /\ Assertions(p) = "none" /\ p \in pins
          /\ serving' = p /\ returned' = FALSE
          /\ UNCHANGED <<pin, pins, irqConnected, events, masked, copy>>

\* The handler of the pin: one that acknowledges the event itself does so first.  It
\* may turn an interrupt of its pin off, unless it interrupted a call on that pin.
Serve(p, mayDisable) ==
    /\ serving = p /\ ~returned
    /\ returned' = TRUE
    /\ fresh' = fresh \ {p}
    /\ latched' = IF pin[p].autoAck THEN latched ELSE latched \ {p}
    /\ \/ UNCHANGED <<pin, sources>>
       \/ \E f \in {"interrupt", "interrupt2"} :
             /\ mayDisable /\ pin[p][f] # Unknown
             /\ sources' = [sources EXCEPT ![pin[p][f]] = @ \ {p}]
             /\ pin' = [pin EXCEPT ![p][f] = Unknown]
    /\ UNCHANGED <<pins, irqConnected, serving, masked, copy>>

\* A variant of the end of Manager::interruptHandler that acknowledges every event.
AcknowledgeAll(p) ==
    /\ serving = p /\ returned
    /\ latched' = latched \ {p}
    /\ serving' = NoPin /\ returned' = FALSE
    /\ UNCHANGED <<pin, pins, irqConnected, sources, fresh, masked, copy>>

\* Its end: the event is acknowledged for pins that leave that to the manager.
Acknowledge(p) ==
    /\ serving = p /\ returned
    /\ latched' = IF pin[p].autoAck THEN latched \ {p} ELSE latched
    /\ serving' = NoPin /\ returned' = FALSE
    /\ UNCHANGED <<pin, pins, irqConnected, sources, fresh, masked, copy>>
=============================================================================
