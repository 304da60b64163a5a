----------------------------- MODULE Interrupts -----------------------------
(***************************************************************************)
(* The interrupt controller as IRQ.cpp programs it, and its table of       *)
(* handlers.  The table has an entry for every line here; the array in the *)
(* code has 72, fewer than there are lines.                                *)
(*                                                                         *)
(* A call is the sequence of its statements, each a step an interrupt may  *)
(* come before.                                                            *)
(***************************************************************************)
EXTENDS Integers, Sequences

CONSTANT Lines

VARIABLES
    handlers,    \* the lines that have a handler
    enabled,     \* the lines the controller passes on (GICD_ISENABLER)
    failed       \* the assertion that failed, after which the kernel stops

table == <<handlers, enabled>>

\* What init leaves: every line disabled and no handler for any.
TableInit == handlers = {} /\ enabled = {} /\ failed = "none"

Table(op, line) == [op |-> op, line |-> line]

\* A variant that enables the line first.
ConnectEarly(line) == <<Table("enable", line), Table("store", line)>>

\* connect and disconnect, after their assertions.
Connect(line) == <<Table("store", line), Table("enable", line)>>
Disconnect(line) == <<Table("disable", line), Table("clear", line)>>

TableStatement(s) ==
    \/ s.op = "store" /\ handlers' = handlers \union {s.line} /\ UNCHANGED enabled
    \/ s.op = "enable" /\ enabled' = enabled \union {s.line} /\ UNCHANGED handlers
    \/ s.op = "disable" /\ enabled' = enabled \ {s.line} /\ UNCHANGED handlers
    \/ s.op = "clear" /\ handlers' = handlers \ {s.line} /\ UNCHANGED enabled

\* InterruptHandler and callIRQHandler: a line without a handler is disconnected, which
\* asserts that it has one.  (A spurious interrupt reads no line and changes nothing.)
CallIRQHandler(line) ==
    /\ line \in enabled
    /\ failed' = IF line \in handlers THEN failed ELSE "handlers[irq]"
=============================================================================
