-------------------------------- MODULE Timer --------------------------------
(***************************************************************************)
(* The periodic timer: the processor's counter and its alarm, relative to  *)
(* each other.                                                             *)
(***************************************************************************)
EXTENDS Interrupts

CONSTANTS
    Period,     \* cntfrq / HZ
    MaxLate     \* bound on the time an alarm stays unserved

ASSUME TimerAssumption == Period \in Nat \ {0} /\ MaxLate \in Nat

VARIABLES
    connected,             \* init was called
    clockTicksPerHzTick,   \* 0 until init sets it
    on,                    \* cntp_ctl, which nothing turns off again
    ahead,                 \* cntp_cval - cntpct
    phase,                 \* history: time since init, modulo the period
    due                    \* history: periods since init less runs of the handler

history == <<phase, due>>
timer == <<connected, clockTicksPerHzTick, on, ahead, history>>

TimerStart ==
    /\ connected = FALSE /\ clockTicksPerHzTick = 0
    /\ on = FALSE /\ ahead = 0 /\ phase = 0 /\ due = 0

Clock(op) == [op |-> op]

\* init and disconnect do nothing the second time.
TimerInit ==
    IF connected THEN <<>>
    ELSE <<Clock("connected")>> \o Connect("timer")
         \o <<Clock("period"), Clock("alarm"), Clock("run")>>
TimerDisconnect ==
    IF connected THEN Disconnect("timer") \o <<Clock("disconnected")>> ELSE <<>>

TimerStatement(s) ==
    \/ /\ s.op \in {"connected", "disconnected"}
       /\ connected' = (s.op = "connected")
       /\ UNCHANGED <<clockTicksPerHzTick, on, ahead, history>>
    \/ /\ s.op = "period"
       /\ clockTicksPerHzTick' = Period
       /\ UNCHANGED <<connected, on, ahead, history>>
    \/ /\ s.op = "alarm"
       /\ ahead' = clockTicksPerHzTick /\ phase' = 0 /\ due' = 0
       /\ UNCHANGED <<connected, clockTicksPerHzTick, on>>
    \/ /\ s.op = "run"
       /\ on' = TRUE
       /\ UNCHANGED <<connected, clockTicksPerHzTick, ahead, history>>

\* A variant that counts the next period from now.
RearmFromNow ==
    /\ ahead' = clockTicksPerHzTick
    /\ due' = due - 1
    /\ UNCHANGED <<connected, clockTicksPerHzTick, on, phase>>

\* The handler: the next alarm is a period after the last one, however late it runs.
Rearm ==
    /\ ahead' = ahead + clockTicksPerHzTick
    /\ due' = due - 1
    /\ UNCHANGED <<connected, clockTicksPerHzTick, on, phase>>

AlarmPending == on /\ ahead <= 0

TimePasses ==
    /\ on /\ -MaxLate < ahead
    /\ ahead' = ahead - 1
    /\ phase' = (phase + 1) % Period
    /\ due' = IF phase' = 0 THEN due + 1 ELSE due
    /\ UNCHANGED <<connected, clockTicksPerHzTick, on>>

\* However long interrupts were masked no period is lost and none counted twice: the
\* handler has run at most once for each that has passed, and an alarm is pending until it
\* has run for all of them.
TicksAreKept == on => due >= 0 /\ (AlarmPending <=> due > 0)
=============================================================================
