------------------------------ MODULE BoardProofs ------------------------------
(*****************************************************************************)
(* Theorems about the board, for every set of pins and kinds of event,       *)
(* every period and every set of tags: the timer loses no period, a property *)
(* tag gets its own answer, and no event of a pin is lost, whatever else the *)
(* program and the interrupts do.                                            *)
(*                                                                           *)
(* For the pins, a call that changes a shared register is followed statement *)
(* by statement: at each place it is known what the pin expects and what the *)
(* hardware detects for it, and the handler can only come where it finds     *)
(* them sound.                                                               *)
(*****************************************************************************)
EXTENDS Board, SequenceTheorems, TLAPS

-----------------------------------------------------------------------------
(* Which steps move the mail. *)

LEMMA MailSteps ==
    ASSUME [Next]_vars
    PROVE  \/ \E tag : GetTag(tag)
           \/ Kernel
           \/ Firmware
           \/ UNCHANGED mail
<1>1. CASE UNCHANGED vars
  BY <1>1 DEF vars
<1>2. CASE Program
  BY <1>2 DEF Program, AskForTag, AskStep, Call, Statement
<1>3. CASE Interrupt
  BY <1>3 DEF Interrupt, TimerInterrupt, GPIOInterrupt, HandlePin
<1>4. CASE Devices
  BY <1>4 DEF Devices
<1> QED
  BY <1>1, <1>2, <1>3, <1>4 DEF Next

-----------------------------------------------------------------------------
(* The mail. *)

Question == [channel |-> CHANNEL_OUT, data |-> Buffer]

\* The page holds an answer to what is asked.
Answered ==
    /\ page.value \in Answers(request)
    /\ page.code = "success" \/ request \notin KnownTags

Foreign(box) == \A i \in 1 .. Len(box) : box[i].channel # CHANNEL_OUT

MailType ==
    /\ inbox \in Seq(Messages) /\ outbox \in Seq(Messages)
    /\ page = [code |-> page.code, tag |-> page.tag, value |-> page.value]
    /\ step \in {"idle", "compose", "flush", "write", "read", "check"}

\* Nothing is under way but the question of the current call; from the end of flush on
\* a message on its channel is the answer to it.
MailInv ==
    /\ MailType
    /\ outbox # <<>> => step = "read" /\ outbox = <<Question>> /\ Foreign(inbox)
    /\ step \in {"flush", "write", "read", "check"} => page.tag = request
    /\ step \in {"flush", "write"} \/ outbox # <<>> => page.value = Asked(request)
    /\ step = "write" => Foreign(inbox)
    /\ step = "read" =>
          Foreign(inbox)
          \/ (Answered /\ \A i \in 1 .. Len(inbox) :
                 inbox[i].channel = CHANNEL_OUT => inbox[i].data = Buffer)
    /\ step = "check" => reply = Buffer /\ Answered
    /\ step = "idle" => reply \in Answers(request)

LEMMA AskedMail ==
    ASSUME MailInv, NEW tag, GetTag(tag)
    PROVE  MailInv'
BY DEF MailInv, MailType, GetTag

LEMMA KernelMail ==
    ASSUME MailInv, Kernel
    PROVE  MailInv'
<1>1. CASE Compose
  BY <1>1 DEF MailInv, MailType, Compose
<1>2. CASE Flush
  <2>1. CASE inbox # <<>> /\ inbox' = Tail(inbox) /\ UNCHANGED step
    BY <1>2, <2>1 DEF MailInv, MailType, Flush
  <2>2. CASE inbox = <<>> /\ step' = "write" /\ UNCHANGED inbox
    BY <1>2, <2>2 DEF MailInv, MailType, Flush, Foreign
  <2> QED
    BY <1>2, <2>1, <2>2 DEF Flush
<1>3. CASE WriteMail
  <2>1. outbox = <<>> /\ Foreign(inbox) /\ page.tag = request
    BY <1>3 DEF MailInv, WriteMail
  <2>2. Question \in Messages
    BY DEF Question, Messages
  <2>3. outbox' = <<Question>> /\ outbox' \in Seq(Messages)
    BY <1>3, <2>1, <2>2 DEF WriteMail, Question
  <2> QED
    BY <1>3, <2>1, <2>3 DEF MailInv, MailType, WriteMail, Foreign
<1>4. CASE ReadMail
  <2>1. inbox # <<>> /\ step = "read" /\ inbox' = Tail(inbox) /\ UNCHANGED <<outbox, page, request>>
    BY <1>4 DEF ReadMail
  <2>2. /\ inbox' \in Seq(Messages) /\ Len(inbox') = Len(inbox) - 1 /\ Len(inbox) \in Nat \ {0}
        /\ \A i \in 1 .. Len(inbox') : i + 1 \in 1 .. Len(inbox) /\ inbox'[i] = inbox[i + 1]
        /\ Head(inbox) = inbox[1]
    BY <2>1 DEF MailInv, MailType
  <2>3. CASE /\ Head(inbox).channel = CHANNEL_OUT
             /\ reply' = Head(inbox).data /\ step' = "check"
    <3>1. ~Foreign(inbox)
      BY <2>2, <2>3 DEF Foreign
    <3>2. Answered /\ Head(inbox).data = Buffer /\ outbox = <<>> /\ page.tag = request
      BY <2>1, <2>2, <2>3, <3>1 DEF MailInv
    <3> QED
      BY <2>1, <2>2, <2>3, <3>2 DEF MailInv, MailType, Answered
  <2>4. CASE UNCHANGED <<reply, step>>
    <3>1. Foreign(inbox) => Foreign(inbox')
      BY <2>2 DEF Foreign
    <3> QED
      BY <2>1, <2>2, <2>4, <3>1 DEF MailInv, MailType, Answered
  <2> QED
    BY <1>4, <2>3, <2>4 DEF ReadMail
<1>5. CASE Check
  <2>1. reply = Buffer /\ Answered /\ outbox = <<>>
    BY <1>5 DEF MailInv, Check
  <2>2. reply' \in Answers(request)
    BY <1>5, <2>1 DEF Check, Answered, Answers
  <2> QED
    BY <1>5, <2>1, <2>2 DEF MailInv, MailType, Check, Answers, Asked
<1> QED
  BY <1>1, <1>2, <1>3, <1>4, <1>5 DEF Kernel

LEMMA FirmwareMail ==
    ASSUME MailInv, Firmware
    PROVE  MailInv'
<1>1. CASE Respond
  <2>1. outbox = <<Question>> /\ step = "read" /\ Foreign(inbox) /\ page.tag = request
        /\ page.value = Asked(request)
    BY <1>1 DEF MailInv, Respond
  <2>2. Question \in Messages
    BY DEF Question, Messages
  <2>3. outbox' = <<>> /\ inbox' = Append(inbox, Question)
    <3>1. outbox' = Tail(outbox) /\ inbox' = Append(inbox, Head(outbox))
      BY <1>1 DEF Respond
    <3> QED
      BY <2>1, <3>1
  <2>4. /\ inbox' \in Seq(Messages)
        /\ \A i \in 1 .. Len(inbox') : inbox'[i].channel = CHANNEL_OUT => inbox'[i].data = Buffer
    BY <2>1, <2>2, <2>3 DEF MailInv, MailType, Foreign, Question
  <2>5. /\ page' = [code |-> page'.code, tag |-> page'.tag, value |-> page'.value]
        /\ page'.tag = page.tag /\ page'.value = Answer(page.tag, page.value)
        /\ page'.code = "success" \/ page.tag \notin KnownTags
    BY <1>1 DEF Respond, MailInv, MailType
  <2>6. Answered' /\ UNCHANGED <<request, step, reply>>
    BY <1>1, <2>1, <2>5 DEF Respond, Answered, Answer, Answers
  <2> QED
    BY <2>1, <2>3, <2>4, <2>5, <2>6 DEF MailInv, MailType
<1>2. CASE Notify
  <2> DEFINE notice == [channel |-> OtherChannel, data |-> Buffer]
  <2>1. inbox' = Append(inbox, notice) /\ UNCHANGED <<outbox, page, request, step, reply>>
    BY <1>2 DEF Notify
  <2>2. notice \in Messages /\ notice.channel # CHANNEL_OUT
    BY MailboxAssumption DEF Messages
  <2> HIDE DEF notice
  <2>3. /\ inbox' \in Seq(Messages)
        /\ \A i \in 1 .. Len(inbox') : (i \in 1 .. Len(inbox) /\ inbox'[i] = inbox[i]) \/ inbox'[i] = notice
    BY <2>1, <2>2 DEF MailInv, MailType
  <2>4. Foreign(inbox) => Foreign(inbox')
    BY <2>2, <2>3 DEF Foreign
  <2> QED
    BY <2>1, <2>2, <2>3, <2>4 DEF MailInv, MailType, Answered
<1> QED
  BY <1>1, <1>2 DEF Firmware

\* The property of the board run, for every set of tags, depth of the mailboxes and
\* number of messages left in them or sent in between: getTag returns the firmware's
\* answer to its own request if the firmware knows the tag, and otherwise fails or, for a
\* tag that is sent with a value, returns that value.
THEOREM OwnAnswers == Spec => []TagsAreAnswered
<1>1. Init => MailInv
  <2> SUFFICES ASSUME Init PROVE MailInv
    OBVIOUS
  <2>1. inbox \in Seq(Messages)
    <3>1. CASE inbox = <<>>
      BY <3>1
    <3>2. CASE \E m \in Messages : inbox = <<m>>
      BY <3>2
    <3> QED
      BY <3>1, <3>2 DEF Init, MailInit
  <2>2. reply \in Answers(request)
    <3>1. reply = "none" /\ request = "none"
      BY DEF Init, MailInit
    <3> QED
      BY <3>1 DEF Answers
  <2> QED
    BY <2>1, <2>2 DEF Init, MailInit, MailInv, MailType
<1>2. MailInv /\ [Next]_vars => MailInv'
  <2> SUFFICES ASSUME MailInv, [Next]_vars PROVE MailInv'
    OBVIOUS
  <2>1. CASE UNCHANGED mail
    BY <2>1 DEF mail, MailInv, MailType, Foreign, Answered, Answers, Asked
  <2> QED
    BY <2>1, AskedMail, KernelMail, FirmwareMail, MailSteps
<1>3. MailInv => TagsAreAnswered
  BY DEF MailInv, TagsAreAnswered
<1> QED
  BY <1>1, <1>2, <1>3, PTL DEF Spec

-----------------------------------------------------------------------------
(* The pins: the invariant. *)

Fields == {"mode", "handler", "autoAck", "interrupt", "interrupt2", "select", "pull"}
Values ==
    BOOLEAN \union Kinds \union Inputs \union {"Output", "AlternateFunction0"}
    \union {Unknown, "input", "Off", "Up", "Down", <<"alternate", 0>>}

PinType ==
    /\ pin \in [Pins -> [Fields -> Values]]
    /\ \A p \in Pins : /\ pin[p].interrupt \in Kinds \union {Unknown}
                       /\ pin[p].interrupt2 \in Kinds \union {Unknown}
                       /\ pin[p].handler \in BOOLEAN /\ pin[p].autoAck \in BOOLEAN
    /\ sources \in [Kinds -> SUBSET Pins]
    /\ pins \subseteq Pins /\ latched \subseteq Pins /\ fresh \subseteq Pins
    /\ serving \in Pins \union {NoPin}

\* Statements of calls that change no register of event sources and connect no pin.
Modes == {Set(p, f, v) : p \in Pins, f \in {"mode", "select", "pull"}, v \in Values}
Plain ==
    {Table(op, line) : op \in {"store", "enable", "disable", "clear"}, line \in Lines}
    \union {Clock(op) : op \in {"connected", "disconnected", "period", "alarm", "run"}}
    \union {[op |-> "irqConnected"]}
    \union Modes

IntFields == {"interrupt", "interrupt2"}
Lock == [op |-> "lock"]
Unlock == [op |-> "unlock"]

\* The hardware detects of p what p expects; or all of it but k.
Agrees(p) ==
    \A k \in Kinds : p \in sources[k] <=> (pin[p].interrupt = k \/ pin[p].interrupt2 = k)
Lacks(p, k) ==
    \A j \in Kinds : p \in sources[j] <=> (j # k /\ (pin[p].interrupt = j \/ pin[p].interrupt2 = j))

Distinct(p) == pin[p].interrupt = pin[p].interrupt2 => pin[p].interrupt = Unknown

Listens(p) == p \in pins /\ pin[p].handler

\* Only connected pins with a handler expect or detect anything, and what a pin expects
\* twice is nothing.
PinsAreSound ==
    /\ \A p \in Pins : Distinct(p)
    /\ \A p \in Pins : pin[p].interrupt # Unknown \/ pin[p].interrupt2 # Unknown => Listens(p)
    /\ \A p \in Pins, k \in Kinds : p \in sources[k] => Listens(p)
    /\ masked => serving = NoPin
    /\ ~irqConnected => pins = {} /\ latched = {}
    /\ \A p \in fresh : \E k \in Kinds : p \in sources[k]
    /\ EventsAreServed

Matched(Q) == \A q \in Q : Agrees(q)
Known(Q) == \A q \in Q : pin[q].handler <=> q \in pins

\* Where an enabling call is, or a disabling one.
Enabling(p, f, k) ==
    /\ Listens(p) /\ Known(Pins) /\ Matched(Pins \ {p})
    /\ \/ /\ todo = <<Set(p, f, k), Lock, Fetch(p, k), Detect(p, k, TRUE), Unlock>>
          /\ ~masked /\ Agrees(p) /\ pin[p][f] = Unknown
          /\ pin[p].interrupt # k /\ pin[p].interrupt2 # k
       \/ /\ todo = <<Lock, Fetch(p, k), Detect(p, k, TRUE), Unlock>>
          /\ ~masked /\ Lacks(p, k) /\ pin[p][f] = k
       \/ /\ todo = <<Fetch(p, k), Detect(p, k, TRUE), Unlock>>
          /\ masked /\ Lacks(p, k) /\ pin[p][f] = k
       \/ /\ todo = <<Detect(p, k, TRUE), Unlock>>
          /\ masked /\ Lacks(p, k) /\ pin[p][f] = k /\ copy = sources[k] \cap Bank(p)

Disabling(p, f, k) ==
    /\ Listens(p) /\ Known(Pins) /\ Matched(Pins \ {p}) /\ pin[p][f] = k
    /\ \/ /\ todo = <<Lock, Fetch(p, k), Detect(p, k, FALSE), Unlock, Set(p, f, Unknown)>>
          /\ ~masked /\ Agrees(p)
       \/ /\ todo = <<Fetch(p, k), Detect(p, k, FALSE), Unlock, Set(p, f, Unknown)>>
          /\ masked /\ Agrees(p)
       \/ /\ todo = <<Detect(p, k, FALSE), Unlock, Set(p, f, Unknown)>>
          /\ masked /\ Agrees(p) /\ copy = sources[k] \cap Bank(p)
       \/ /\ todo = <<Unlock, Set(p, f, Unknown)>>
          /\ masked /\ Lacks(p, k)
       \/ /\ todo = <<Set(p, f, Unknown)>>
          /\ ~masked /\ Lacks(p, k)

Releasing == todo = <<Unlock>> /\ masked /\ Known(Pins) /\ Matched(Pins)

Connecting(p, auto) ==
    /\ p \notin pins /\ irqConnected /\ ~masked /\ Known(Pins \ {p}) /\ Matched(Pins)
    /\ \/ /\ todo = <<Set(p, "handler", TRUE), Set(p, "autoAck", auto), Slot(p, TRUE)>>
       \/ /\ todo = <<Set(p, "autoAck", auto), Slot(p, TRUE)>>
          /\ pin[p].handler
       \/ /\ todo = <<Slot(p, TRUE)>>
          /\ pin[p].handler

Disconnecting(p) ==
    /\ pin[p].interrupt = Unknown /\ pin[p].interrupt2 = Unknown
    /\ ~masked /\ Known(Pins \ {p}) /\ Matched(Pins)
    /\ \/ todo = <<Set(p, "handler", FALSE), Slot(p, FALSE)>> /\ p \in pins
       \/ todo = <<Slot(p, FALSE)>> /\ ~pin[p].handler

\* Where a disabling call is that finds nothing to disable.
Forgetting(p, f) ==
    /\ todo = <<Set(p, f, Unknown)>> /\ pin[p][f] = Unknown
    /\ ~masked /\ Known(Pins) /\ Matched(Pins)

Quiet == todo \in Seq(Plain) /\ ~masked /\ Known(Pins) /\ Matched(Pins)

Stage ==
    \/ Quiet
    \/ Releasing
    \/ \E p \in Pins, f \in IntFields, k \in Kinds : Enabling(p, f, k)
    \/ \E p \in Pins, f \in IntFields, k \in Kinds : Disabling(p, f, k)
    \/ \E p \in Pins, f \in IntFields : Forgetting(p, f)
    \/ \E p \in Pins, auto \in BOOLEAN : Connecting(p, auto)
    \/ \E p \in Pins : Disconnecting(p)

PinInv == PinType /\ PinsAreSound /\ Stage

-----------------------------------------------------------------------------
(* The pins: what a call leaves to be done. *)

LEMMA Joined ==
    ASSUME NEW a, NEW b, NEW c, NEW d, NEW e
    PROVE  /\ <<a>> \o <<b, c, d, e>> = <<a, b, c, d, e>>
           /\ <<a, b, c, d>> \o <<e>> = <<a, b, c, d, e>>
<1> DEFINE S == {a, b, c, d, e}
           x == <<a>> \o <<b, c, d, e>>
           y == <<a, b, c, d>> \o <<e>>
           z == <<a, b, c, d, e>>
<1>1. <<a>> \in Seq(S) /\ <<b, c, d, e>> \in Seq(S) /\ <<a, b, c, d>> \in Seq(S) /\ <<e>> \in Seq(S)
  OBVIOUS
<1>2. x \in Seq(S) /\ Len(x) = 5 /\ x[1] = a /\ x[2] = b /\ x[3] = c /\ x[4] = d /\ x[5] = e
  BY <1>1
<1>3. y \in Seq(S) /\ Len(y) = 5 /\ y[1] = a /\ y[2] = b /\ y[3] = c /\ y[4] = d /\ y[5] = e
  BY <1>1
<1>4. z \in Seq(S) /\ Len(z) = 5 /\ z[1] = a /\ z[2] = b /\ z[3] = c /\ z[4] = d /\ z[5] = e
  OBVIOUS
<1> HIDE DEF S, x, y, z
<1>5. \A i \in 1 .. 5 : x[i] = z[i] /\ y[i] = z[i]
  BY <1>2, <1>3, <1>4
<1>6. x = z
  BY <1>2, <1>4, <1>5, SeqEqual
<1>7. y = z
  BY <1>3, <1>4, <1>5, SeqEqual
<1> QED
  BY <1>6, <1>7 DEF x, y, z

LEMMA PlainModes ==
    ASSUME NEW p \in Pins, NEW m \in PinModes[p]
    PROVE  SetMode(p, m) \in Seq(Modes) /\ SetMode(p, m) \in Seq(Plain)
<1>3. m \in Inputs \union {"Output", "AlternateFunction0"}
  BY BoardAssumption
<1>1. /\ Set(p, "mode", m) \in Modes /\ Set(p, "select", "input") \in Modes
      /\ Set(p, "pull", "Off") \in Modes /\ Set(p, "pull", "Up") \in Modes
      /\ Set(p, "pull", "Down") \in Modes /\ Set(p, "select", <<"alternate", 0>>) \in Modes
  BY <1>3 DEF Values, Modes
<1>2. \A a, b, c \in Modes : <<a>> \o <<b>> \o <<c>> \in Seq(Modes)
  OBVIOUS
<1>4. SetMode(p, m) \in Seq(Modes)
  BY <1>1, <1>2, <1>3 DEF SetMode, SetPull, SetAlternateFunction, Inputs
<1>5. Modes \subseteq Plain
  BY DEF Plain
<1> QED
  BY <1>4, <1>5

LEMMA PlainTables ==
    ASSUME NEW s \in {TimerInit, TimerDisconnect, ManagerInit}
    PROVE  s \in Seq(Plain)
<1>1. \A op \in {"store", "enable", "disable", "clear"} :
         Table(op, "timer") \in Plain /\ Table(op, "gpio") \in Plain
  BY BoardAssumption DEF Plain
<1>2. /\ \A op \in {"connected", "disconnected", "period", "alarm", "run"} : Clock(op) \in Plain
      /\ [op |-> "irqConnected"] \in Plain
  BY DEF Plain
<1>3. \A S : \A a, b, c, d, e, f \in S :
         /\ <<>> \in Seq(S)
         /\ <<a>> \o <<b, c>> \o <<d, e, f>> \in Seq(S)
         /\ <<a, b>> \o <<c>> \in Seq(S)
  OBVIOUS
<1>4. TimerInit \in Seq(Plain)
  BY <1>1, <1>2, <1>3 DEF TimerInit, Connect
<1>5. TimerDisconnect \in Seq(Plain)
  BY <1>1, <1>2, <1>3 DEF TimerDisconnect, Disconnect
<1>6. ManagerInit \in Seq(Plain)
  BY <1>1, <1>2, <1>3 DEF ManagerInit, Connect
<1> QED
  BY <1>4, <1>5, <1>6

LEMMA CallKeeps ==
    ASSUME PinInv, Call
    PROVE  PinInv'
<1>1. UNCHANGED gpio /\ todo = <<>> /\ todo' \in Calls
  BY DEF Call
<1>2. PinType' /\ PinsAreSound'
  BY <1>1 DEF PinInv, gpio, manager, events, PinType, PinsAreSound, EventsAreServed, Distinct, Listens
<1>3. ~masked /\ Known(Pins) /\ Matched(Pins)
  BY <1>1 DEF PinInv, Stage, Quiet, Releasing, Enabling, Disabling, Forgetting, Connecting,
              Disconnecting
<1>4. UNCHANGED <<masked, pin, pins, sources, irqConnected>>
  BY <1>1 DEF gpio, manager, events
<1>5. CASE todo' \in Seq(Plain)
  BY <1>2, <1>3, <1>4, <1>5 DEF PinInv, Stage, Quiet, Known, Matched, Agrees
<1>6. CASE todo' \in {TimerInit, TimerDisconnect, ManagerInit}
  BY <1>5, <1>6, PlainTables
<1>7. ASSUME NEW p \in Pins, todo' \in PinCalls(p, PinModes[p])
      PROVE  PinInv'
  <2>1. ASSUME NEW m \in PinModes[p], todo' = SetMode(p, m)
        PROVE  PinInv'
    BY <1>5, <2>1, PlainModes
  <2>2. ASSUME NEW auto \in BOOLEAN, todo' = ConnectPin(p, auto), irqConnected, ~pin[p].handler
        PROVE  PinInv'
    <3>1. p \notin pins
      BY <1>3, <2>2 DEF Known
    <3>2. Connecting(p, auto)'
      BY <1>3, <1>4, <2>2, <3>1 DEF Connecting, ConnectPin, Known, Matched, Agrees
    <3> QED
      BY <1>2, <3>2 DEF PinInv, Stage
  <2>3. ASSUME todo' = DisconnectPin(p), pin[p].handler,
               pin[p].interrupt = Unknown, pin[p].interrupt2 = Unknown
        PROVE  PinInv'
    <3>1. p \in pins
      BY <1>3, <2>3 DEF Known
    <3>2. Disconnecting(p)'
      BY <1>3, <1>4, <2>3, <3>1 DEF Disconnecting, DisconnectPin, Known, Matched, Agrees
    <3> QED
      BY <1>2, <3>2 DEF PinInv, Stage
  <2>4. ASSUME NEW f \in IntFields, NEW k \in Kinds \ {pin[p].interrupt, pin[p].interrupt2},
               todo' = Enable(p, f, k), pin[p].handler, pin[p][f] = Unknown
        PROVE  PinInv'
    <3>1. todo' = <<Set(p, f, k), Lock, Fetch(p, k), Detect(p, k, TRUE), Unlock>>
      BY <2>4, Joined DEF Enable, Update, Lock, Unlock
    <3>2. Enabling(p, f, k)'
      BY <1>3, <1>4, <2>4, <3>1 DEF Enabling, Listens, Known, Matched, Agrees
    <3> QED
      BY <1>2, <3>2 DEF PinInv, Stage
  <2>5. ASSUME NEW f \in IntFields, todo' = Disable(p, f), pin[p][f] # Unknown
        PROVE  PinInv'
    <3>1. Listens(p) /\ \E k \in Kinds : pin[p][f] = k
      BY <2>5 DEF PinInv, PinType, PinsAreSound, IntFields
    <3>4. PICK k \in Kinds : pin[p][f] = k
      BY <3>1
    <3>2. todo' = <<Lock, Fetch(p, k), Detect(p, k, FALSE), Unlock, Set(p, f, Unknown)>>
      <4>1. todo' = Update(p, k, FALSE) \o <<Set(p, f, Unknown)>>
        BY <2>5, <3>4 DEF Disable
      <4>2. Update(p, k, FALSE) = <<Lock, Fetch(p, k), Detect(p, k, FALSE), Unlock>>
        BY DEF Update, Lock, Unlock
      <4>3. <<Lock, Fetch(p, k), Detect(p, k, FALSE), Unlock>> \o <<Set(p, f, Unknown)>>
              = <<Lock, Fetch(p, k), Detect(p, k, FALSE), Unlock, Set(p, f, Unknown)>>
        BY Joined
      <4> QED
        BY <4>1, <4>2, <4>3
    <3>3. Disabling(p, f, k)'
      BY <1>3, <1>4, <2>5, <3>1, <3>4, <3>2 DEF Disabling, Listens, Known, Matched, Agrees
    <3> QED
      BY <1>2, <3>1, <3>3 DEF PinInv, Stage
  <2>6. ASSUME NEW f \in IntFields, todo' = Disable(p, f), pin[p][f] = Unknown
        PROVE  PinInv'
    <3>1. todo' = <<Set(p, f, Unknown)>>
      BY <2>6 DEF Disable
    <3>2. Forgetting(p, f)'
      BY <1>3, <1>4, <2>6, <3>1 DEF Forgetting, Known, Matched, Agrees
    <3> QED
      BY <1>2, <3>2 DEF PinInv, Stage
  <2> QED
    BY <1>7, <2>1, <2>2, <2>3, <2>4, <2>5, <2>6 DEF PinCalls, IntFields
<1> QED
  BY <1>1, <1>5, <1>6, <1>7 DEF Calls

-----------------------------------------------------------------------------
(* The pins: its statements. *)

LEMMA Advance1 ==
    ASSUME NEW a, todo = <<a>>, todo' = Tail(todo)
    PROVE  Head(todo) = a /\ todo' = <<>>
OBVIOUS

LEMMA Advance2 ==
    ASSUME NEW a, NEW b, todo = <<a, b>>, todo' = Tail(todo)
    PROVE  Head(todo) = a /\ todo' = <<b>>
OBVIOUS

LEMMA Advance3 ==
    ASSUME NEW a, NEW b, NEW c, todo = <<a, b, c>>, todo' = Tail(todo)
    PROVE  Head(todo) = a /\ todo' = <<b, c>>
OBVIOUS

LEMMA Advance4 ==
    ASSUME NEW a, NEW b, NEW c, NEW d, todo = <<a, b, c, d>>, todo' = Tail(todo)
    PROVE  Head(todo) = a /\ todo' = <<b, c, d>>
OBVIOUS

LEMMA Advance5 ==
    ASSUME NEW a, NEW b, NEW c, NEW d, NEW e, todo = <<a, b, c, d, e>>, todo' = Tail(todo)
    PROVE  Head(todo) = a /\ todo' = <<b, c, d, e>>
OBVIOUS

LEMMA PinOnly ==
    ASSUME Statement,
           Head(todo).op \in {"set", "slot", "lock", "unlock", "fetch", "detect"}
    PROVE  PinStatement(Head(todo)) /\ todo' = Tail(todo)
BY DEF Statement, TableStatement, TimerStatement

\* The statements on a register of event sources.
LEMMA LockStatement ==
    ASSUME Statement, Head(todo) \in {Lock, Unlock}
    PROVE  /\ UNCHANGED <<pin, pins, manager, events, copy>>
           /\ Head(todo) = Lock => masked' = TRUE
           /\ Head(todo) = Unlock => masked' = FALSE
<1>4. Lock # Unlock
  BY DEF Lock, Unlock
<1>1. PinStatement(Head(todo))
  BY PinOnly DEF Lock, Unlock
<1>2. CASE Head(todo) = Lock
  <2>1. PinStatement([op |-> "lock"])
    BY <1>1, <1>2 DEF Lock
  <2>2. UNCHANGED <<pin, pins, manager, events, copy>> /\ masked' = ("lock" = "lock")
    BY <2>1 DEF PinStatement
  <2> QED
    BY <1>2, <1>4, <2>2
<1>3. CASE Head(todo) = Unlock
  <2>1. PinStatement([op |-> "unlock"])
    BY <1>1, <1>3 DEF Unlock
  <2>2. UNCHANGED <<pin, pins, manager, events, copy>> /\ masked' = ("unlock" = "lock")
    BY <2>1 DEF PinStatement
  <2> QED
    BY <1>3, <1>4, <2>2
<1> QED
  BY <1>2, <1>3

LEMMA FetchStatement ==
    ASSUME Statement, NEW p \in Pins, NEW k \in Kinds, Head(todo) = Fetch(p, k)
    PROVE  /\ copy' = sources[k] \cap Bank(p)
           /\ UNCHANGED <<pin, pins, manager, events, masked>>
<1>1. PinStatement(Fetch(p, k))
  BY PinOnly DEF Fetch
<1> QED
  BY <1>1 DEF PinStatement, Fetch

LEMMA DetectStatement ==
    ASSUME PinType, Statement, NEW p \in Pins, NEW k \in Kinds, NEW state \in BOOLEAN,
           Head(todo) = Detect(p, k, state), copy = sources[k] \cap Bank(p)
    PROVE  /\ sources' = [sources EXCEPT ![k] = IF state THEN @ \union {p} ELSE @ \ {p}]
           /\ fresh' = IF state THEN fresh ELSE fresh \ {p}
           /\ UNCHANGED <<pin, pins, manager, latched, masked>>
<1>1. PinStatement(Detect(p, k, state))
  BY PinOnly DEF Detect
<1>2. /\ sources' = [sources EXCEPT ![k] =
                        (@ \ Bank(p)) \union IF state THEN copy \union {p} ELSE copy \ {p}]
      /\ fresh' = IF state THEN fresh ELSE fresh \ {p}
      /\ UNCHANGED <<pin, pins, manager, latched, masked>>
  BY <1>1 DEF PinStatement, Detect
<1>3. p \in Bank(p)
  BY DEF Bank
<1>4. (sources[k] \ Bank(p)) \union (IF state THEN copy \union {p} ELSE copy \ {p})
         = IF state THEN sources[k] \union {p} ELSE sources[k] \ {p}
  BY <1>3
<1> QED
  BY <1>2, <1>4 DEF PinType

LEMMA SetStatement ==
    ASSUME PinType, Statement,
           NEW p \in Pins, NEW f \in Fields, NEW v \in Values, Head(todo) = Set(p, f, v)
    PROVE  /\ todo' = Tail(todo)
           /\ UNCHANGED <<pins, manager, events, masked, copy>>
           /\ pin' \in [Pins -> [Fields -> Values]]
           /\ pin'[p][f] = v
           /\ \A g \in Fields \ {f} : pin'[p][g] = pin[p][g]
           /\ \A q \in Pins \ {p} : pin'[q] = pin[q]
<1>1. PinStatement(Set(p, f, v)) /\ todo' = Tail(todo)
  BY PinOnly DEF Set
<1>2. pin' = [pin EXCEPT ![p][f] = v] /\ UNCHANGED <<pins, manager, events, masked, copy>>
  BY <1>1 DEF PinStatement, Set
<1> QED
  BY <1>1, <1>2 DEF PinType

\* What the invariant says of pins survives a step that changes nothing it reads.
LEMMA PinsKept ==
    ASSUME PinsAreSound, UNCHANGED <<pins, sources, latched, fresh>>,
           irqConnected => irqConnected', masked' => serving' = NoPin,
           \A q \in Pins : /\ pin'[q].interrupt = pin[q].interrupt
                           /\ pin'[q].interrupt2 = pin[q].interrupt2
                           /\ pin'[q].handler = pin[q].handler
                           /\ pin'[q].autoAck = pin[q].autoAck,
           pins \subseteq Pins
    PROVE  /\ PinsAreSound'
           /\ \A Q \in SUBSET Pins : Known(Q) => Known(Q)'
           /\ \A Q \in SUBSET Pins : Matched(Q) => Matched(Q)'
           /\ \A q \in Pins : Agrees(q) => Agrees(q)'
           /\ \A q \in Pins : Listens(q) => Listens(q)'
           /\ \A q \in Pins : \A k \in Kinds : Lacks(q, k) => Lacks(q, k)'
BY DEF PinsAreSound, Distinct, Listens, EventsAreServed, Known, Matched, Agrees, Lacks

\* Such a step, with the same pin.
LEMMA SamePins ==
    ASSUME PinType, PinsAreSound, UNCHANGED <<pin, pins, manager, events>>,
           masked' => serving = NoPin
    PROVE  /\ PinType' /\ PinsAreSound'
           /\ \A Q \in SUBSET Pins : Known(Q) => Known(Q)'
           /\ \A Q \in SUBSET Pins : Matched(Q) => Matched(Q)'
           /\ \A q \in Pins : Agrees(q) => Agrees(q)'
           /\ \A q \in Pins : Listens(q) => Listens(q)'
           /\ \A q \in Pins : \A k \in Kinds : Lacks(q, k) => Lacks(q, k)'
<1>1. UNCHANGED <<pin, pins, irqConnected, serving, sources, latched, fresh>>
  BY DEF manager, events
<1>2. PinType'
  BY <1>1 DEF PinType
<1>3. pins \subseteq Pins
  BY DEF PinType
<1> QED
  BY <1>1, <1>2, <1>3, PinsKept

LEMMA QuietStatement ==
    ASSUME PinInv, Quiet, Statement
    PROVE  PinInv'
<1>1. Head(todo) \in Plain /\ todo' \in Seq(Plain)
  BY DEF Quiet, Statement
<1>2. CASE \E p \in Pins, f \in {"mode", "select", "pull"}, v \in Values : Head(todo) = Set(p, f, v)
  <2> PICK p \in Pins, f \in {"mode", "select", "pull"}, v \in Values : Head(todo) = Set(p, f, v)
    BY <1>2
  <2>1. f \in Fields
    BY DEF Fields
  <2>2. /\ UNCHANGED <<pins, manager, events, masked, copy>>
        /\ pin' \in [Pins -> [Fields -> Values]]
        /\ \A g \in Fields \ {f} : pin'[p][g] = pin[p][g]
        /\ \A q \in Pins \ {p} : pin'[q] = pin[q]
    BY <2>1, SetStatement DEF PinInv
  <2>3. \A q \in Pins : /\ pin'[q].interrupt = pin[q].interrupt
                        /\ pin'[q].interrupt2 = pin[q].interrupt2
                        /\ pin'[q].handler = pin[q].handler
                        /\ pin'[q].autoAck = pin[q].autoAck
    BY <2>2 DEF Fields
  <2>4. UNCHANGED <<pins, sources, latched, fresh, serving, masked, irqConnected>>
    BY <2>2 DEF manager, events
  <2>5. PinType'
    BY <2>2, <2>3, <2>4 DEF PinInv, PinType
  <2>6. PinsAreSound' /\ Known(Pins)' /\ Matched(Pins)'
    BY <2>3, <2>4, PinsKept DEF PinInv, PinType, Quiet
  <2> QED
    BY <1>1, <2>4, <2>5, <2>6 DEF PinInv, Stage, Quiet
<1>3. CASE Head(todo) = [op |-> "irqConnected"]
  <2>1. irqConnected' = TRUE /\ UNCHANGED <<pin, pins, serving, returned, events, masked, copy>>
    BY <1>3 DEF Statement, TableStatement, TimerStatement, PinStatement
  <2>2. UNCHANGED <<pin, pins, sources, latched, fresh, serving, masked>>
    BY <2>1 DEF events
  <2>3. PinType'
    BY <2>2 DEF PinInv, PinType
  <2>4. PinsAreSound' /\ Known(Pins)' /\ Matched(Pins)'
    BY <2>1, <2>2, PinsKept DEF PinInv, PinType, Quiet
  <2> QED
    BY <1>1, <2>2, <2>3, <2>4 DEF PinInv, Stage, Quiet
<1>4. CASE \/ \E op \in {"store", "enable", "disable", "clear"}, line \in Lines :
                 Head(todo) = Table(op, line)
           \/ \E op \in {"connected", "disconnected", "period", "alarm", "run"} :
                 Head(todo) = Clock(op)
  <2>1. UNCHANGED gpio
    BY <1>4 DEF Statement, PinStatement, Table, Clock
  <2>2. UNCHANGED <<pin, pins, sources, latched, fresh, serving, masked, irqConnected>>
    BY <2>1 DEF gpio, manager, events
  <2>3. PinType'
    BY <2>2 DEF PinInv, PinType
  <2>4. PinsAreSound' /\ Known(Pins)' /\ Matched(Pins)'
    BY <2>2, PinsKept DEF PinInv, PinType, Quiet
  <2> QED
    BY <1>1, <2>2, <2>3, <2>4 DEF PinInv, Stage, Quiet
<1> QED
  BY <1>1, <1>2, <1>3, <1>4 DEF Plain, Modes

LEMMA EnablingStatement ==
    ASSUME PinInv, Statement, Idle,
           NEW p \in Pins, NEW f \in IntFields, NEW k \in Kinds, Enabling(p, f, k)
    PROVE  PinInv'
<1>1. /\ PinType /\ PinsAreSound /\ serving = NoPin /\ todo' = Tail(todo)
      /\ f \in Fields /\ k \in Values /\ Pins \ {p} \in SUBSET Pins
  BY DEF PinInv, Idle, Statement, IntFields, Fields, Values
<1>2. Listens(p) /\ Known(Pins) /\ Matched(Pins \ {p})
  BY DEF Enabling
<1>3. CASE /\ todo = <<Set(p, f, k), Lock, Fetch(p, k), Detect(p, k, TRUE), Unlock>>
           /\ ~masked /\ Agrees(p) /\ pin[p][f] = Unknown
           /\ pin[p].interrupt # k /\ pin[p].interrupt2 # k
  <2>1. Head(todo) = Set(p, f, k) /\ todo' = <<Lock, Fetch(p, k), Detect(p, k, TRUE), Unlock>>
    BY <1>1, <1>3, Advance5
  <2>2. /\ UNCHANGED <<pins, manager, events, masked, copy>>
        /\ pin' \in [Pins -> [Fields -> Values]]
        /\ pin'[p][f] = k
        /\ \A g \in Fields \ {f} : pin'[p][g] = pin[p][g]
        /\ \A q \in Pins \ {p} : pin'[q] = pin[q]
    BY <1>1, <2>1, SetStatement
  <2>3. UNCHANGED <<pins, sources, latched, fresh, serving, irqConnected>>
    BY <2>2 DEF manager, events
  <2>4. /\ pin'[p].handler = pin[p].handler /\ pin'[p].autoAck = pin[p].autoAck
        /\ \/ /\ pin'[p].interrupt = k /\ pin[p].interrupt = Unknown
              /\ pin'[p].interrupt2 = pin[p].interrupt2
           \/ /\ pin'[p].interrupt2 = k /\ pin[p].interrupt2 = Unknown
              /\ pin'[p].interrupt = pin[p].interrupt
    BY <1>3, <2>2 DEF Fields, IntFields
  <2>5. PinType'
    BY <1>1, <2>2, <2>3, <2>4 DEF PinType
  <2>6. PinsAreSound'
    <3>1. \A q \in Pins : Distinct(q)'
      BY <1>1, <1>3, <2>2, <2>4 DEF PinsAreSound, Distinct
    <3>2. \A q \in Pins : Listens(q)' <=> Listens(q)
      BY <2>2, <2>3, <2>4 DEF Listens
    <3>3. \A q \in Pins :
             pin'[q].interrupt # Unknown \/ pin'[q].interrupt2 # Unknown => Listens(q)
      BY <1>1, <1>2, <2>2 DEF PinsAreSound
    <3>4. EventsAreServed'
      BY <1>1, <2>2, <2>3, <2>4 DEF PinsAreSound, EventsAreServed, PinType
    <3>5. masked' => serving' = NoPin
      BY <1>1, <2>3
    <3> QED
      BY <1>1, <2>3, <3>1, <3>2, <3>3, <3>4, <3>5 DEF PinsAreSound
  <2>7. Lacks(p, k)'
    BY <1>3, <2>3, <2>4, PinAssumption DEF Lacks, Agrees
  <2>8. Listens(p)' /\ Known(Pins)' /\ Matched(Pins \ {p})'
    <3>1. Listens(p)'
      BY <1>2, <2>3, <2>4 DEF Listens
    <3>2. Known(Pins)'
      BY <1>2, <2>2, <2>3, <2>4 DEF Known
    <3>3. Matched(Pins \ {p})'
      BY <1>2, <2>2, <2>3 DEF Matched, Agrees
    <3> QED
      BY <3>1, <3>2, <3>3
  <2>9. ~masked'
    BY <1>3, <2>2
  <2>10. Enabling(p, f, k)'
    BY <2>1, <2>2, <2>7, <2>8, <2>9 DEF Enabling
  <2> QED
    BY <2>5, <2>6, <2>10 DEF PinInv, Stage
<1>4. CASE /\ todo = <<Lock, Fetch(p, k), Detect(p, k, TRUE), Unlock>>
           /\ ~masked /\ Lacks(p, k) /\ pin[p][f] = k
  <2>1. Head(todo) = Lock /\ todo' = <<Fetch(p, k), Detect(p, k, TRUE), Unlock>>
    BY <1>1, <1>4, Advance4
  <2>2. masked' /\ UNCHANGED <<pin, pins, manager, events, copy>>
    BY <2>1, LockStatement
  <2>3. PinType' /\ PinsAreSound' /\ Listens(p)' /\ Known(Pins)' /\ Matched(Pins \ {p})' /\ Lacks(p, k)'
    BY <1>1, <1>2, <1>4, <2>2, SamePins
  <2>4. Enabling(p, f, k)'
    BY <1>4, <2>1, <2>2, <2>3 DEF Enabling
  <2> QED
    BY <2>3, <2>4 DEF PinInv, Stage
<1>5. CASE /\ todo = <<Fetch(p, k), Detect(p, k, TRUE), Unlock>>
           /\ masked /\ Lacks(p, k) /\ pin[p][f] = k
  <2>1. Head(todo) = Fetch(p, k) /\ todo' = <<Detect(p, k, TRUE), Unlock>>
    BY <1>1, <1>5, Advance3
  <2>2. copy' = sources[k] \cap Bank(p) /\ UNCHANGED <<pin, pins, manager, events, masked>>
    BY <2>1, FetchStatement
  <2>3. PinType' /\ PinsAreSound' /\ Listens(p)' /\ Known(Pins)' /\ Matched(Pins \ {p})' /\ Lacks(p, k)'
    BY <1>1, <1>2, <1>5, <2>2, SamePins
  <2>4. masked' /\ copy' = sources'[k] \cap Bank(p)
    BY <1>5, <2>2 DEF events
  <2>5. Enabling(p, f, k)'
    BY <1>5, <2>1, <2>2, <2>3, <2>4 DEF Enabling, Bank
  <2> QED
    BY <2>3, <2>5 DEF PinInv, Stage
<1>6. CASE /\ todo = <<Detect(p, k, TRUE), Unlock>>
           /\ masked /\ Lacks(p, k) /\ pin[p][f] = k /\ copy = sources[k] \cap Bank(p)
  <2>1. Head(todo) = Detect(p, k, TRUE) /\ todo' = <<Unlock>>
    BY <1>1, <1>6, Advance2
  <2>2. /\ sources' = [sources EXCEPT ![k] = @ \union {p}]
        /\ UNCHANGED <<pin, pins, manager, latched, fresh, masked>>
    BY <1>1, <1>6, <2>1, DetectStatement
  <2>3. UNCHANGED <<pin, pins, latched, fresh, serving, irqConnected>>
    BY <2>2 DEF manager
  <2>4. \A q \in Pins, j \in Kinds : q \in sources'[j] <=> q \in sources[j] \/ (q = p /\ j = k)
    BY <1>1, <2>2 DEF PinType
  <2>5. PinType'
    BY <1>1, <2>2, <2>3 DEF PinType
  <2>6. PinsAreSound'
    BY <1>1, <1>2, <2>3, <2>4 DEF PinType, PinsAreSound, Distinct, Listens, EventsAreServed
  <2>7. Agrees(p)' /\ Known(Pins)' /\ Matched(Pins \ {p})'
    BY <1>2, <1>6, <2>3, <2>4 DEF Agrees, Lacks, IntFields, Known, Matched
  <2>8. Matched(Pins)' /\ masked'
    BY <1>6, <2>2, <2>7 DEF Matched
  <2>9. Releasing'
    BY <2>1, <2>7, <2>8 DEF Releasing
  <2> QED
    BY <2>5, <2>6, <2>9 DEF PinInv, Stage
<1> QED
  BY <1>3, <1>4, <1>5, <1>6 DEF Enabling

LEMMA DisablingStatement ==
    ASSUME PinInv, Statement, Idle,
           NEW p \in Pins, NEW f \in IntFields, NEW k \in Kinds, Disabling(p, f, k)
    PROVE  PinInv'
<1>1. /\ PinType /\ PinsAreSound /\ serving = NoPin /\ todo' = Tail(todo)
      /\ f \in Fields /\ Unknown \in Values /\ Pins \ {p} \in SUBSET Pins
  BY DEF PinInv, Idle, Statement, IntFields, Fields, Values
<1>2. Listens(p) /\ Known(Pins) /\ Matched(Pins \ {p}) /\ pin[p][f] = k
  BY DEF Disabling
<1>3. CASE /\ todo = <<Lock, Fetch(p, k), Detect(p, k, FALSE), Unlock, Set(p, f, Unknown)>>
           /\ ~masked /\ Agrees(p)
  <2>1. Head(todo) = Lock
        /\ todo' = <<Fetch(p, k), Detect(p, k, FALSE), Unlock, Set(p, f, Unknown)>>
    BY <1>1, <1>3, Advance5
  <2>2. masked' /\ UNCHANGED <<pin, pins, manager, events, copy>>
    BY <2>1, LockStatement
  <2>3. PinType' /\ PinsAreSound' /\ Listens(p)' /\ Known(Pins)' /\ Matched(Pins \ {p})' /\ Agrees(p)'
    BY <1>1, <1>2, <1>3, <2>2, SamePins
  <2>4. Disabling(p, f, k)'
    BY <1>2, <2>1, <2>2, <2>3 DEF Disabling
  <2> QED
    BY <2>3, <2>4 DEF PinInv, Stage
<1>4. CASE /\ todo = <<Fetch(p, k), Detect(p, k, FALSE), Unlock, Set(p, f, Unknown)>>
           /\ masked /\ Agrees(p)
  <2>1. Head(todo) = Fetch(p, k) /\ todo' = <<Detect(p, k, FALSE), Unlock, Set(p, f, Unknown)>>
    BY <1>1, <1>4, Advance4
  <2>2. copy' = sources[k] \cap Bank(p) /\ UNCHANGED <<pin, pins, manager, events, masked>>
    BY <2>1, FetchStatement
  <2>3. PinType' /\ PinsAreSound' /\ Listens(p)' /\ Known(Pins)' /\ Matched(Pins \ {p})' /\ Agrees(p)'
    BY <1>1, <1>2, <1>4, <2>2, SamePins
  <2>4. masked' /\ copy' = sources'[k] \cap Bank(p)
    BY <1>4, <2>2 DEF events
  <2>5. Disabling(p, f, k)'
    BY <1>2, <2>1, <2>2, <2>3, <2>4 DEF Disabling, Bank
  <2> QED
    BY <2>3, <2>5 DEF PinInv, Stage
<1>5. CASE /\ todo = <<Detect(p, k, FALSE), Unlock, Set(p, f, Unknown)>>
           /\ masked /\ Agrees(p) /\ copy = sources[k] \cap Bank(p)
  <2>1. Head(todo) = Detect(p, k, FALSE) /\ todo' = <<Unlock, Set(p, f, Unknown)>>
    BY <1>1, <1>5, Advance3
  <2>2. /\ sources' = [sources EXCEPT ![k] = @ \ {p}]
        /\ fresh' = fresh \ {p}
        /\ UNCHANGED <<pin, pins, manager, latched, masked>>
    BY <1>1, <1>5, <2>1, DetectStatement
  <2>3. UNCHANGED <<pin, pins, latched, serving, irqConnected>>
    BY <2>2 DEF manager
  <2>4. \A q \in Pins, j \in Kinds : q \in sources'[j] <=> q \in sources[j] /\ ~(q = p /\ j = k)
    BY <1>1, <2>2 DEF PinType
  <2>5. PinType'
    BY <1>1, <2>2, <2>3 DEF PinType
  <2>6. PinsAreSound'
    BY <1>1, <2>2, <2>3, <2>4 DEF PinType, PinsAreSound, Distinct, Listens, EventsAreServed
  <2>7. /\ Lacks(p, k)' /\ Known(Pins)' /\ Matched(Pins \ {p})' /\ Listens(p)' /\ masked'
    BY <1>2, <1>5, <2>2, <2>3, <2>4 DEF Agrees, Lacks, Known, Matched, Listens
  <2>8. Disabling(p, f, k)'
    BY <1>2, <2>1, <2>3, <2>7 DEF Disabling
  <2> QED
    BY <2>5, <2>6, <2>8 DEF PinInv, Stage
<1>6. CASE todo = <<Unlock, Set(p, f, Unknown)>> /\ masked /\ Lacks(p, k)
  <2>1. Head(todo) = Unlock /\ todo' = <<Set(p, f, Unknown)>>
    BY <1>1, <1>6, Advance2
  <2>2. masked' = FALSE /\ UNCHANGED <<pin, pins, manager, events, copy>>
    BY <2>1, LockStatement
  <2>3. PinType' /\ PinsAreSound' /\ Listens(p)' /\ Known(Pins)' /\ Matched(Pins \ {p})' /\ Lacks(p, k)'
    BY <1>1, <1>2, <1>6, <2>2, SamePins
  <2>4. Disabling(p, f, k)'
    BY <1>2, <2>1, <2>2, <2>3 DEF Disabling
  <2> QED
    BY <2>3, <2>4 DEF PinInv, Stage
<1>7. CASE todo = <<Set(p, f, Unknown)>> /\ ~masked /\ Lacks(p, k)
  <2>1. Head(todo) = Set(p, f, Unknown) /\ todo' = <<>>
    BY <1>1, <1>7, Advance1
  <2>2. /\ UNCHANGED <<pins, manager, events, masked, copy>>
        /\ pin' \in [Pins -> [Fields -> Values]]
        /\ pin'[p][f] = Unknown
        /\ \A g \in Fields \ {f} : pin'[p][g] = pin[p][g]
        /\ \A q \in Pins \ {p} : pin'[q] = pin[q]
    BY <1>1, <2>1, SetStatement
  <2>3. UNCHANGED <<pins, sources, latched, fresh, serving, irqConnected>>
    BY <2>2 DEF manager, events
  <2>4. /\ pin'[p].handler = pin[p].handler /\ pin'[p].autoAck = pin[p].autoAck
        /\ \/ /\ pin'[p].interrupt = Unknown /\ pin[p].interrupt = k
              /\ pin'[p].interrupt2 = pin[p].interrupt2
           \/ /\ pin'[p].interrupt2 = Unknown /\ pin[p].interrupt2 = k
              /\ pin'[p].interrupt = pin[p].interrupt
    BY <1>2, <2>2 DEF Fields, IntFields
  <2>5. PinType'
    BY <1>1, <2>2, <2>3, <2>4 DEF PinType
  <2>6. Distinct(p) /\ k # Unknown
    BY <1>1, PinAssumption DEF PinsAreSound
  <2>7. PinsAreSound'
    <3>1. \A q \in Pins : Distinct(q)'
      BY <1>1, <2>2, <2>4 DEF PinsAreSound, Distinct
    <3>2. \A q \in Pins : Listens(q)' <=> Listens(q)
      BY <2>2, <2>3, <2>4 DEF Listens
    <3>3. \A q \in Pins :
             pin'[q].interrupt # Unknown \/ pin'[q].interrupt2 # Unknown => Listens(q)
      BY <1>1, <1>2, <2>2 DEF PinsAreSound
    <3>4. EventsAreServed'
      BY <1>1, <2>2, <2>3, <2>4 DEF PinsAreSound, EventsAreServed, PinType
    <3>5. masked' => serving' = NoPin
      BY <1>1, <2>3
    <3> QED
      BY <1>1, <2>3, <3>1, <3>2, <3>3, <3>4, <3>5 DEF PinsAreSound
  <2>8. Agrees(p)'
    BY <1>7, <2>3, <2>4, <2>6, PinAssumption DEF Lacks, Agrees, Distinct
  <2>9. Known(Pins)'
    BY <1>2, <2>2, <2>3, <2>4 DEF Known
  <2>10. Matched(Pins)'
    BY <1>2, <2>2, <2>3, <2>8 DEF Matched, Agrees
  <2>11. Quiet'
    BY <1>7, <2>1, <2>2, <2>9, <2>10 DEF Quiet
  <2> QED
    BY <2>5, <2>7, <2>11 DEF PinInv, Stage
<1> QED
  BY <1>3, <1>4, <1>5, <1>6, <1>7 DEF Disabling

LEMMA ForgettingStatement ==
    ASSUME PinInv, Statement, NEW p \in Pins, NEW f \in IntFields, Forgetting(p, f)
    PROVE  PinInv'
<1>1. PinType /\ PinsAreSound /\ todo' = Tail(todo) /\ f \in Fields /\ Unknown \in Values
  BY DEF PinInv, Statement, IntFields, Fields, Values
<1>2. todo = <<Set(p, f, Unknown)>> /\ pin[p][f] = Unknown /\ ~masked /\ Known(Pins) /\ Matched(Pins)
  BY DEF Forgetting
<1>3. Head(todo) = Set(p, f, Unknown) /\ todo' = <<>>
  BY <1>1, <1>2, Advance1
<1>4. /\ UNCHANGED <<pins, manager, events, masked, copy>>
      /\ pin' \in [Pins -> [Fields -> Values]]
      /\ pin'[p][f] = Unknown
      /\ \A g \in Fields \ {f} : pin'[p][g] = pin[p][g]
      /\ \A q \in Pins \ {p} : pin'[q] = pin[q]
  BY <1>1, <1>3, SetStatement
<1>5. \A q \in Pins : /\ pin'[q].interrupt = pin[q].interrupt
                      /\ pin'[q].interrupt2 = pin[q].interrupt2
                      /\ pin'[q].handler = pin[q].handler
                      /\ pin'[q].autoAck = pin[q].autoAck
  BY <1>2, <1>4 DEF Fields, IntFields
<1>6. UNCHANGED <<pins, sources, latched, fresh, serving, masked, irqConnected>>
  BY <1>4 DEF manager, events
<1>7. PinType'
  BY <1>1, <1>4, <1>5, <1>6 DEF PinType
<1>8. PinsAreSound' /\ Known(Pins)' /\ Matched(Pins)'
  BY <1>1, <1>2, <1>5, <1>6, PinsKept DEF PinType
<1> QED
  BY <1>2, <1>3, <1>6, <1>7, <1>8 DEF PinInv, Stage, Quiet

LEMMA ReleasingStatement ==
    ASSUME PinInv, Statement, Releasing
    PROVE  PinInv'
<1>1. PinType /\ PinsAreSound /\ todo' = Tail(todo) /\ Known(Pins) /\ Matched(Pins) /\ todo = <<Unlock>>
  BY DEF PinInv, Statement, Releasing
<1>2. Head(todo) = Unlock /\ todo' = <<>>
  BY <1>1, Advance1
<1>3. masked' = FALSE /\ UNCHANGED <<pin, pins, manager, events, copy>>
  BY <1>2, LockStatement
<1>4. PinType' /\ PinsAreSound' /\ Known(Pins)' /\ Matched(Pins)'
  BY <1>1, <1>3, SamePins
<1> QED
  BY <1>2, <1>3, <1>4 DEF PinInv, Stage, Quiet

LEMMA SlotStatement ==
    ASSUME Statement, NEW p \in Pins, NEW state \in BOOLEAN, Head(todo) = Slot(p, state)
    PROVE  /\ pins' = IF state THEN pins \union {p} ELSE pins \ {p}
           /\ UNCHANGED <<pin, manager, events, masked, copy>>
<1>1. PinStatement(Slot(p, state))
  BY PinOnly DEF Slot
<1> QED
  BY <1>1 DEF PinStatement, Slot

\* A pin that expects nothing may get another handler.
LEMMA IdlePin ==
    ASSUME PinType, PinsAreSound, Matched(Pins), Statement,
           NEW p \in Pins, NEW f \in {"handler", "autoAck"}, NEW v \in BOOLEAN,
           Head(todo) = Set(p, f, v),
           p \notin pins \/ (f = "handler" /\ pin[p].interrupt = Unknown
                                           /\ pin[p].interrupt2 = Unknown)
    PROVE  /\ PinType' /\ PinsAreSound' /\ Matched(Pins)'
           /\ Known(Pins \ {p}) => Known(Pins \ {p})'
           /\ UNCHANGED <<pins, irqConnected, masked>>
           /\ pin'[p][f] = v
           /\ \A g \in Fields \ {f} : pin'[p][g] = pin[p][g]
<1>1. f \in Fields /\ v \in Values
  BY DEF Fields, Values
<1>2. /\ UNCHANGED <<pins, manager, events, masked, copy>>
      /\ pin' \in [Pins -> [Fields -> Values]]
      /\ pin'[p][f] = v
      /\ \A g \in Fields \ {f} : pin'[p][g] = pin[p][g]
      /\ \A q \in Pins \ {p} : pin'[q] = pin[q]
  BY <1>1, SetStatement
<1>3. UNCHANGED <<pins, irqConnected, sources, latched, fresh, serving, masked>>
  BY <1>2 DEF manager, events
<1>4. \A q \in Pins : /\ pin'[q].interrupt = pin[q].interrupt
                      /\ pin'[q].interrupt2 = pin[q].interrupt2
  BY <1>2 DEF Fields
<1>5. \A q \in Pins : pin'[q].handler \in BOOLEAN /\ pin'[q].autoAck \in BOOLEAN
  <2>1. CASE f = "handler"
    BY <1>2, <2>1 DEF PinType, Fields
  <2>2. CASE f = "autoAck"
    BY <1>2, <2>2 DEF PinType, Fields
  <2> QED
    BY <2>1, <2>2
<1>6. PinType'
  BY <1>2, <1>3, <1>4, <1>5 DEF PinType
<1>7. pin[p].interrupt = Unknown /\ pin[p].interrupt2 = Unknown
  BY DEF PinsAreSound, Listens
<1>8. \A k \in Kinds : p \notin sources[k]
  BY <1>7, PinAssumption DEF Matched, Agrees
<1>9. Matched(Pins)'
  BY <1>3, <1>4 DEF Matched, Agrees
<1>10. Known(Pins \ {p}) => Known(Pins \ {p})'
  BY <1>2, <1>3 DEF Known
<1>11. PinsAreSound'
  <2>1. \A q \in Pins : Distinct(q)'
    BY <1>4 DEF PinsAreSound, Distinct
  <2>2. \A q \in Pins \ {p} : Listens(q)' <=> Listens(q)
    BY <1>2, <1>3 DEF Listens
  <2>3. \A q \in Pins :
           pin'[q].interrupt # Unknown \/ pin'[q].interrupt2 # Unknown => Listens(q)'
    BY <1>4, <1>7, <2>2 DEF PinsAreSound
  <2>4. \A q \in Pins, k \in Kinds : q \in sources'[k] => Listens(q)'
    BY <1>3, <1>8, <2>2 DEF PinsAreSound
  <2>5. EventsAreServed'
    BY <1>2, <1>3, <1>8 DEF PinsAreSound, EventsAreServed, PinType
  <2> QED
    BY <1>3, <2>1, <2>3, <2>4, <2>5 DEF PinsAreSound
<1> QED
  BY <1>2, <1>3, <1>6, <1>9, <1>10, <1>11

LEMMA ConnectingStatement ==
    ASSUME PinInv, Statement, NEW p \in Pins, NEW auto \in BOOLEAN, Connecting(p, auto)
    PROVE  PinInv'
<1>1. PinType /\ PinsAreSound /\ todo' = Tail(todo)
  BY DEF PinInv, Statement
<1>2. p \notin pins /\ irqConnected /\ ~masked /\ Known(Pins \ {p}) /\ Matched(Pins)
  BY DEF Connecting
<1>3. CASE todo = <<Set(p, "handler", TRUE), Set(p, "autoAck", auto), Slot(p, TRUE)>>
  <2>1. /\ Head(todo) = Set(p, "handler", TRUE)
        /\ todo' = <<Set(p, "autoAck", auto), Slot(p, TRUE)>>
    BY <1>1, <1>3, Advance3
  <2>2. /\ PinType' /\ PinsAreSound' /\ Matched(Pins)' /\ Known(Pins \ {p})'
        /\ UNCHANGED <<pins, irqConnected, masked>>
        /\ pin'[p].handler = TRUE
    BY <1>1, <1>2, <2>1, IdlePin
  <2>3. Connecting(p, auto)'
    BY <1>2, <2>1, <2>2 DEF Connecting
  <2> QED
    BY <2>2, <2>3 DEF PinInv, Stage
<1>4. CASE todo = <<Set(p, "autoAck", auto), Slot(p, TRUE)>> /\ pin[p].handler
  <2>1. Head(todo) = Set(p, "autoAck", auto) /\ todo' = <<Slot(p, TRUE)>>
    BY <1>1, <1>4, Advance2
  <2>2. /\ PinType' /\ PinsAreSound' /\ Matched(Pins)' /\ Known(Pins \ {p})'
        /\ UNCHANGED <<pins, irqConnected, masked>>
        /\ pin'[p].handler = pin[p].handler
    BY <1>1, <1>2, <2>1, IdlePin DEF Fields
  <2>3. Connecting(p, auto)'
    BY <1>2, <1>4, <2>1, <2>2 DEF Connecting
  <2> QED
    BY <2>2, <2>3 DEF PinInv, Stage
<1>5. CASE todo = <<Slot(p, TRUE)>> /\ pin[p].handler
  <2>1. Head(todo) = Slot(p, TRUE) /\ todo' = <<>>
    BY <1>1, <1>5, Advance1
  <2>2. pins' = pins \union {p} /\ UNCHANGED <<pin, manager, events, masked, copy>>
    BY <2>1, SlotStatement
  <2>3. UNCHANGED <<pin, irqConnected, sources, latched, fresh, serving, masked>>
    BY <2>2 DEF manager, events
  <2>4. PinType'
    BY <1>1, <2>2, <2>3 DEF PinType
  <2>5. p \notin fresh
    BY <1>1, <1>2 DEF PinsAreSound, Listens
  <2>6. PinsAreSound'
    BY <1>1, <1>2, <2>2, <2>3, <2>5 DEF PinsAreSound, Distinct, Listens, EventsAreServed
  <2>7. Known(Pins)' /\ Matched(Pins)'
    BY <1>2, <1>5, <2>2, <2>3 DEF Known, Matched, Agrees
  <2>8. Quiet'
    BY <1>2, <2>1, <2>2, <2>7 DEF Quiet
  <2> QED
    BY <2>4, <2>6, <2>8 DEF PinInv, Stage
<1> QED
  BY <1>3, <1>4, <1>5 DEF Connecting

LEMMA DisconnectingStatement ==
    ASSUME PinInv, Statement, NEW p \in Pins, Disconnecting(p)
    PROVE  PinInv'
<1>1. PinType /\ PinsAreSound /\ todo' = Tail(todo)
  BY DEF PinInv, Statement
<1>2. /\ pin[p].interrupt = Unknown /\ pin[p].interrupt2 = Unknown
      /\ ~masked /\ Known(Pins \ {p}) /\ Matched(Pins)
  BY DEF Disconnecting
<1>3. CASE todo = <<Set(p, "handler", FALSE), Slot(p, FALSE)>> /\ p \in pins
  <2>1. Head(todo) = Set(p, "handler", FALSE) /\ todo' = <<Slot(p, FALSE)>>
    BY <1>1, <1>3, Advance2
  <2>2. /\ PinType' /\ PinsAreSound' /\ Matched(Pins)' /\ Known(Pins \ {p})'
        /\ UNCHANGED <<pins, irqConnected, masked>>
        /\ pin'[p].handler = FALSE
        /\ pin'[p].interrupt = Unknown /\ pin'[p].interrupt2 = Unknown
    BY <1>1, <1>2, <2>1, IdlePin DEF Fields
  <2>3. Disconnecting(p)'
    BY <1>2, <2>1, <2>2 DEF Disconnecting
  <2> QED
    BY <2>2, <2>3 DEF PinInv, Stage
<1>4. CASE todo = <<Slot(p, FALSE)>> /\ ~pin[p].handler
  <2>1. Head(todo) = Slot(p, FALSE) /\ todo' = <<>>
    BY <1>1, <1>4, Advance1
  <2>2. pins' = pins \ {p} /\ UNCHANGED <<pin, manager, events, masked, copy>>
    BY <2>1, SlotStatement
  <2>3. UNCHANGED <<pin, irqConnected, sources, latched, fresh, serving, masked>>
    BY <2>2 DEF manager, events
  <2>4. PinType'
    BY <1>1, <2>2, <2>3 DEF PinType
  <2>5. PinsAreSound'
    BY <1>1, <1>4, <2>2, <2>3 DEF PinsAreSound, Distinct, Listens, EventsAreServed
  <2>6. Known(Pins)' /\ Matched(Pins)'
    BY <1>1, <1>2, <1>4, <2>2, <2>3 DEF Known, Matched, Agrees
  <2>7. Quiet'
    BY <1>2, <2>1, <2>2, <2>6 DEF Quiet
  <2> QED
    BY <2>4, <2>5, <2>7 DEF PinInv, Stage
<1> QED
  BY <1>3, <1>4 DEF Disconnecting

LEMMA StatementKeeps ==
    ASSUME PinInv, Statement, Idle
    PROVE  PinInv'
BY QuietStatement, ReleasingStatement, EnablingStatement, DisablingStatement,
   ForgettingStatement, ConnectingStatement, DisconnectingStatement DEF PinInv, Stage

-----------------------------------------------------------------------------
(* The pins: interrupts and events. *)

\* A call is at the same place after a step that leaves the registers alone.
LEMMA StageKept ==
    ASSUME Stage, UNCHANGED <<todo, pin, pins, sources, masked, copy, irqConnected>>
    PROVE  Stage'
<1>1. \A Q : (Known(Q) => Known(Q)') /\ (Matched(Q) => Matched(Q)')
  BY DEF Known, Matched, Agrees
<1>2. \A p : /\ Agrees(p) => Agrees(p)'
             /\ Listens(p) => Listens(p)'
             /\ \A k : Lacks(p, k) => Lacks(p, k)'
  BY DEF Agrees, Listens, Lacks
<1>3. CASE Quiet
  BY <1>1, <1>3 DEF Stage, Quiet
<1>4. CASE Releasing
  BY <1>1, <1>4 DEF Stage, Releasing
<1>5. ASSUME NEW p \in Pins, NEW f \in IntFields, NEW k \in Kinds, Enabling(p, f, k)
      PROVE  Stage'
  <2>1. Enabling(p, f, k)'
    BY <1>1, <1>2, <1>5 DEF Enabling, Bank
  <2> QED
    BY <2>1 DEF Stage
<1>6. ASSUME NEW p \in Pins, NEW f \in IntFields, NEW k \in Kinds, Disabling(p, f, k)
      PROVE  Stage'
  <2>1. Disabling(p, f, k)'
    BY <1>1, <1>2, <1>6 DEF Disabling, Bank
  <2> QED
    BY <2>1 DEF Stage
<1>7. ASSUME NEW p \in Pins, NEW auto \in BOOLEAN, Connecting(p, auto)
      PROVE  Stage'
  <2>1. Connecting(p, auto)'
    BY <1>1, <1>7 DEF Connecting
  <2> QED
    BY <2>1 DEF Stage
<1>8. ASSUME NEW p \in Pins, Disconnecting(p)
      PROVE  Stage'
  <2>1. Disconnecting(p)'
    BY <1>1, <1>8 DEF Disconnecting
  <2> QED
    BY <2>1 DEF Stage
<1>9. ASSUME NEW p \in Pins, NEW f \in IntFields, Forgetting(p, f)
      PROVE  Stage'
  <2>1. Forgetting(p, f)'
    BY <1>1, <1>9 DEF Forgetting
  <2> QED
    BY <2>1 DEF Stage
<1> QED
  BY <1>3, <1>4, <1>5, <1>6, <1>7, <1>8, <1>9 DEF Stage

LEMMA Occupied ==
    ASSUME NEW p, NEW i \in 1 .. Len(todo),
           \/ \E f, v : todo[i] = Set(p, f, v)
           \/ \E k : todo[i] = Fetch(p, k)
           \/ \E k, state : todo[i] = Detect(p, k, state)
    PROVE  p \in Busy
<1>1. "pin" \in DOMAIN todo[i] /\ todo[i].pin = p
  <2>1. CASE \E f, v : todo[i] = Set(p, f, v)
    BY <2>1 DEF Set
  <2>2. CASE \E k : todo[i] = Fetch(p, k)
    BY <2>2 DEF Fetch
  <2>3. CASE \E k, state : todo[i] = Detect(p, k, state)
    BY <2>3 DEF Detect
  <2> QED
    BY <2>1, <2>2, <2>3
<1> QED
  BY <1>1 DEF Busy

LEMMA EnablingIsBusy ==
    ASSUME NEW p \in Pins, NEW f \in IntFields, NEW k \in Kinds, Enabling(p, f, k)
    PROVE  p \in Busy
<1>1. CASE todo = <<Set(p, f, k), Lock, Fetch(p, k), Detect(p, k, TRUE), Unlock>>
  BY <1>1, Occupied
<1>2. CASE todo = <<Lock, Fetch(p, k), Detect(p, k, TRUE), Unlock>>
  BY <1>2, Occupied
<1>3. CASE todo = <<Fetch(p, k), Detect(p, k, TRUE), Unlock>>
  BY <1>3, Occupied
<1>4. CASE todo = <<Detect(p, k, TRUE), Unlock>>
  <2>1. 1 \in 1 .. Len(todo) /\ todo[1] = Detect(p, k, TRUE)
    BY <1>4
  <2> QED
    BY <2>1, Occupied
<1> QED
  BY <1>1, <1>2, <1>3, <1>4 DEF Enabling

LEMMA DisablingIsBusy ==
    ASSUME NEW p \in Pins, NEW f \in IntFields, NEW k \in Kinds, Disabling(p, f, k)
    PROVE  p \in Busy
<1>1. CASE todo = <<Lock, Fetch(p, k), Detect(p, k, FALSE), Unlock, Set(p, f, Unknown)>>
  BY <1>1, Occupied
<1>2. CASE todo = <<Fetch(p, k), Detect(p, k, FALSE), Unlock, Set(p, f, Unknown)>>
  BY <1>2, Occupied
<1>3. CASE todo = <<Detect(p, k, FALSE), Unlock, Set(p, f, Unknown)>>
  BY <1>3, Occupied
<1>4. CASE todo = <<Unlock, Set(p, f, Unknown)>>
  BY <1>4, Occupied
<1>5. CASE todo = <<Set(p, f, Unknown)>>
  BY <1>5, Occupied
<1> QED
  BY <1>1, <1>2, <1>3, <1>4, <1>5 DEF Disabling

LEMMA FindKeeps ==
    ASSUME PinInv, ~masked, NEW p \in Pins, Find(p), UNCHANGED todo
    PROVE  PinInv'
<1>1. PinType /\ PinsAreSound /\ Stage
  BY DEF PinInv
<1>2. CASE UNCHANGED gpio
  <2>1. UNCHANGED <<pin, pins, manager, events, masked, copy, irqConnected, sources>>
    BY <1>2 DEF gpio, manager, events
  <2> QED
    BY <1>1, <2>1, SamePins, StageKept DEF PinInv
<1>3. CASE /\ p \notin pins
           /\ sources' = Silenced(p) /\ latched' = latched \ {p} /\ fresh' = fresh \ {p}
           /\ UNCHANGED <<pin, pins, manager, masked, copy>>
  <2>1. UNCHANGED <<irqConnected, serving>>
    BY <1>3 DEF manager
  <2>2. \A k \in Kinds : p \notin sources[k]
    BY <1>1, <1>3 DEF PinsAreSound, Listens
  <2>3. sources' = sources
    BY <1>1, <1>3, <2>2 DEF Silenced, PinType
  <2>4. PinType'
    BY <1>1, <1>3, <2>1, <2>3 DEF PinType
  <2>5. PinsAreSound'
    BY <1>1, <1>3, <2>1, <2>3 DEF PinsAreSound, Distinct, Listens, EventsAreServed
  <2>6. Stage'
    BY <1>1, <1>3, <2>1, <2>3, StageKept
  <2> QED
    BY <2>4, <2>5, <2>6 DEF PinInv
<1>4. CASE serving' = p /\ UNCHANGED <<pin, pins, irqConnected, events, masked, copy>>
  <2>1. UNCHANGED <<sources, latched, fresh>>
    BY <1>4 DEF events
  <2>2. PinType'
    BY <1>1, <1>4, <2>1 DEF PinType
  <2>3. PinsAreSound'
    BY <1>1, <1>4, <2>1 DEF PinsAreSound, Distinct, Listens, EventsAreServed
  <2>4. Stage'
    BY <1>1, <1>4, <2>1, StageKept
  <2> QED
    BY <2>2, <2>3, <2>4 DEF PinInv
<1> QED
  BY <1>2, <1>3, <1>4 DEF Find

LEMMA AcknowledgeKeeps ==
    ASSUME PinInv, NEW p \in Pins, Acknowledge(p), UNCHANGED todo
    PROVE  PinInv'
<1>1. PinType /\ PinsAreSound /\ Stage
  BY DEF PinInv
<1>2. /\ latched' = IF pin[p].autoAck THEN latched \ {p} ELSE latched
      /\ serving' = NoPin
      /\ UNCHANGED <<pin, pins, irqConnected, sources, fresh, masked, copy>>
  BY DEF Acknowledge
<1>3. PinType'
  BY <1>1, <1>2 DEF PinType
<1>4. PinsAreSound'
  BY <1>1, <1>2 DEF PinsAreSound, Distinct, Listens, EventsAreServed
<1>5. Stage'
  BY <1>1, <1>2, StageKept
<1> QED
  BY <1>3, <1>4, <1>5 DEF PinInv

LEMMA EventKeeps ==
    ASSUME PinInv, NEW p \in Pins, Event(p), UNCHANGED todo
    PROVE  PinInv'
<1>1. PinType /\ PinsAreSound /\ Stage
  BY DEF PinInv
<1>2. /\ latched' = latched \union {p} /\ fresh' = fresh \union {p}
      /\ UNCHANGED <<pin, pins, manager, sources, masked, copy>>
      /\ \E k \in Kinds : p \in sources[k]
  BY DEF Event
<1>3. UNCHANGED <<irqConnected, serving>>
  BY <1>2 DEF manager
<1>4. PinType'
  BY <1>1, <1>2, <1>3 DEF PinType
<1>5. PinsAreSound'
  BY <1>1, <1>2, <1>3 DEF PinsAreSound, Distinct, Listens, EventsAreServed
<1>6. Stage'
  BY <1>1, <1>2, <1>3, StageKept
<1> QED
  BY <1>4, <1>5, <1>6 DEF PinInv

LEMMA ServeKeeps ==
    ASSUME PinInv, NEW q \in Pins, Serve(q, q \notin Busy), UNCHANGED todo
    PROVE  PinInv'
<1>1. PinType /\ PinsAreSound /\ Stage
  BY DEF PinInv
<1>2. /\ serving = q /\ fresh' = fresh \ {q}
      /\ latched' = IF pin[q].autoAck THEN latched ELSE latched \ {q}
      /\ UNCHANGED <<pins, irqConnected, serving, masked, copy>>
  BY DEF Serve
<1>3. ~masked
  BY <1>1, <1>2, PinAssumption DEF PinsAreSound, NoPin
<1>4. CASE UNCHANGED <<pin, sources>>
  <2>1. PinType'
    BY <1>1, <1>2, <1>4 DEF PinType
  <2>2. PinsAreSound'
    BY <1>1, <1>2, <1>4 DEF PinsAreSound, Distinct, Listens, EventsAreServed
  <2>3. Stage'
    BY <1>1, <1>2, <1>4, StageKept
  <2> QED
    BY <2>1, <2>2, <2>3 DEF PinInv
<1>5. ASSUME NEW f \in IntFields, q \notin Busy, pin[q][f] # Unknown,
             sources' = [sources EXCEPT ![pin[q][f]] = @ \ {q}],
             pin' = [pin EXCEPT ![q][f] = Unknown]
      PROVE  PinInv'
  <2>1. f \in Fields /\ Unknown \in Values
    BY DEF IntFields, Fields, Values
  <2>2. PICK j \in Kinds : j = pin[q][f]
    BY <1>1, <1>5 DEF PinType, IntFields
  <2>3. /\ pin' \in [Pins -> [Fields -> Values]]
        /\ pin'[q][f] = Unknown
        /\ \A g \in Fields \ {f} : pin'[q][g] = pin[q][g]
        /\ \A p \in Pins \ {q} : pin'[p] = pin[p]
    BY <1>1, <1>5, <2>1 DEF PinType
  <2>4. /\ sources' \in [Kinds -> SUBSET Pins]
        /\ \A p \in Pins, k \in Kinds : p \in sources'[k] <=> p \in sources[k] /\ ~(p = q /\ k = j)
    BY <1>1, <1>5, <2>2 DEF PinType
  <2>5. /\ pin'[q].handler = pin[q].handler /\ pin'[q].autoAck = pin[q].autoAck
        /\ \/ /\ pin'[q].interrupt = Unknown /\ pin[q].interrupt = j
              /\ pin'[q].interrupt2 = pin[q].interrupt2
           \/ /\ pin'[q].interrupt2 = Unknown /\ pin[q].interrupt2 = j
              /\ pin'[q].interrupt = pin[q].interrupt
    BY <2>2, <2>3 DEF Fields, IntFields
  <2>6. PinType'
    BY <1>1, <1>2, <2>3, <2>4, <2>5 DEF PinType
  <2>7. PinsAreSound'
    <3>1. \A p \in Pins : Distinct(p)'
      BY <1>1, <2>3, <2>5 DEF PinsAreSound, Distinct
    <3>2. \A p \in Pins : Listens(p)' <=> Listens(p)
      BY <1>2, <2>3, <2>5 DEF Listens
    <3>3. \A p \in Pins :
             pin'[p].interrupt # Unknown \/ pin'[p].interrupt2 # Unknown => Listens(p)
      BY <1>1, <2>3, <2>5 DEF PinsAreSound
    <3>4. \A p \in Pins, k \in Kinds : p \in sources'[k] => Listens(p)
      BY <1>1, <2>4 DEF PinsAreSound
    <3>5. \A p \in fresh' : \E k \in Kinds : p \in sources'[k]
      BY <1>1, <1>2, <2>4 DEF PinsAreSound, PinType
    <3>6. EventsAreServed'
      BY <1>1, <1>2, <2>3, <2>5 DEF PinsAreSound, EventsAreServed, PinType
    <3>7. ~irqConnected' => pins' = {} /\ latched' = {}
      BY <1>1, <1>2 DEF PinsAreSound
    <3> QED
      BY <1>2, <1>3, <3>1, <3>2, <3>3, <3>4, <3>5, <3>6, <3>7 DEF PinsAreSound
  <2>8. /\ \A Q \in SUBSET Pins : Known(Q) => Known(Q)'
        /\ \A p \in Pins \ {q} : /\ Agrees(p) => Agrees(p)'
                                 /\ \A k \in Kinds : Lacks(p, k) => Lacks(p, k)'
    <3>1. \A p \in Pins : pin'[p].handler = pin[p].handler
      BY <2>3, <2>5
    <3>2. \A Q \in SUBSET Pins : Known(Q) => Known(Q)'
      BY <1>2, <3>1 DEF Known
    <3>3. \A p \in Pins \ {q} : /\ Agrees(p) => Agrees(p)'
                                /\ \A k \in Kinds : Lacks(p, k) => Lacks(p, k)'
      BY <2>3, <2>4 DEF Agrees, Lacks
    <3> QED
      BY <3>2, <3>3
  <2>9. Agrees(q) => Agrees(q)'
    BY <1>1, <2>2, <2>4, <2>5, PinAssumption DEF Agrees, PinsAreSound, Distinct
  <2>10. \A Q \in SUBSET Pins : Matched(Q) => Matched(Q)'
    BY <2>8, <2>9 DEF Matched
  <2>11. CASE Quiet
    BY <1>2, <1>3, <2>6, <2>7, <2>8, <2>10, <2>11 DEF PinInv, Stage, Quiet
  <2>12. CASE Releasing
    BY <1>3, <2>12 DEF Releasing
  <2>13. ASSUME NEW p \in Pins, NEW g \in IntFields, NEW k \in Kinds, Enabling(p, g, k)
         PROVE  PinInv'
    <3>1. p # q
      BY <1>5, <2>13, EnablingIsBusy
    <3>2. pin'[p] = pin[p] /\ Listens(p)' /\ Known(Pins)' /\ Matched(Pins \ {p})'
      BY <1>2, <2>3, <2>8, <2>10, <2>13, <3>1 DEF Enabling, Listens
    <3>3. (Agrees(p) => Agrees(p)') /\ (Lacks(p, k) => Lacks(p, k)')
      BY <2>8, <3>1
    <3>4. Enabling(p, g, k)'
      BY <1>2, <1>3, <2>13, <3>2, <3>3 DEF Enabling
    <3> QED
      BY <2>6, <2>7, <3>4 DEF PinInv, Stage
  <2>14. ASSUME NEW p \in Pins, NEW g \in IntFields, NEW k \in Kinds, Disabling(p, g, k)
         PROVE  PinInv'
    <3>1. p # q
      BY <1>5, <2>14, DisablingIsBusy
    <3>2. pin'[p] = pin[p] /\ Listens(p)' /\ Known(Pins)' /\ Matched(Pins \ {p})'
      BY <1>2, <2>3, <2>8, <2>10, <2>14, <3>1 DEF Disabling, Listens
    <3>3. (Agrees(p) => Agrees(p)') /\ (Lacks(p, k) => Lacks(p, k)')
      BY <2>8, <3>1
    <3>4. Disabling(p, g, k)'
      BY <1>2, <1>3, <2>14, <3>2, <3>3 DEF Disabling
    <3> QED
      BY <2>6, <2>7, <3>4 DEF PinInv, Stage
  <2>15. ASSUME NEW p \in Pins, NEW auto \in BOOLEAN, Connecting(p, auto)
         PROVE  PinInv'
    <3>1. pin'[p].handler = pin[p].handler /\ Known(Pins \ {p})' /\ Matched(Pins)'
      BY <2>3, <2>5, <2>8, <2>10, <2>15 DEF Connecting
    <3>2. Connecting(p, auto)'
      BY <1>2, <2>15, <3>1 DEF Connecting
    <3> QED
      BY <2>6, <2>7, <3>2 DEF PinInv, Stage
  <2>16. ASSUME NEW p \in Pins, Disconnecting(p)
         PROVE  PinInv'
    <3>1. /\ pin'[p].handler = pin[p].handler /\ Known(Pins \ {p})' /\ Matched(Pins)'
          /\ pin'[p].interrupt = Unknown /\ pin'[p].interrupt2 = Unknown
      BY <2>3, <2>5, <2>8, <2>10, <2>16 DEF Disconnecting
    <3>2. Disconnecting(p)'
      BY <1>2, <2>16, <3>1 DEF Disconnecting
    <3> QED
      BY <2>6, <2>7, <3>2 DEF PinInv, Stage
  <2>17. ASSUME NEW p \in Pins, NEW g \in IntFields, Forgetting(p, g)
         PROVE  PinInv'
    <3>1. todo = <<Set(p, g, Unknown)>> /\ pin[p][g] = Unknown /\ Known(Pins) /\ Matched(Pins)
      BY <2>17 DEF Forgetting
    <3>2. p # q
      <4>1. 1 \in 1 .. Len(todo) /\ todo[1] = Set(p, g, Unknown)
        BY <3>1
      <4> QED
        BY <1>5, <4>1, Occupied
    <3>3. pin'[p] = pin[p] /\ Known(Pins)' /\ Matched(Pins)'
      BY <2>3, <2>8, <2>10, <3>1, <3>2
    <3>4. Forgetting(p, g)'
      BY <1>2, <1>3, <3>1, <3>3 DEF Forgetting
    <3> QED
      BY <2>6, <2>7, <3>4 DEF PinInv, Stage
  <2> QED
    BY <1>1, <2>11, <2>12, <2>13, <2>14, <2>15, <2>16, <2>17 DEF Stage
<1> QED
  BY <1>4, <1>5 DEF Serve, IntFields

-----------------------------------------------------------------------------
(* The pins: the theorems. *)

LEMMA PinStep ==
    ASSUME PinInv, [Next]_vars
    PROVE  PinInv'
<1>1. CASE UNCHANGED <<gpio, todo>>
  <2>1. UNCHANGED <<pin, pins, manager, events, masked, copy, irqConnected, sources, todo>>
    BY <1>1 DEF gpio, manager, events
  <2>2. PinType /\ PinsAreSound /\ Stage
    BY DEF PinInv
  <2> QED
    BY <2>1, <2>2, SamePins, StageKept DEF PinInv, PinsAreSound
<1>2. CASE UNCHANGED vars
  BY <1>1, <1>2 DEF vars, program
<1>3. CASE Program
  BY <1>1, <1>3, CallKeeps, StatementKeeps DEF Program, AskForTag, AskStep, program
<1>4. CASE Interrupt
  <2>1. UNCHANGED todo
    BY <1>4 DEF Interrupt, TimerInterrupt, GPIOInterrupt, HandlePin, program
  <2>2. CASE TimerInterrupt
    BY <1>1, <2>1, <2>2 DEF TimerInterrupt
  <2>3. CASE ~masked /\ GPIOInterrupt
    <3>1. PICK p \in latched : Find(p)
      BY <2>3 DEF GPIOInterrupt
    <3>2. p \in Pins
      BY DEF PinInv, PinType
    <3> QED
      BY <2>1, <2>3, <3>1, <3>2, FindKeeps
  <2>4. CASE HandlePin
    BY <2>1, <2>4, ServeKeeps, AcknowledgeKeeps DEF HandlePin
  <2> QED
    BY <1>4, <2>2, <2>3, <2>4 DEF Interrupt
<1>5. CASE Devices
  <2>1. UNCHANGED todo
    BY <1>5 DEF Devices, program
  <2>2. CASE \E p \in Pins : Event(p)
    BY <2>1, <2>2, EventKeeps
  <2>3. CASE UNCHANGED gpio
    BY <1>1, <2>1, <2>3
  <2> QED
    BY <1>5, <2>2, <2>3 DEF Devices
<1> QED
  BY <1>2, <1>3, <1>4, <1>5 DEF Next

LEMMA PinStart ==
    ASSUME Init
    PROVE  PinInv
<1>1. /\ pin = [p \in Pins |-> [mode |-> Unknown, handler |-> FALSE, autoAck |-> FALSE,
                                interrupt |-> Unknown, interrupt2 |-> Unknown,
                                select |-> "input", pull |-> "Off"]]
      /\ pins = {} /\ irqConnected = FALSE /\ serving = NoPin
      /\ sources = [k \in Kinds |-> {}] /\ latched = {} /\ fresh = {}
      /\ masked = FALSE /\ todo = <<>>
  BY DEF Init, GPIOInit
<1>2. PinType
  <2>1. {Unknown, "input", "Off", FALSE} \subseteq Values
    BY DEF Values
  <2>2. \A V : \A a, b, c, d, e, f, g \in V :
           [mode |-> a, handler |-> b, autoAck |-> c, interrupt |-> d,
            interrupt2 |-> e, select |-> f, pull |-> g] \in [Fields -> V]
    BY DEF Fields
  <2>3. pin \in [Pins -> [Fields -> Values]]
    BY <1>1, <2>1, <2>2
  <2> QED
    BY <1>1, <2>3 DEF PinType
<1>3. PinsAreSound
  BY <1>1 DEF PinsAreSound, Distinct, Listens, EventsAreServed
<1>4. Quiet
  BY <1>1, PinAssumption DEF Quiet, Known, Matched, Agrees
<1> QED
  BY <1>2, <1>3, <1>4 DEF PinInv, Stage

\* The property of the board run, for all pins and kinds of event: no bit of a register
\* that pins share is lost to a call or a handler that comes between.
THEOREM NoBitIsLost == Spec => []SourcesMatchPins
<1>1. PinInv => SourcesMatchPins
  <2> SUFFICES ASSUME PinInv, NEW p \in Pins \ Busy
               PROVE  {k \in Kinds : p \in sources[k]}
                         = {pin[p].interrupt, pin[p].interrupt2} \ {Unknown}
    BY DEF SourcesMatchPins
  <2>1. Agrees(p)
    BY EnablingIsBusy, DisablingIsBusy
    DEF PinInv, Stage, Quiet, Releasing, Enabling, Disabling, Forgetting, Connecting,
        Disconnecting, Matched
  <2>2. /\ pin[p].interrupt \in Kinds \union {Unknown}
        /\ pin[p].interrupt2 \in Kinds \union {Unknown}
    BY DEF PinInv, PinType
  <2> QED
    BY <2>1, <2>2, PinAssumption DEF Agrees
<1> QED
  BY <1>1, PinStart, PinStep, PTL DEF Spec

\* The property of the board run, for all pins: an event of a pin that acknowledges
\* its own events stays latched until the handler has started after it.
THEOREM NoEventIsLost == Spec => []EventsAreServed
<1>1. PinInv => EventsAreServed
  BY DEF PinInv, PinsAreSound
<1> QED
  BY <1>1, PinStart, PinStep, PTL DEF Spec

-----------------------------------------------------------------------------
(* The table of handlers. *)

\* A line is enabled after its handler was stored, and its handler removed after the
\* line was disabled; no call does both.
Tables ==
    /\ \E S : todo \in Seq(S)
    /\ enabled \subseteq handlers
    /\ \A i \in 1 .. Len(todo) :
          todo[i].op = "enable" =>
             todo[i].line \in handlers \/ (i > 1 /\ todo[i - 1] = Table("store", todo[i].line))
    /\ \A i \in 1 .. Len(todo) :
          todo[i].op = "clear" =>
             todo[i].line \notin enabled \/ (i > 1 /\ todo[i - 1] = Table("disable", todo[i].line))
    /\ \A i, j \in 1 .. Len(todo) : ~(todo[i].op = "enable" /\ todo[j].op = "clear")

LEMMA TablesStatement ==
    ASSUME Tables, Statement
    PROVE  Tables'
<1> DEFINE Op(i) == todo[i].op
           Line(i) == todo[i].line
           Stored(i) == i > 1 /\ todo[i - 1] = Table("store", Line(i))
           Shut(i) == i > 1 /\ todo[i - 1] = Table("disable", Line(i))
<1>1. PICK S : todo \in Seq(S)
  BY DEF Tables
<1>2. /\ todo' \in Seq(S) /\ Len(todo) \in Nat \ {0} /\ Len(todo') = Len(todo) - 1
      /\ Head(todo) = todo[1]
      /\ \A i \in 1 .. Len(todo') : i + 1 \in 1 .. Len(todo) /\ todo'[i] = todo[i + 1]
  BY <1>1 DEF Statement
<1>3. /\ enabled \subseteq handlers
      /\ \A i \in 1 .. Len(todo) : Op(i) = "enable" => Line(i) \in handlers \/ Stored(i)
      /\ \A i \in 1 .. Len(todo) : Op(i) = "clear" => Line(i) \notin enabled \/ Shut(i)
      /\ \A i, j \in 1 .. Len(todo) : ~(Op(i) = "enable" /\ Op(j) = "clear")
  BY DEF Tables
<1>4. \A i \in 1 .. Len(todo') :
         /\ Stored(i + 1) => (i > 1 /\ todo'[i - 1] = Table("store", todo'[i].line))
                             \/ (i = 1 /\ todo[1] = Table("store", todo'[i].line))
         /\ Shut(i + 1) => (i > 1 /\ todo'[i - 1] = Table("disable", todo'[i].line))
                             \/ (i = 1 /\ todo[1] = Table("disable", todo'[i].line))
  BY <1>2
<1>5. 1 \in 1 .. Len(todo) /\ ~Stored(1) /\ ~Shut(1)
  BY <1>2
<1>6. \A i, j \in 1 .. Len(todo') : ~(todo'[i].op = "enable" /\ todo'[j].op = "clear")
  BY <1>2, <1>3
<1>7. \A i \in 1 .. Len(todo') :
         /\ todo'[i].op = "enable" => Op(1) # "clear"
         /\ todo'[i].op = "clear" => Op(1) # "enable"
  BY <1>2, <1>3, <1>5
<1>8. \/ Op(1) = "store" /\ handlers' = handlers \union {Line(1)} /\ UNCHANGED enabled
      \/ Op(1) = "enable" /\ enabled' = enabled \union {Line(1)} /\ UNCHANGED handlers
      \/ Op(1) = "disable" /\ enabled' = enabled \ {Line(1)} /\ UNCHANGED handlers
      \/ Op(1) = "clear" /\ handlers' = handlers \ {Line(1)} /\ UNCHANGED enabled
      \/ Op(1) \notin {"store", "disable"} /\ UNCHANGED <<handlers, enabled>>
  BY <1>2 DEF Statement, TableStatement, PinStatement, TimerStatement, table
<1>9. enabled' \subseteq handlers'
  BY <1>3, <1>5, <1>8
<1>10. \A l : /\ todo[1] = Table("store", l) => Op(1) = "store" /\ Line(1) = l
              /\ todo[1] = Table("disable", l) => Op(1) = "disable" /\ Line(1) = l
  BY DEF Table
<1> HIDE DEF Op, Line, Stored, Shut
<1>11. ASSUME NEW i \in 1 .. Len(todo'), todo'[i].op = "enable"
       PROVE  todo'[i].line \in handlers'
              \/ (i > 1 /\ todo'[i - 1] = Table("store", todo'[i].line))
  <2>1. todo'[i].line \in handlers \/ Stored(i + 1)
    BY <1>2, <1>3, <1>11 DEF Op, Line
  <2>2. Op(1) # "clear"
    BY <1>7, <1>11
  <2> QED
    BY <1>4, <1>8, <1>10, <2>1, <2>2
<1>12. ASSUME NEW i \in 1 .. Len(todo'), todo'[i].op = "clear"
       PROVE  todo'[i].line \notin enabled'
              \/ (i > 1 /\ todo'[i - 1] = Table("disable", todo'[i].line))
  <2>1. todo'[i].line \notin enabled \/ Shut(i + 1)
    BY <1>2, <1>3, <1>12 DEF Op, Line
  <2>2. Op(1) # "enable"
    BY <1>7, <1>12
  <2> QED
    BY <1>4, <1>8, <1>10, <2>1, <2>2
<1> QED
  BY <1>2, <1>6, <1>9, <1>11, <1>12 DEF Tables

\* A call that neither enables a line nor clears a handler nor starts the timer.
Mute(s) ==
    /\ \E S : s \in Seq(S)
    /\ \A i \in 1 .. Len(s) : s[i].op \notin {"enable", "clear", "alarm", "run"}

LEMMA MuteTables ==
    ASSUME Tables, Mute(todo'), UNCHANGED <<handlers, enabled>>
    PROVE  Tables'
BY DEF Tables, Mute

LEMMA MuteCalls ==
    ASSUME NEW p \in Pins, NEW s \in PinCalls(p, PinModes[p])
    PROVE  Mute(s)
<1>1. ASSUME NEW m \in PinModes[p], s = SetMode(p, m)
      PROVE  Mute(s)
  <2>1. \A x \in Modes : x.op \notin {"enable", "clear", "alarm", "run"}
    BY DEF Modes, Set
  <2>2. s \in Seq(Modes)
    BY <1>1, PlainModes
  <2> QED
    BY <2>1, <2>2 DEF Mute
<1>2. ASSUME NEW auto \in BOOLEAN, s = ConnectPin(p, auto)
      PROVE  Mute(s)
  <2> DEFINE a == Set(p, "handler", TRUE)
             b == Set(p, "autoAck", auto)
             c == Slot(p, TRUE)
  <2>1. s \in Seq({a, b, c})
    BY <1>2 DEF ConnectPin
  <2>2. \A x \in {a, b, c} : x.op \notin {"enable", "clear", "alarm", "run"}
    BY DEF Set, Slot
  <2> HIDE DEF a, b, c
  <2> QED
    BY <2>1, <2>2 DEF Mute
<1>3. ASSUME s = DisconnectPin(p)
      PROVE  Mute(s)
  <2> DEFINE a == Set(p, "handler", FALSE)
             b == Slot(p, FALSE)
  <2>1. s \in Seq({a, b})
    BY <1>3 DEF DisconnectPin
  <2>2. \A x \in {a, b} : x.op \notin {"enable", "clear", "alarm", "run"}
    BY DEF Set, Slot
  <2> HIDE DEF a, b
  <2> QED
    BY <2>1, <2>2 DEF Mute
<1>4. ASSUME NEW f, NEW k, NEW v, NEW state, s = Update(p, k, state) \o <<Set(p, f, v)>>
                                          \/ s = <<Set(p, f, v)>> \o Update(p, k, state)
      PROVE  Mute(s)
  <2> DEFINE a == Set(p, f, v)
             b == Fetch(p, k)
             c == Detect(p, k, state)
             S == {a, b, c, Lock, Unlock}
  <2>1. Update(p, k, state) \in Seq(S) /\ <<a>> \in Seq(S)
    BY DEF Update, Lock, Unlock
  <2>2. \A x \in S : x.op \notin {"enable", "clear", "alarm", "run"}
    BY DEF Set, Fetch, Detect, Lock, Unlock
  <2>3. s \in Seq(S)
    BY <1>4, <2>1, ConcatProperties
  <2> HIDE DEF S
  <2> QED
    BY <2>2, <2>3 DEF Mute
<1>5. ASSUME NEW f, NEW k, s = Enable(p, f, k)
      PROVE  Mute(s)
  BY <1>4, <1>5 DEF Enable
<1>6. ASSUME NEW f, s = Disable(p, f)
      PROVE  Mute(s)
  <2>1. CASE pin[p][f] = Unknown
    <3>1. s = <<Set(p, f, Unknown)>>
      BY <1>6, <2>1 DEF Disable
    <3>2. s \in Seq({Set(p, f, Unknown)}) /\ Set(p, f, Unknown).op = "set"
      BY <3>1 DEF Set
    <3> QED
      BY <3>2 DEF Mute
  <2> QED
    BY <1>4, <1>6, <2>1 DEF Disable
<1>7. \/ \E m \in PinModes[p] : s = SetMode(p, m)
      \/ \E auto \in BOOLEAN : s = ConnectPin(p, auto)
      \/ s = DisconnectPin(p)
      \/ \E f, k : s = Enable(p, f, k)
      \/ \E f : s = Disable(p, f)
  BY DEF PinCalls
<1> QED
  BY <1>1, <1>2, <1>3, <1>5, <1>6, <1>7

LEMMA TablesCall ==
    ASSUME Tables, Call
    PROVE  Tables'
<1>1. enabled' = enabled /\ handlers' = handlers /\ enabled \subseteq handlers /\ todo' \in Calls
  BY DEF Call, table, Tables
<1>2. \A op, line : Table(op, line).op = op /\ Table(op, line).line = line
  BY DEF Table
<1>3. \A op : Clock(op).op = op
  BY DEF Clock
<1>4. CASE todo' = TimerInit
  <2>1. CASE todo' = <<>>
    BY <1>1, <2>1 DEF Tables
  <2>2. CASE todo' = <<Clock("connected")>>
                     \o <<Table("store", "timer"), Table("enable", "timer")>>
                     \o <<Clock("period"), Clock("alarm"), Clock("run")>>
    <3> DEFINE S == {Clock(op) : op \in {"connected", "period", "alarm", "run"}}
                    \union {Table(op, "timer") : op \in {"store", "enable"}}
    <3>1. /\ todo' \in Seq(S) /\ Len(todo') = 6
          /\ todo'[1] = Clock("connected") /\ todo'[2] = Table("store", "timer")
          /\ todo'[3] = Table("enable", "timer") /\ todo'[4] = Clock("period")
          /\ todo'[5] = Clock("alarm") /\ todo'[6] = Clock("run")
      BY <2>2
    <3>2. \A i \in 1 .. 6 : i = 1 \/ i = 2 \/ i = 3 \/ i = 4 \/ i = 5 \/ i = 6
      OBVIOUS
    <3>3. \A i \in 1 .. 6 : todo'[i].op # "clear" /\ (todo'[i].op = "enable" => i = 3)
      BY <1>2, <1>3, <3>1, <3>2
    <3> HIDE DEF S
    <3> QED
      BY <1>1, <1>2, <3>1, <3>3 DEF Tables
  <2> QED
    BY <1>4, <2>1, <2>2 DEF TimerInit, Connect
<1>5. CASE todo' = TimerDisconnect
  <2>1. CASE todo' = <<>>
    BY <1>1, <2>1 DEF Tables
  <2>2. CASE todo' = <<Table("disable", "timer"), Table("clear", "timer")>>
                     \o <<Clock("disconnected")>>
    <3> DEFINE S == {Clock("disconnected")} \union {Table(op, "timer") : op \in {"disable", "clear"}}
    <3>1. /\ todo' \in Seq(S) /\ Len(todo') = 3
          /\ todo'[1] = Table("disable", "timer") /\ todo'[2] = Table("clear", "timer")
          /\ todo'[3] = Clock("disconnected")
      BY <2>2
    <3>2. \A i \in 1 .. 3 : i = 1 \/ i = 2 \/ i = 3
      OBVIOUS
    <3>3. \A i \in 1 .. 3 : todo'[i].op # "enable" /\ (todo'[i].op = "clear" => i = 2)
      BY <1>2, <1>3, <3>1, <3>2
    <3> HIDE DEF S
    <3> QED
      BY <1>1, <1>2, <3>1, <3>3 DEF Tables
  <2> QED
    BY <1>5, <2>1, <2>2 DEF TimerDisconnect, Disconnect
<1>6. CASE todo' = ManagerInit
  <2> DEFINE last == [op |-> "irqConnected"]
             S == {last} \union {Table(op, "gpio") : op \in {"store", "enable"}}
  <2>1. todo' = <<Table("store", "gpio"), Table("enable", "gpio")>> \o <<last>>
    BY <1>6 DEF ManagerInit, Connect
  <2>2. last.op = "irqConnected"
    OBVIOUS
  <2> HIDE DEF last
  <2>3. /\ todo' \in Seq(S) /\ Len(todo') = 3
        /\ todo'[1] = Table("store", "gpio") /\ todo'[2] = Table("enable", "gpio")
        /\ todo'[3] = last
    BY <2>1
  <2>4. \A i \in 1 .. 3 : i = 1 \/ i = 2 \/ i = 3
    OBVIOUS
  <2>5. \A i \in 1 .. 3 : todo'[i].op # "clear" /\ (todo'[i].op = "enable" => i = 2)
    BY <1>2, <2>2, <2>3, <2>4
  <2> HIDE DEF S
  <2> QED
    BY <1>1, <1>2, <2>3, <2>5 DEF Tables
<1>7. CASE \E p \in Pins : todo' \in PinCalls(p, PinModes[p])
  <2>1. Mute(todo')
    BY <1>7, MuteCalls
  <2> QED
    BY <1>1, <2>1, MuteTables
<1> QED
  BY <1>1, <1>4, <1>5, <1>6, <1>7 DEF Calls

\* The property of the board run, for every set of pins: of the assertions between the
\* controller and the handler of a pin, no order of calls and events makes one fail that
\* is about a handler: no line is enabled, and no pin called, without one.
THEOREM HandlersAreThere == Spec => []NoHandlerMissing
<1> DEFINE Inv == PinInv /\ Tables /\ NoHandlerMissing
<1>1. Init => Inv
  <2> SUFFICES ASSUME Init PROVE Inv
    OBVIOUS
  <2>1. todo = <<>> /\ enabled = {} /\ handlers = {} /\ failed = "none"
    BY DEF Init, TableInit
  <2> QED
    BY <2>1, PinStart DEF Tables, NoHandlerMissing
<1>2. ASSUME Inv, [Next]_vars
      PROVE  Inv'
  <2>1. PinInv'
    BY <1>2, PinStep
  <2>2. CASE UNCHANGED <<todo, handlers, enabled, failed>>
    BY <1>2, <2>1, <2>2 DEF Tables, NoHandlerMissing
  <2>3. CASE UNCHANGED vars
    BY <2>2, <2>3 DEF vars, table, program
  <2>4. CASE Program
    <3>1. UNCHANGED failed
      BY <2>4 DEF Program, AskForTag, AskStep, Call, Statement
    <3>2. Tables'
      <4>1. CASE AskForTag \/ AskStep
        BY <1>2, <4>1 DEF AskForTag, AskStep, table, program, Tables
      <4> QED
        BY <1>2, <2>4, <4>1, TablesCall, TablesStatement DEF Program
    <3> QED
      BY <1>2, <2>1, <3>1, <3>2 DEF NoHandlerMissing
  <2>5. CASE Interrupt
    <3>1. UNCHANGED <<todo, handlers, enabled>>
      BY <2>5 DEF Interrupt, TimerInterrupt, GPIOInterrupt, HandlePin, program, table
    <3>2. Tables'
      BY <1>2, <3>1 DEF Tables
    <3>3. CASE TimerInterrupt
      BY <1>2, <2>1, <3>2, <3>3 DEF TimerInterrupt, CallIRQHandler, Tables, NoHandlerMissing
    <3>4. CASE GPIOInterrupt
      <4>1. PICK p \in latched : failed' = Assertions(p)
        BY <3>4 DEF GPIOInterrupt, Find
      <4>2. p \in Pins /\ irqConnected
        BY <1>2 DEF PinInv, PinType, PinsAreSound
      <4>3. pin[p].interrupt # Unknown \/ pin[p].interrupt2 # Unknown => pin[p].handler
        BY <1>2, <4>2 DEF PinInv, PinsAreSound, Listens
      <4> QED
        BY <2>1, <3>2, <4>1, <4>2, <4>3 DEF Assertions, NoHandlerMissing
    <3>5. CASE HandlePin
      BY <1>2, <2>1, <3>2, <3>5 DEF HandlePin, NoHandlerMissing
    <3> QED
      BY <2>5, <3>3, <3>4, <3>5 DEF Interrupt
  <2>6. CASE Devices
    BY <2>2, <2>6 DEF Devices, table, program
  <2> QED
    BY <1>2, <2>3, <2>4, <2>5, <2>6 DEF Next
<1>3. Inv => NoHandlerMissing
  OBVIOUS
<1> QED
  BY <1>1, <1>2, <1>3, PTL DEF Spec

-----------------------------------------------------------------------------
(* The timer. *)

\* Counted from the last start of a period, the alarm lies as many periods back as are
\* still due, and one ahead when none is.
Armed ==
    /\ clockTicksPerHzTick = Period
    /\ ahead = (1 - due) * Period - phase

\* init knows the period before it sets the alarm, and sets it before it switches the
\* timer on.
Starting ==
    /\ \E S : todo \in Seq(S)
    /\ \A i \in 1 .. Len(todo) :
          todo[i].op = "run" => Armed \/ (i > 1 /\ todo[i - 1] = Clock("alarm"))
    /\ \A i \in 1 .. Len(todo) :
          todo[i].op = "alarm" =>
             clockTicksPerHzTick = Period \/ (i > 1 /\ todo[i - 1] = Clock("period"))

Counted ==
    /\ phase \in 0 .. Period - 1 /\ ahead \in Int /\ due \in Nat
    /\ on => Armed
    /\ Starting

LEMMA Periods ==
    ASSUME NEW n \in Int
    PROVE  /\ n * Period \in Int
           /\ (n + 1) * Period = n * Period + Period
           /\ (n - 1) * Period = n * Period - Period
           /\ n >= 1 => n * Period >= Period
           /\ n <= 0 => n * Period <= 0
           /\ 1 * Period = Period
<1>1. Period \in Nat \ {0}
  BY TimerAssumption
<1>2. (n + 1) * Period = n * Period + Period /\ (n - 1) * Period = n * Period - Period
  BY <1>1
<1>3. n >= 1 => n * Period >= Period
  BY <1>1
<1>4. n <= 0 => n * Period <= 0
  BY <1>1
<1> QED
  BY <1>1, <1>2, <1>3, <1>4

\* An alarm is pending exactly when a period is due.
LEMMA DueIsPending ==
    ASSUME phase \in 0 .. Period - 1, ahead \in Int, due \in Nat, Armed
    PROVE  ahead <= 0 <=> due > 0
<1> DEFINE x == (1 - due) * Period
<1>1. x \in Int /\ (due = 0 => x = Period) /\ (due > 0 => x <= 0)
  <2>1. 1 - due \in Int /\ (due = 0 => 1 - due = 1) /\ (due > 0 => 1 - due <= 0)
    OBVIOUS
  <2> QED
    BY <2>1, Periods
<1>2. ahead = x - phase
  BY DEF Armed
<1> HIDE DEF x
<1> QED
  BY <1>1, <1>2, TimerAssumption

LEMMA RearmCounts ==
    ASSUME Counted, AlarmPending, Rearm, UNCHANGED todo
    PROVE  Counted'
<1>1. /\ on /\ ahead <= 0 /\ Armed /\ phase \in 0 .. Period - 1 /\ ahead \in Int /\ due \in Nat
  BY DEF Counted, AlarmPending
<1>2. due > 0
  BY <1>1, DueIsPending
<1>3. /\ ahead' = ahead + Period /\ due' = due - 1
      /\ UNCHANGED <<clockTicksPerHzTick, on, phase>>
  BY <1>1 DEF Armed, Rearm
<1>4. Armed'
  <2> DEFINE x == (1 - due) * Period
             y == (1 - due') * Period
  <2>1. x \in Int /\ y = x + Period
    <3>1. 1 - due \in Int /\ 1 - due' = (1 - due) + 1
      BY <1>1, <1>3
    <3> QED
      BY <3>1, Periods
  <2>2. ahead = x - phase
    BY <1>1 DEF Armed
  <2>3. ahead' = y - phase'
    <3> HIDE DEF x, y
    <3> QED
      BY <1>1, <1>3, <2>1, <2>2, TimerAssumption
  <2> QED
    BY <1>1, <1>3, <2>3 DEF Armed
<1>5. Starting'
  BY <1>3, <1>4 DEF Counted, Starting
<1> QED
  BY <1>1, <1>2, <1>3, <1>4, <1>5, TimerAssumption DEF Counted

LEMMA TimeCounts ==
    ASSUME Counted, TimePasses, UNCHANGED todo
    PROVE  Counted'
<1>1. on /\ Armed /\ phase \in 0 .. Period - 1 /\ ahead \in Int /\ due \in Nat /\ Period \in Nat \ {0}
  BY TimerAssumption DEF Counted, TimePasses
<1>2. /\ ahead' = ahead - 1 /\ phase' = (phase + 1) % Period
      /\ due' = IF phase' = 0 THEN due + 1 ELSE due
      /\ UNCHANGED <<clockTicksPerHzTick, on>>
  BY DEF TimePasses
<1> DEFINE x == (1 - due) * Period
           y == (1 - due') * Period
<1>3. x \in Int /\ ahead = x - phase
  <2>1. 1 - due \in Int
    BY <1>1
  <2> QED
    BY <1>1, <2>1, Periods DEF Armed
<1>4. CASE phase + 1 < Period
  <2>1. phase' = phase + 1
    <3>1. (phase + 1) % Period = phase + 1
      BY <1>1, <1>4
    <3> QED
      BY <1>2, <3>1
  <2>2. due' = due
    BY <1>1, <1>2, <2>1
  <2>3. y = x
    BY <2>2
  <2> HIDE DEF x, y
  <2>4. /\ phase' \in 0 .. Period - 1 /\ ahead' \in Int /\ due' \in Nat
        /\ ahead' = y - phase'
    BY <1>1, <1>2, <1>3, <1>4, <2>1, <2>2, <2>3
  <2> USE DEF y
  <2>5. Armed'
    BY <1>1, <1>2, <2>4 DEF Armed
  <2> QED
    BY <1>2, <2>4, <2>5 DEF Counted, Starting
<1>5. CASE phase + 1 = Period
  <2>1. phase' = 0
    <3>1. Period % Period = 0
      BY <1>1
    <3> QED
      BY <1>2, <1>5, <3>1
  <2>2. due' = due + 1
    BY <1>2, <2>1
  <2>3. y = x - Period
    <3>1. 1 - due \in Int /\ 1 - due' = (1 - due) - 1
      BY <1>1, <2>2
    <3> QED
      BY <3>1, Periods
  <2> HIDE DEF x, y
  <2>4. /\ phase' \in 0 .. Period - 1 /\ ahead' \in Int /\ due' \in Nat
        /\ ahead' = y - phase'
    BY <1>1, <1>2, <1>3, <1>5, <2>1, <2>2, <2>3
  <2> USE DEF y
  <2>5. Armed'
    BY <1>1, <1>2, <2>4 DEF Armed
  <2> QED
    BY <1>2, <2>4, <2>5 DEF Counted, Starting
<1> QED
  BY <1>1, <1>4, <1>5

LEMMA StatementCounts ==
    ASSUME Counted, Statement
    PROVE  Counted'
<1>1. PICK S : todo \in Seq(S)
  BY DEF Counted, Starting
<1>2. /\ todo' \in Seq(S) /\ Len(todo) \in Nat \ {0} /\ Len(todo') = Len(todo) - 1
      /\ Head(todo) = todo[1] /\ 1 \in 1 .. Len(todo)
      /\ \A i \in 1 .. Len(todo') : i + 1 \in 1 .. Len(todo) /\ todo'[i] = todo[i + 1]
  BY <1>1 DEF Statement
<1>3. /\ todo[1].op = "run" => Armed
      /\ todo[1].op = "alarm" => clockTicksPerHzTick = Period
  BY <1>2 DEF Counted, Starting
<1>4. \/ todo[1].op \notin {"period", "alarm", "run"} /\ UNCHANGED <<clockTicksPerHzTick, on, ahead, phase, due>>
      \/ /\ todo[1].op = "period" /\ clockTicksPerHzTick' = Period
         /\ UNCHANGED <<on, ahead, phase, due>>
      \/ /\ todo[1].op = "alarm" /\ ahead' = clockTicksPerHzTick /\ phase' = 0 /\ due' = 0
         /\ UNCHANGED <<clockTicksPerHzTick, on>>
      \/ /\ todo[1].op = "run" /\ on' = TRUE
         /\ UNCHANGED <<clockTicksPerHzTick, ahead, phase, due>>
  BY <1>2 DEF Statement, TableStatement, PinStatement, TimerStatement, timer, history
<1>5. todo[1].op = "alarm" => Armed'
  <2> SUFFICES ASSUME todo[1].op = "alarm" PROVE Armed'
    OBVIOUS
  <2>1. clockTicksPerHzTick' = Period /\ ahead' = Period /\ phase' = 0 /\ due' = 0
    BY <1>3, <1>4
  <2>2. (1 - due') * Period - phase' = Period
    <3>1. 1 - due' = 1 /\ 1 * Period = Period /\ Period \in Nat
      BY <2>1, Periods, TimerAssumption
    <3> QED
      BY <2>1, <3>1
  <2> QED
    BY <2>1, <2>2 DEF Armed
<1>6. Armed => Armed'
  BY <1>4, <1>5 DEF Armed
<1>7. on' => Armed'
  BY <1>3, <1>4, <1>5, <1>6 DEF Counted
<1>8. clockTicksPerHzTick = Period \/ todo[1].op = "period" => clockTicksPerHzTick' = Period
  BY <1>4
<1>9. phase' \in 0 .. Period - 1 /\ ahead' \in Int /\ due' \in Nat
  BY <1>3, <1>4, TimerAssumption DEF Counted
<1>10. Clock("alarm").op = "alarm" /\ Clock("period").op = "period"
  BY DEF Clock
<1>11. ASSUME NEW i \in 1 .. Len(todo')
       PROVE  /\ todo'[i].op = "run" => Armed' \/ (i > 1 /\ todo'[i - 1] = Clock("alarm"))
              /\ todo'[i].op = "alarm" =>
                    clockTicksPerHzTick' = Period \/ (i > 1 /\ todo'[i - 1] = Clock("period"))
  <2>1. /\ todo[i + 1].op = "run" => Armed \/ todo[i] = Clock("alarm")
        /\ todo[i + 1].op = "alarm" => clockTicksPerHzTick = Period \/ todo[i] = Clock("period")
    <3>1. i + 1 \in 1 .. Len(todo) /\ (i + 1) - 1 = i
      BY <1>2
    <3> QED
      BY <3>1 DEF Counted, Starting
  <2>2. i = 1 \/ (i > 1 /\ todo'[i - 1] = todo[i])
    BY <1>2
  <2> QED
    BY <1>2, <1>5, <1>6, <1>8, <1>10, <2>1, <2>2
<1> QED
  BY <1>2, <1>7, <1>9, <1>11 DEF Counted, Starting

LEMMA CallCounts ==
    ASSUME Counted, Call
    PROVE  Counted'
<1>1. UNCHANGED <<clockTicksPerHzTick, on, ahead, phase, due>> /\ todo' \in Calls
  BY DEF Call, timer, history
<1>2. \A op, line : Table(op, line).op = op
  BY DEF Table
<1>3. \A op : Clock(op).op = op
  BY DEF Clock
<1>4. Armed' <=> Armed
  BY <1>1 DEF Armed
<1>5. CASE Mute(todo')
  BY <1>1, <1>4, <1>5 DEF Counted, Starting, Mute
<1>6. CASE todo' = <<>>
  BY <1>5, <1>6 DEF Mute
<1>7. CASE todo' = <<Clock("connected")>>
                   \o <<Table("store", "timer"), Table("enable", "timer")>>
                   \o <<Clock("period"), Clock("alarm"), Clock("run")>>
  <2> DEFINE S == {Clock(op) : op \in {"connected", "period", "alarm", "run"}}
                  \union {Table(op, "timer") : op \in {"store", "enable"}}
  <2>1. /\ todo' \in Seq(S) /\ Len(todo') = 6
        /\ todo'[1] = Clock("connected") /\ todo'[2] = Table("store", "timer")
        /\ todo'[3] = Table("enable", "timer") /\ todo'[4] = Clock("period")
        /\ todo'[5] = Clock("alarm") /\ todo'[6] = Clock("run")
    BY <1>7
  <2>2. \A i \in 1 .. 6 : i = 1 \/ i = 2 \/ i = 3 \/ i = 4 \/ i = 5 \/ i = 6
    OBVIOUS
  <2>3. \A i \in 1 .. 6 : (todo'[i].op = "alarm" => i = 5) /\ (todo'[i].op = "run" => i = 6)
    BY <1>2, <1>3, <2>1, <2>2
  <2> HIDE DEF S
  <2>4. ASSUME NEW i \in 1 .. Len(todo')
        PROVE  /\ todo'[i].op = "alarm" => i > 1 /\ todo'[i - 1] = Clock("period")
               /\ todo'[i].op = "run" => i > 1 /\ todo'[i - 1] = Clock("alarm")
    <3>1. i \in 1 .. 6
      BY <2>1
    <3>2. 5 > 1 /\ 5 - 1 = 4 /\ 6 > 1 /\ 6 - 1 = 5
      OBVIOUS
    <3> QED
      BY <2>1, <2>3, <3>1, <3>2
  <2>5. \E T : todo' \in Seq(T)
    BY <2>1
  <2>6. Starting'
    BY <2>4, <2>5 DEF Starting
  <2> QED
    BY <1>1, <1>4, <2>6 DEF Counted
<1>8. CASE todo' = TimerInit
  BY <1>6, <1>7, <1>8 DEF TimerInit, Connect
<1>9. CASE todo' = <<Table("disable", "timer"), Table("clear", "timer")>>
                   \o <<Clock("disconnected")>>
  <2> DEFINE S == {Clock("disconnected")} \union {Table(op, "timer") : op \in {"disable", "clear"}}
  <2>1. todo' \in Seq(S)
    BY <1>9
  <2>2. \A x \in S : x.op \notin {"alarm", "run"}
    BY <1>2, <1>3
  <2> HIDE DEF S
  <2> QED
    BY <1>1, <1>4, <2>1, <2>2 DEF Counted, Starting
<1>10. CASE todo' = TimerDisconnect
  BY <1>6, <1>9, <1>10 DEF TimerDisconnect, Disconnect
<1>11. CASE todo' = ManagerInit
  <2> DEFINE last == [op |-> "irqConnected"]
             S == {last} \union {Table(op, "gpio") : op \in {"store", "enable"}}
  <2>1. todo' = <<Table("store", "gpio"), Table("enable", "gpio")>> \o <<last>>
    BY <1>11 DEF ManagerInit, Connect
  <2>2. todo' \in Seq(S)
    BY <2>1
  <2>3. \A x \in S : x.op \notin {"alarm", "run"}
    BY <1>2
  <2> HIDE DEF S
  <2> QED
    BY <1>1, <1>4, <2>2, <2>3 DEF Counted, Starting
<1>12. CASE \E p \in Pins : todo' \in PinCalls(p, PinModes[p])
  BY <1>5, <1>12, MuteCalls
<1> QED
  BY <1>1, <1>8, <1>10, <1>11, <1>12 DEF Calls

LEMMA CountedStep ==
    ASSUME Counted, [Next]_vars
    PROVE  Counted'
<1>1. CASE UNCHANGED <<timer, todo>>
  BY <1>1 DEF timer, history, Counted, Starting, Armed
<1>2. CASE UNCHANGED vars
  BY <1>1, <1>2 DEF vars, program
<1>3. CASE Program
  BY <1>1, <1>3, CallCounts, StatementCounts DEF Program, AskForTag, AskStep, program
<1>4. CASE Interrupt
  BY <1>1, <1>4, RearmCounts DEF Interrupt, TimerInterrupt, GPIOInterrupt, HandlePin, program
<1>5. CASE Devices
  BY <1>1, <1>5, TimeCounts DEF Devices, program
<1> QED
  BY <1>2, <1>3, <1>4, <1>5 DEF Next

\* The property of the board run, for every period, however late the handler runs: it runs
\* once for each period that has passed, none skipped and none counted twice.
THEOREM PeriodsAreKept == Spec => []TicksAreKept
<1>1. Init => Counted
  <2> SUFFICES ASSUME Init PROVE Counted
    OBVIOUS
  <2>1. todo = <<>> /\ on = FALSE /\ ahead = 0 /\ phase = 0 /\ due = 0
    BY DEF Init, TimerStart
  <2> QED
    BY <2>1, TimerAssumption DEF Counted, Starting
<1>2. Counted /\ [Next]_vars => Counted'
  BY CountedStep
<1>3. Counted => TicksAreKept
  BY DueIsPending DEF Counted, TicksAreKept, AlarmPending
<1> QED
  BY <1>1, <1>2, <1>3, PTL DEF Spec
=============================================================================
