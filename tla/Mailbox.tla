------------------------------- MODULE Mailbox -------------------------------
(***************************************************************************)
(* Property tags: requests to the VideoCore's firmware, which shares a page *)
(* of memory with the kernel and is told of it through a pair of mailboxes. *)
(* getTag, getTags and Mailbox::writeRead are one sequence of steps; the    *)
(* firmware (external) takes its own, and may have left messages behind or *)
(* send some on other channels at any time.                                 *)
(***************************************************************************)
EXTENDS Integers, Sequences

CONSTANTS
    CHANNEL_OUT, OtherChannel,    \* the channel of property tags, and another
    Buffer, OtherBuffer,          \* the address of the shared page, and another
    Tags, KnownTags,              \* tag identifiers, and those the firmware answers
    ParameterTags,                \* the tags the kernel asks for with a requested_param_size
    Depth,                        \* messages a mailbox holds
    MaxNotices                    \* bound on the messages on other channels

ASSUME MailboxAssumption ==
    /\ CHANNEL_OUT # OtherChannel
    /\ KnownTags \subseteq Tags /\ ParameterTags \subseteq Tags /\ Depth \in Nat \ {0} /\ MaxNotices \in Nat

Messages == [channel : {CHANNEL_OUT, OtherChannel}, data : {Buffer, OtherBuffer}]

VARIABLES
    inbox,     \* mailbox 0, to the kernel
    outbox,    \* mailbox 1, to the firmware
    page,      \* the PropertyBuffer: its code, the tag, and the value with its length
    request,   \* the tag the kernel asks for
    step,      \* where getTag is
    reply,     \* the message read last, and at the end what getTag returns
    notices    \* messages on other channels so far

mail == <<inbox, outbox, page, request, step, reply, notices>>

\* The value a tag is sent with: of length 0, or the caller's own bytes.
Asked(tag) == IF tag \in ParameterTags THEN "own" ELSE "none"

\* What the firmware makes of it: a tag it does not know stays as it was.
Answer(tag, value) == IF tag \in KnownTags THEN tag ELSE value

MailInit ==
    /\ inbox \in {<<>>} \union {<<m>> : m \in Messages}
    /\ outbox = <<>>
    /\ page = [code |-> "success", tag |-> "none", value |-> "none"]
    /\ request = "none" /\ step = "idle" /\ reply = "none" /\ notices = 0

\* getTag: a tag the caller wants.
GetTag(tag) ==
    /\ step = "idle"
    /\ request' = tag /\ step' = "compose"
    /\ UNCHANGED <<inbox, outbox, page, reply, notices>>

\* getTags fills the page.
Compose ==
    /\ step = "compose"
    /\ page' = [code |-> "request", tag |-> request, value |-> Asked(request)]
    /\ step' = "flush"
    /\ UNCHANGED <<inbox, outbox, request, reply, notices>>

\* A variant of writeRead that does not flush.
FlushNothing ==
    /\ step = "flush" /\ step' = "write"
    /\ UNCHANGED <<inbox, outbox, page, request, reply, notices>>

\* flush, one message at a time.
Flush ==
    /\ step = "flush"
    /\ \/ inbox # <<>> /\ inbox' = Tail(inbox) /\ UNCHANGED step
       \/ inbox = <<>> /\ step' = "write" /\ UNCHANGED inbox
    /\ UNCHANGED <<outbox, page, request, reply, notices>>

\* write waits while the mailbox is full.
WriteMail ==
    /\ step = "write" /\ Len(outbox) < Depth
    /\ outbox' = Append(outbox, [channel |-> CHANNEL_OUT, data |-> Buffer])
    /\ step' = "read"
    /\ UNCHANGED <<inbox, page, request, reply, notices>>

\* read: messages of other channels are dropped.
ReadMail ==
    /\ step = "read" /\ inbox # <<>>
    /\ inbox' = Tail(inbox)
    /\ \/ /\ Head(inbox).channel = CHANNEL_OUT
          /\ reply' = Head(inbox).data /\ step' = "check"
       \/ /\ Head(inbox).channel # CHANNEL_OUT
          /\ UNCHANGED <<reply, step>>
    /\ UNCHANGED <<outbox, page, request, notices>>

\* The end of getTags and of getTag: the message must be the address of the page, its
\* code a success, and the value must have a length, if only the one it was sent with.
Check ==
    /\ step = "check"
    /\ reply' = IF reply = Buffer /\ page.code = "success" THEN page.value ELSE "none"
    /\ step' = "idle"
    /\ UNCHANGED <<inbox, outbox, page, request, notices>>

Kernel == Compose \/ Flush \/ WriteMail \/ ReadMail \/ Check

\* The firmware answers in the page, then returns the message.
Respond ==
    /\ outbox # <<>> /\ Len(inbox) < Depth
    /\ outbox' = Tail(outbox)
    /\ page' \in {[page EXCEPT !.code = code, !.value = Answer(page.tag, page.value)] :
                     code \in IF page.tag \in KnownTags THEN {"success"} ELSE {"success", "failure"}}
    /\ inbox' = Append(inbox, Head(outbox))
    /\ UNCHANGED <<request, step, reply, notices>>

Notify ==
    /\ notices < MaxNotices /\ Len(inbox) < Depth
    /\ notices' = notices + 1
    /\ inbox' = Append(inbox, [channel |-> OtherChannel, data |-> Buffer])
    /\ UNCHANGED <<outbox, page, request, step, reply>>

Firmware == Respond \/ Notify

\* What getTag may return: the answer of a firmware that knows the tag; of one that does
\* not, failure, or the caller's own bytes if it sent any.
Answers(tag) == IF tag \in KnownTags THEN {tag} ELSE {"none", Asked(tag)}

\* Whatever was in the mailbox before or comes in between, getTag returns no other
\* request's answer: the firmware's to this very one if it has any, and success without
\* an answer only for a tag that was sent with a value.
TagsAreAnswered == step = "idle" => reply \in Answers(request)
=============================================================================
