------------------------------- MODULE MCBoard -------------------------------
(***************************************************************************)
(* Two pins of one bank, two kinds of event, a tag the firmware knows and    *)
(* two it does not, of which one is sent with a value.                       *)
(***************************************************************************)
EXTENDS Board

MCBoot == <<"memory", "model", "gpio">>

\* One pin stays an input, the other may change.
MCModes == [p \in Pins |-> IF p = 33 THEN {"Input", "Output"} ELSE {"Input"}]

\* After the last answer the program reads no more mail.
Relevant ==
    <<table, failed, gpio, timer, program, reply,
      IF booting = <<>> /\ step = "idle" THEN <<>> ELSE mail>>
=============================================================================
