-------------------------- MODULE MCDeviceSession --------------------------
(* Small instances of DeviceSession. *)
EXTENDS DeviceSession

MCHuntRates == <<48, 96>>

Receiver(rate, parity, stopbits, speaks, length, obeys) ==
    [line |-> [rate |-> rate, parity |-> parity, stopbits |-> stopbits],
     speaks |-> speaks, length |-> length, obeys |-> obeys]

\* At each hunted speed and round; at a speed that is not hunted; with a parity
\* that is not; one that the probe finds; one whose packets are too long; and
\* one that says nothing.
MCReceivers ==
    {Receiver(48, "N", 1, {"NMEA", "UBX"}, 2, TRUE),
     Receiver(96, "N", 2, {"NMEA"}, 2, TRUE),
     Receiver(12, "N", 1, {"NMEA"}, 1, FALSE),
     Receiver(48, "O", 1, {"NMEA"}, 2, FALSE),
     Receiver(96, "O", 1, {"TSIP"}, 2, TRUE),
     Receiver(96, "N", 1, {"UBX"}, 5, FALSE),
     Receiver(96, "N", 1, {}, 1, FALSE)}
=============================================================================
