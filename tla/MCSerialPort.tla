---------------------------- MODULE MCSerialPort ----------------------------
(***************************************************************************)
(* Finite instance of SerialPort: the receiver, the emitter and one more   *)
(* pin, and meters on either input, one for every way to be found.         *)
(***************************************************************************)
EXTENDS SerialPort

MCPins == {3, 5, 6}
MCCommonBauds == <<300, 9600>>

MCConfigs == {[protocol |-> "Auto", baud |-> 9600],
              [protocol |-> "Iec62056Active", baud |-> 9600]}

MCMeters == {[pin |-> 3, baud |-> 9600, kind |-> "Sml", asked |-> FALSE],
             [pin |-> 5, baud |-> 300, kind |-> "Sml", asked |-> FALSE],
             [pin |-> 3, baud |-> 300, kind |-> "Iec62056", asked |-> FALSE],
             [pin |-> 3, baud |-> 300, kind |-> "Iec62056", asked |-> TRUE]}

=============================================================================
