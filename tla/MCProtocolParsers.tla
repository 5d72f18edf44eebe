--------------------------- MODULE MCProtocolParsers ---------------------------
(***************************************************************************)
(* Payloads about the boundaries of each parser: too short, just the head, *)
(* an object that just fits or just does not, and room for all fields.     *)
(* The limits of DeviceFingerprint are scaled down, so that a text of 26   *)
(* characters is beyond both and one of a fixed size is not.  Frames with  *)
(* every port, and irregular ones.                                         *)
(***************************************************************************)
EXTENDS ProtocolParsers

Sizes == [modbus_tcp |-> {8, 13, 14, 16, 17, 23, 40},
          dnp3       |-> {10, 11, 20, 30, 63},
          s7comm     |-> {39, 40, 68, 96, 124, 142},
          ethernetip |-> {25, 26, 29, 34, 48, 50, 62, 64, 66, 70, 95}]

RegularFrame(payload, port) ==
    [length |-> 54 + payload, ipv4 |-> TRUE, ihl |-> 20, transport |-> "tcp",
     ports |-> {port, 40000}, dataOffset |-> 20]

RegularFrames ==
    UNION {{RegularFrame(n, port) : n \in Sizes[p], port \in Ports[p]} : p \in DOMAIN Ports}

IrregularFrames ==
    [length : {20, 34, 38, 46, 47, 66, 80}, ipv4 : BOOLEAN, ihl : {0, 20, 60},
     transport : {"tcp", "udp", "icmp"}, ports : {{502, 20000}, {102, 2222}, {80, 443}},
     dataOffset : {0, 20, 60}]

MCFrames == RegularFrames \cup IrregularFrames
=============================================================================
