---------------------------- MODULE ProtocolParsers ----------------------------
(***************************************************************************)
(* From a captured frame to a fingerprint: PassiveSniffer._route_to_parser *)
(* finds the protocol and the payload, and the protocol's parser takes the *)
(* payload apart.                                                          *)
(***************************************************************************)
EXTENDS ModbusParser, Dnp3Parser, S7commParser, EthernetIpParser

CONSTANT Frames  \* the frames that arrive

ASSUME FramesAssumption ==
    \A f \in Frames : f.length \in Nat /\ f.ihl \in Nat /\ f.dataOffset \in Nat

Ports == [modbus_tcp |-> {502}, ethernetip |-> {44818, 2222},
          s7comm |-> {102}, dnp3 |-> {20000}]

NoFrame == [length |-> 0]

ParsingInit ==
    /\ frame \in Frames
    /\ protocol = "none"
    /\ stage = "frame"
    /\ size = 0
    /\ offset = 0
    /\ left = 0
    /\ object = <<>>
    /\ fields = NoTexts
    /\ status = "none"
    /\ taken = 0
    /\ clash = FALSE

-----------------------------------------------------------------------------
\* In which order _identify_protocol compares the ports.
Precedence == <<"modbus_tcp", "ethernetip", "s7comm", "dnp3">>

TransportStart(f) == 14 + f.ihl

\* The first protocol of which one of the ports is, "none" for none.
IdentifyProtocol(f) ==
    LET matches(p) == Ports[p] \cap f.ports # {}
        known == {i \in DOMAIN Precedence : matches(Precedence[i])}
    IN  IF /\ f.length >= 34 /\ f.ipv4
           /\ f.transport \in {"tcp", "udp"}
           /\ f.length >= TransportStart(f) + 4
           /\ known # {}
        THEN Precedence[CHOOSE i \in known : \A j \in known : i <= j] ELSE "none"

\* _extract_payload: where it begins; the end of the frame if there is none.
PayloadStart(f) ==
    LET start == TransportStart(f) +
                    (IF f.transport = "tcp" THEN f.dataOffset ELSE 8)
    IN  IF \/ f.transport = "tcp" /\ f.length < TransportStart(f) + 13
           \/ start > f.length
        THEN f.length ELSE start

Ignore ==
    /\ stage = "frame"
    /\ \/ IdentifyProtocol(frame) = "none"
       \/ PayloadStart(frame) = frame.length
    /\ stage' = "done"
    /\ frame' = NoFrame
    /\ UNCHANGED <<protocol, loopVars, fieldVars, status>>

Route ==
    /\ stage = "frame"
    /\ IdentifyProtocol(frame) # "none"
    /\ PayloadStart(frame) < frame.length
    /\ protocol' = IdentifyProtocol(frame)
    /\ size' = frame.length - PayloadStart(frame)
    /\ stage' = "header"
    /\ frame' = NoFrame
    /\ UNCHANGED <<offset, left, object, fieldVars, status>>

ParsingNext == Ignore \/ Route \/ ModbusNext \/ Dnp3Next \/ S7Next \/ EipNext

ParsingSpec == ParsingInit /\ [][ParsingNext]_decodingVars

-----------------------------------------------------------------------------
(***************************************************************************)
(* Properties.                                                             *)
(***************************************************************************)
ParsingTypeOK ==
    /\ frame \in Frames \cup {NoFrame}
    /\ protocol \in DOMAIN Ports \cup {"none"}
    /\ size \in Nat /\ offset \in Nat /\ left \in Nat /\ taken \in Nat
    /\ \A name \in DOMAIN fields : fields[name] \in Nat
    /\ status \in {"none", "no_identity", "partial", "complete", "raised"}
    /\ clash \in BOOLEAN

\* Whatever lengths and counts a payload declares, a value is made of bytes
\* that the parser has been given and that no value before it was made of.
ValuesApart == ParsingTypeOK /\ ~clash

\* What the status says about the fields: a complete fingerprint has all the
\* fields that its parser counts and only a complete one has, a partial one
\* has at least one field, and without identity none of the counted has been
\* found.  Modbus does not count empty texts; EtherNet/IP does not count the
\* product name, but a name cut off makes the fingerprint partial.
VerdictMatchesFields ==
    LET filled == {name \in DOMAIN fields : protocol = "modbus_tcp" => fields[name] > 0}
        counted == CASE protocol = "modbus_tcp" -> {"vendor", "model", "firmware_version"}
                     [] protocol = "dnp3"       -> Dnp3Key
                     [] protocol = "s7comm"     -> S7Key
                     [] OTHER                   -> EipFields \ {"model"}
    IN  stage = "done" =>
            /\ status = "complete" => counted \subseteq filled
            /\ status = "partial" =>
                    /\ DOMAIN fields # {}
                    /\ protocol # "ethernetip" => ~(counted \subseteq filled)
            /\ status = "no_identity" => counted \cap filled = {}

\* Every fingerprint that is built keeps to the length limits of the schema,
\* so that deserialize_fingerprint does not refuse its texts.
FingerprintsReadable ==
    status \in {"complete", "partial"} =>
        \A name \in DOMAIN fields \cap DOMAIN MaxChars : fields[name] <= MaxChars[name]
=============================================================================
