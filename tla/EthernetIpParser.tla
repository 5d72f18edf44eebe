---------------------------- MODULE EthernetIpParser ----------------------------
(***************************************************************************)
(* app/parsers/ethernetip.py: the CIP identity item in the answer to List  *)
(* Identity.                                                               *)
(***************************************************************************)
EXTENDS PacketDecoding, Sequences

CONSTANT ItemLengths  \* lengths of items that occur

ASSUME ItemAssumption == ItemLengths \subseteq Nat

\* The item's parts up to the name: bytes each takes, bytes that are read of
\* it, and the field it gives, "" for none.
IdentityParts == <<
    [name |-> "",                 width |-> 2,  reads |-> 0, chars |-> 0],
    [name |-> "ip_address",       width |-> 16, reads |-> 8, chars |-> 15],
    [name |-> "vendor",           width |-> 2,  reads |-> 2, chars |-> 14],
    [name |-> "device_type",      width |-> 2,  reads |-> 2, chars |-> 3],
    [name |-> "product_code",     width |-> 2,  reads |-> 2, chars |-> 5],
    [name |-> "firmware_version", width |-> 2,  reads |-> 2, chars |-> 7],
    [name |-> "",                 width |-> 2,  reads |-> 0, chars |-> 0],
    [name |-> "serial_number",    width |-> 4,  reads |-> 4, chars |-> 8],
    [name |-> "",                 width |-> 1,  reads |-> 1, chars |-> 0]>>

\* Those whose presence makes has_any_field true.
EipFields == {"vendor", "device_type", "product_code", "firmware_version",
              "serial_number", "model"}

\* Header of 24 bytes, declared data that the packet holds, a count of items.
EipHeader ==
    /\ At("ethernetip", "header")
    /\ \/ GiveUp
       \/ /\ size >= 26
          /\ \E n \in Counts : GoOn("items", 26, n)
          /\ UNCHANGED <<object, fieldVars>>

\* An item of another type is skipped, whether the packet holds it or not.
EipOtherItem ==
    /\ At("ethernetip", "items")
    /\ left > 0
    /\ offset + 4 <= size
    /\ \E n \in ItemLengths : GoOn("items", offset + 4 + n, left - 1)
    /\ UNCHANGED <<object, fieldVars>>

\* The first identity item is the last one that is looked at.  Its length is
\* not compared with the packet's.
EipIdentityItem ==
    /\ At("ethernetip", "items")
    /\ left > 0
    /\ offset + 4 <= size
    /\ \E n \in ItemLengths : object' = [part |-> 1, end |-> offset + 4 + n]
    /\ GoOn("identity", offset + 4, 0)
    /\ UNCHANGED fieldVars

EipItemsEnd ==
    /\ At("ethernetip", "items")
    /\ left = 0 \/ offset + 4 > size
    /\ GiveUp

\* DeviceFingerprint refuses a name that is too long, which nobody catches.
Built(result, texts) ==
    IF "model" \in DOMAIN texts /\ texts["model"] > MaxChars["model"]
    THEN "raised" ELSE result

\* Mutant: has_any_field is not asked for.
PartialAlways(texts) == Built("partial", texts)

\* _build_partial_result, and the except clause, which goes the same two ways.
Partial(texts) ==
    IF DOMAIN texts \cap EipFields = {} THEN "no_identity" ELSE Built("partial", texts)

EipHolds(part) == offset + part.reads <= size

EipPart ==
    LET part == IdentityParts[object.part] IN
    /\ At("ethernetip", "identity")
    /\ object.part <= Len(IdentityParts)
    /\ IF offset + part.width <= object.end /\ EipHolds(part)
       THEN /\ IF part.name = "" THEN UNCHANGED fieldVars
               ELSE TakeAs(part.name, offset, offset + part.reads, part.chars)
            /\ object' = [object EXCEPT !.part = @ + 1]
            /\ GoOn("identity", offset + part.width, 0)
       ELSE Return(Partial(fields)) /\ UNCHANGED fieldVars

\* The slice of the name ends where the packet does; a name that the item cuts
\* off makes the result partial, one that the packet cuts off does not.
EipName ==
    /\ At("ethernetip", "identity")
    /\ object.part > Len(IdentityParts)
    /\ \E n \in Lengths :
        LET wanted == IF offset + n > object.end THEN object.end - offset ELSE n
            got == IF offset >= size THEN 0 ELSE Smaller(wanted, size - offset)
            texts == IF wanted > 0 THEN Merged(OneText("model", got), fields) ELSE fields
        IN  /\ IF wanted > 0 THEN TakeAs("model", offset, offset + got, got)
               ELSE UNCHANGED fieldVars
            /\ Return(IF n > wanted THEN Partial(texts) ELSE Built("complete", texts))

EipNext ==
    EipHeader \/ EipOtherItem \/ EipIdentityItem \/ EipItemsEnd \/ EipPart \/ EipName
=============================================================================
