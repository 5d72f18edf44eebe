------------------------------ MODULE ModbusParser ------------------------------
(***************************************************************************)
(* app/parsers/modbus.py: the answer to Read Device Identification.        *)
(***************************************************************************)
EXTENDS PacketDecoding

\* The standard objects; those with no use of their own are "other".
ModbusNames == {"vendor", "product_code", "firmware_version", "model_name", "other"}

\* MBAP header, function code, MEI type and the head of the answer: 14 bytes.
ModbusHeader ==
    /\ At("modbus_tcp", "header")
    /\ \/ GiveUp
       \/ /\ size >= 14
          /\ \E n \in Counts : GoOn("objects", 14, n)
          /\ UNCHANGED <<object, fieldVars>>

\* Mutant: the value's length is not compared with what is left.
ModbusValueFitsAlways(n) == TRUE

ModbusValueFits(n) == offset + 2 + n <= size

\* One object: identifier, length, value.  The text is stripped, and may then
\* be empty.  Identifiers above 6 are passed over.
ModbusObject ==
    /\ At("modbus_tcp", "objects")
    /\ left > 0
    /\ offset + 2 <= size
    /\ \E n \in Lengths :
        /\ ModbusValueFits(n)
        /\ \/ \E name \in ModbusNames, chars \in {0, n} :
                TakeAs(name, offset + 2, offset + 2 + n, chars)
           \/ UNCHANGED fieldVars
        /\ GoOn("objects", offset + 2 + n, left - 1)
        /\ UNCHANGED object

\* The loop is over, or there is no room for an object or for its value.
ModbusEnd ==
    /\ At("modbus_tcp", "objects")
    /\ \/ left = 0
       \/ offset + 2 > size
       \/ \E n \in Lengths : ~ModbusValueFits(n)
    /\ GoOn("build", offset, 0)
    /\ UNCHANGED <<object, fieldVars>>

\* An empty ModelName leaves the place to the ProductCode.
ModbusModel ==
    LET names == {"model_name", "product_code"} \cap DOMAIN fields
    IN  IF "model_name" \in names /\ fields["model_name"] > 0
        THEN OneText("model", fields["model_name"])
        ELSE IF "product_code" \in names
             THEN OneText("model", fields["product_code"]) ELSE NoTexts

\* Key fields count if they are not empty; objects without one are "partial".
ModbusBuild ==
    LET texts == Truncated(Merged(ModbusModel, fields))
        key == {"vendor", "model", "firmware_version"}
        found == {name \in key \cap DOMAIN texts : texts[name] > 0}
    IN  /\ At("modbus_tcp", "build")
        /\ fields' = texts
        /\ Return(IF fields = NoTexts THEN "no_identity"
                  ELSE IF found = key THEN "complete" ELSE "partial")
        /\ UNCHANGED <<taken, clash>>

ModbusNext == ModbusHeader \/ ModbusObject \/ ModbusEnd \/ ModbusBuild
=============================================================================
