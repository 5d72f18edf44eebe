------------------------------- MODULE Dnp3Parser -------------------------------
(***************************************************************************)
(* app/parsers/dnp3.py: device attributes (object group 0) of a response.  *)
(***************************************************************************)
EXTENDS PacketDecoding, FiniteSets

CONSTANT LinkLengths  \* values of the length field that occur

ASSUME LinkAssumption == LinkLengths \subseteq 0 .. 255

\* The recognized variations; "" is one that is not.
Dnp3Names == {"vendor", "model", "firmware_version", "serial_number", "other", ""}

\* By qualifier: bytes of range or count, and of the prefix before each value.
Qualifiers == [range  |-> [head |-> 2, prefix |-> 0],    \* 0x00
               count  |-> [head |-> 1, prefix |-> 1],    \* 0x17
               sized  |-> [head |-> 1, prefix |-> 2],    \* 0x5B
               count2 |-> [head |-> 2, prefix |-> 2]]    \* 0x28

\* _extract_user_data: of the length - 5 bytes of user data that the header
\* declares, how many there are.  They lie behind the header of 10 bytes, with a
\* checksum of two bytes behind every 16 of them.
UserData(length) ==
    Cardinality({i \in 0 .. length - 6 : 10 + i + 2 * (i \div 16) < size})

\* Link header, then in the user data one byte of transport header and four
\* of application header; the objects follow.
Dnp3Header ==
    /\ At("dnp3", "header")
    /\ \/ GiveUp
       \/ /\ size > 10
          /\ \E length \in LinkLengths :
                /\ UserData(length) >= 5
                /\ size' = UserData(length) - 5
          /\ stage' = "objects"
          /\ offset' = 0
          /\ left' = 0
          /\ UNCHANGED <<frame, protocol, object, fieldVars, status>>

Dnp3Object ==
    /\ At("dnp3", "objects")
    /\ offset + 3 <= size
    /\ \E q \in DOMAIN Qualifiers, name \in Dnp3Names, n \in Counts :
        /\ offset + 3 + Qualifiers[q].head <= size
        /\ object' = [qualifier |-> q, name |-> name]
        /\ GoOn("values", offset + 3 + Qualifiers[q].head, n)
    /\ UNCHANGED fieldVars

\* The objects end, another group or an unknown qualifier follows, or there is
\* no room for a range or count.
Dnp3End ==
    /\ At("dnp3", "objects")
    /\ GoOn("build", offset, 0)
    /\ UNCHANGED <<object, fieldVars>>

\* The values of an object end, or there is no room for the next one's prefix.
Dnp3ValuesEnd ==
    /\ At("dnp3", "values")
    /\ \/ left = 0
       \/ offset + Qualifiers[object.qualifier].prefix > size
    /\ GoOn("objects", offset, 0)
    /\ object' = <<>>
    /\ UNCHANGED fieldVars

\* Characters of the longest number of n bytes: the sign and the digits of an
\* integer, or a float with its exponent.
LongestNumber(n) == IF n \in {4, 8} THEN 24 ELSE 3 * n + 1

\* The text of n bytes: stripped, as it is, in hexadecimal, or a number.
Decoded(n) == {0, n, 2 * n, LongestNumber(n)}

\* A value of n bytes, behind its type and its length.  No text comes of an
\* empty value or of an unknown variation.
TakeValue(from, n) ==
    IF n = 0 \/ object.name = "" THEN UNCHANGED fieldVars
    ELSE \E chars \in Decoded(n) : TakeAs(object.name, from, from + n, chars)

Dnp3Fits(from, n, end) == from + n <= end

\* _read_device_attribute_value.  It moves the offset even if the value does
\* not fit, and the loops go on from there.
Dnp3Value ==
    LET from == offset + Qualifiers[object.qualifier].prefix IN
    /\ At("dnp3", "values")
    /\ object.qualifier # "sized"
    /\ left > 0
    /\ from <= size
    /\ \/ /\ from + 2 > size
          /\ GoOn("values", from, left - 1)
          /\ UNCHANGED fieldVars
       \/ /\ from + 2 <= size
          /\ \E n \in Lengths :
                IF Dnp3Fits(from + 2, n, size)
                THEN /\ TakeValue(from + 2, n)
                     /\ GoOn("values", from + 2 + n, left - 1)
                ELSE /\ UNCHANGED fieldVars
                     /\ GoOn("values", from + 2, left - 1)
    /\ UNCHANGED object

\* Qualifier 0x5B: the prefix is the length m of an object in which the value
\* lies.  An object that does not fit ends the loop, a value that does not fit
\* into its object is passed over.
Dnp3SizedValue ==
    LET from == offset + 2 IN
    /\ At("dnp3", "values")
    /\ object.qualifier = "sized"
    /\ left > 0
    /\ from <= size
    /\ \E n \in Lengths, m \in {0, 2} \cup {k + 2 : k \in Lengths} :
        IF from + m > size
        THEN GoOn("values", from, 0) /\ UNCHANGED fieldVars
        ELSE /\ IF m >= 2 /\ Dnp3Fits(from + 2, n, from + m)
                THEN TakeValue(from + 2, n) ELSE UNCHANGED fieldVars
             /\ GoOn("values", from + m, left - 1)
    /\ UNCHANGED object

Dnp3Key == {"vendor", "model", "firmware_version", "serial_number"}

\* An empty text counts as found.
Dnp3Build ==
    /\ At("dnp3", "build")
    /\ fields' = Truncated(fields)
    /\ Return(Verdict(Dnp3Key \cap DOMAIN fields, Dnp3Key))
    /\ UNCHANGED <<taken, clash>>

Dnp3Next ==
    \/ Dnp3Header \/ Dnp3Object \/ Dnp3End
    \/ Dnp3Value \/ Dnp3SizedValue \/ Dnp3ValuesEnd
    \/ Dnp3Build
=============================================================================
