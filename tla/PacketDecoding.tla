----------------------------- MODULE PacketDecoding -----------------------------
(***************************************************************************)
(* What the four protocol parsers of app/parsers have in common: a payload *)
(* of which only the size is fixed, a position in it, and the identity     *)
(* fields found so far.                                                    *)
(*                                                                         *)
(* The bytes of a payload are chosen when a parser reads them, among those *)
(* that make it go on differently.  A text is the number of its            *)
(* characters, and texts are a function from the names of the fields.      *)
(***************************************************************************)
EXTENDS Integers

CONSTANTS
    Lengths,     \* lengths of values that occur in payloads
    Counts,      \* counts of objects that occur in payloads
    MaxText,     \* what DeviceFingerprint accepts as vendor or model (128)
    MaxFirmware  \* and as firmware_version (64)

\* The texts of fixed size keep to the limits, the longest being the name in a
\* record of S7comm, which may be taken for a version.
ASSUME DecodingAssumption ==
    /\ Lengths \subseteq 0 .. 255
    /\ Counts \subseteq Nat
    /\ MaxText \in Nat /\ MaxText >= 24
    /\ MaxFirmware \in Nat /\ MaxFirmware >= 24

VARIABLES
    frame,       \* the frame to be routed, NoFrame afterwards
    protocol,    \* the protocol of its ports
    stage,       \* the loop or function that runs
    size,        \* length of the bytes it works on
    offset,      \* its position in them
    left,        \* objects it has still to read
    object,      \* what it remembers of the object it is in, or of all records
    fields,      \* texts of the identity fields found, by name
    status,      \* parsing_status of the result
    taken,       \* history: end of the values taken so far
    clash        \* history: a value reached beyond the bytes, or into
                 \* another value

loopVars == <<size, offset, left, object>>
fieldVars == <<fields, taken, clash>>
decodingVars == <<frame, protocol, stage, loopVars, fieldVars, status>>

At(name, state) == protocol = name /\ stage = state

Smaller(m, n) == IF m < n THEN m ELSE n

NoTexts == [name \in {} |-> 0]
OneText(name, chars) == [n \in {name} |-> chars]

\* New texts replace old ones of the same name.
Merged(new, old) ==
    [name \in DOMAIN new \cup DOMAIN old |->
        IF name \in DOMAIN new THEN new[name] ELSE old[name]]

-----------------------------------------------------------------------------
\* A value of the bytes from .. to - 1 becomes the field of that name.
TakeAs(name, from, to, chars) ==
    /\ fields' = Merged(OneText(name, chars), fields)
    /\ taken' = to
    /\ clash' = (clash \/ from < taken \/ to > size)

\* The parser returns.
Return(result) ==
    /\ stage' = "done"
    /\ status' = result
    /\ UNCHANGED <<frame, protocol, loopVars>>

\* It returns early, for a payload too short or not about identity.
GiveUp == Return("no_identity") /\ UNCHANGED fieldVars

\* A loop goes on behind what it has read, or to another one.
GoOn(state, position, count) ==
    /\ stage' = state
    /\ offset' = position
    /\ left' = count
    /\ UNCHANGED <<frame, protocol, size, status>>

\* The fields a parser counts decide its verdict.
Verdict(found, counted) ==
    IF found = {} THEN "no_identity"
    ELSE IF found = counted THEN "complete" ELSE "partial"

\* The length limits of DeviceFingerprint.
MaxChars == [vendor |-> MaxText, model |-> MaxText, firmware_version |-> MaxFirmware]

\* Mutant: texts are stored at full length.
Untruncated(texts) == texts

\* _truncate and the slices of _build_parse_result.
Truncated(texts) ==
    [name \in DOMAIN texts |->
        IF name \in DOMAIN MaxChars THEN Smaller(texts[name], MaxChars[name])
        ELSE texts[name]]
=============================================================================
