------------------------------ MODULE S7commParser ------------------------------
(***************************************************************************)
(* app/parsers/s7comm.py: records of the system status lists 0x0011 and    *)
(* 0x001C.                                                                 *)
(***************************************************************************)
EXTENDS PacketDecoding, Sequences

S7Key == {"model", "module_name", "firmware_version", "serial_number"}

\* By list: bytes of a record, and where its name and its extra text lie.
Szl0011 == [record |-> 28, name |-> 22, extra |-> 28]
Szl001C == [record |-> 34, name |-> 26, extra |-> 34]

\* Which of a record's two texts are not empty.  A version is a name that
\* looks like one (_looks_like_version).
S7Texts == SUBSET {"name", "extra"}
S7Indexes == {1, 2, 3, 4, 5, 7, 9, 11}

\* _extract_szl_data: behind the parameters (at least 12 bytes) and the head of
\* the data (12) in a body of n bytes come the records.
RecordBytes(n) == {k \in {0, 27, 28, 34, 68, 84, 102} : k <= n - 24}

\* TPKT (4 bytes), COTP (at least 2) and header (10) come before the body.
S7Header ==
    /\ At("s7comm", "header")
    /\ \/ GiveUp
       \/ /\ size >= 40
          /\ size' \in RecordBytes(size - 16)
          /\ stage' \in {"szl0011", "szl001C"}
          /\ offset' = 0
          /\ left' = 0
          /\ object' = <<>>
          /\ UNCHANGED <<frame, protocol, fieldVars, status>>

\* Texts of the record at offset become fields.
TakeTexts(found, to) ==
    /\ fields' = Merged(found, fields)
    /\ taken' = to
    /\ clash' = (clash \/ offset < taken \/ to > size)

Text(szl, part) == IF part = "name" THEN szl.name - 2 ELSE szl.extra - szl.name

\* The name if there is one, else the extra text, as that field.
FirstText(field, szl, texts) ==
    IF texts = {} THEN NoTexts
    ELSE OneText(field, Text(szl, IF "name" \in texts THEN "name" ELSE "extra"))

Found0011(index, texts) ==
    CASE index = 1 -> Merged(FirstText("model", Szl0011, texts \cap {"name"}),
                             FirstText("serial_number", Szl0011, texts \cap {"extra"}))
      [] index = 2 -> FirstText("module_name", Szl0011, texts \cap {"name"})
      [] index = 3 -> FirstText("firmware_version", Szl0011, texts)
      [] OTHER     -> NoTexts

\* The type name and the second serial number stand in for missing ones.
Found001C(index, texts) ==
    CASE index = 1 -> FirstText("model", Szl001C, texts \cap {"name"})
      [] index = 2 -> FirstText("module_name", Szl001C, texts \cap {"name"})
      [] index = 5 -> FirstText("serial_number", Szl001C, texts)
      [] index = 7 /\ "model" \notin DOMAIN fields ->
                      FirstText("model", Szl001C, texts \cap {"name"})
      [] index = 9 /\ "serial_number" \notin DOMAIN fields ->
                      FirstText("serial_number", Szl001C, texts)
      [] OTHER     -> NoTexts

S7RecordFits(szl) == offset + szl.record <= size

S7Record0011 ==
    /\ At("s7comm", "szl0011")
    /\ S7RecordFits(Szl0011)
    /\ \E index \in S7Indexes, texts \in S7Texts :
            TakeTexts(Found0011(index, texts), offset + Szl0011.extra)
    /\ GoOn("szl0011", offset + Szl0011.record, 0)
    /\ UNCHANGED object

\* The second loop reads the same records again, kept in object till then.
S7Record001C ==
    /\ At("s7comm", "szl001C")
    /\ S7RecordFits(Szl001C)
    /\ \E index \in S7Indexes, texts \in S7Texts, version \in BOOLEAN :
        /\ version => index = 4 /\ "name" \in texts
        /\ TakeTexts(Found001C(index, texts), offset + Szl001C.extra)
        /\ object' = Append(object, [index |-> index, texts |-> texts, version |-> version])
    /\ GoOn("szl001C", offset + Szl001C.record, 0)

S7RecordsEnd ==
    /\ \/ (At("s7comm", "szl0011") /\ ~S7RecordFits(Szl0011) /\ stage' = "build")
       \/ (At("s7comm", "szl001C") /\ ~S7RecordFits(Szl001C) /\ stage' = "firmware")
    /\ UNCHANGED <<frame, protocol, loopVars, fieldVars, status>>

\* The second loop: the extra text of the first record 2 that has one, else
\* the first version among the records 4 before it.
S7Firmware ==
    LET firmware ==
            IF object = <<>> THEN NoTexts
            ELSE IF Head(object).index = 2 /\ "extra" \in Head(object).texts
                 THEN FirstText("firmware_version", Szl001C, {"extra"})
            ELSE IF Head(object).version /\ "firmware_version" \notin DOMAIN fields
                 THEN FirstText("firmware_version", Szl001C, {"name"})
            ELSE NoTexts
        ends == object = <<>> \/ (Head(object).index = 2 /\ "extra" \in Head(object).texts)
    IN  /\ At("s7comm", "firmware")
        /\ fields' = Merged(firmware, fields)
        /\ object' = IF ends THEN <<>> ELSE Tail(object)
        /\ stage' = IF ends THEN "build" ELSE "firmware"
        /\ UNCHANGED <<frame, protocol, size, offset, left, taken, clash, status>>

S7Build ==
    /\ At("s7comm", "build")
    /\ Return(Verdict(S7Key \cap DOMAIN fields, S7Key))
    /\ UNCHANGED fieldVars

S7Next ==
    \/ S7Header \/ S7Record0011 \/ S7Record001C \/ S7RecordsEnd
    \/ S7Firmware \/ S7Build
=============================================================================
