----------------------------- MODULE KeytabFile -----------------------------
(***************************************************************************)
(* The file format of keytabs and new entries (src/keytab.rs).  Entries     *)
(* have the fields of module Keytab and kvno8 and name_type.                *)
(***************************************************************************)
EXTENDS Keytab, Cells

KEYTAB_FIRST_BYTE == 5

\* Version 1 counts the realm and has no name type.
write_principal(e, version) ==
    IntCell(Len(e.principal) + (IF version = 1 THEN 1 ELSE 0)) \o StrCell(e.realm)
    \o [i \in DOMAIN e.principal |-> [str |-> e.principal[i]]]
    \o (IF version = 1 THEN <<>> ELSE IntCell(e.name_type))

parse_principal(body, version) ==
    LET count == body[1].int - (IF version = 1 THEN 1 ELSE 0)
        kinds == <<"int", "str">> \o [i \in 1 .. count |-> "str"]
                 \o (IF version = 1 THEN <<>> ELSE <<"int">>)
    IN  IF ~ CanRead(body, 1, <<"int">>) THEN Error
        ELSE IF count < 0 \/ ~ CanRead(body, 1, kinds) THEN Error
        ELSE Value([realm |-> body[2].str,
                    principal |-> [i \in 1 .. count |-> body[2 + i].str],
                    name_type |-> IF version = 1 THEN 0 ELSE body[3 + count].int],
                   Len(kinds) + 1)

\* The enctype is written as unsigned but read as signed: a keytab with a
\* negative one can be loaded and not saved.
CanWrite(e) == e.etype >= 0

write_entry(e, version) ==
    LET body == write_principal(e, version)
                \o IntCell(e.timestamp) \o IntCell(e.kvno8) \o IntCell(e.etype) \o DataCell(e.key) \o IntCell(e.kvno)
    IN  IntCell(Len(body)) \o body

\* The key version has 32 bits where the entry has room for them; 0 stands
\* for the 8 bits that are always there.
parse_entry(body, version) ==
    LET name == parse_principal(body, version)
        at == name.next
        kvno8 == body[at + 1].int
        kvno == IF CanRead(body, at + 4, <<"int">>) THEN body[at + 4].int ELSE kvno8
    IN  IF name.ok /\ CanRead(body, at, <<"int", "int", "int", "data">>)
        THEN Value([principal |-> name.value.principal, realm |-> name.value.realm,
                    name_type |-> name.value.name_type,
                    timestamp |-> body[at].int, kvno8 |-> kvno8,
                    etype |-> body[at + 2].int, key |-> body[at + 3].data,
                    kvno |-> IF kvno = 0 THEN kvno8 ELSE kvno],
                   at + 4)
        ELSE Error

\* The cells of the first i entries, for every i.
EntryCells(list, version) ==
    LET written[i \in 0 .. Len(list)] ==
            IF i = 0 THEN <<>> ELSE written[i - 1] \o write_entry(list[i], version)
    IN  written

\* A bug: the version in front is the newest, whatever the entries have.
keytab_to_bytesAsNew(keytab) ==
    IntCell(KEYTAB_FIRST_BYTE) \o IntCell(2)
    \o EntryCells(keytab.entries, keytab.version)[Len(keytab.entries)]
keytab_to_bytes(keytab) ==
    IntCell(KEYTAB_FIRST_BYTE) \o IntCell(keytab.version)
    \o EntryCells(keytab.entries, keytab.version)[Len(keytab.entries)]

\* The loop over the slots of a file: a negative length is a deleted entry, 0
\* the end, and so is a rest that is too short for a length.
ReadSlot(file, version, sofar) ==
    LET at == sofar.next
        length == file[at].int
        size == IF length < 0 THEN 0 - length ELSE length
        entry == parse_entry(SubSeq(file, at + 1, at + length), version)
    IN  IF ~ sofar.ok \/ ~ CanRead(file, at, <<"int">>) \/ length = 0 THEN sofar
        ELSE IF ~ CanSkip(file, at + 1, size) THEN Error
        ELSE IF length < 0 THEN Value(sofar.value, at + 1 + size)
        ELSE IF ~ entry.ok THEN Error
        ELSE Value(Append(sofar.value, entry.value), at + 1 + size)

\* The entries after each turn of the loop.
SlotsRead(file, first, version) ==
    LET read[i \in 0 .. Len(file)] ==
            IF i = 0 THEN Value(<<>>, first) ELSE ReadSlot(file, version, read[i - 1])
    IN  read
parse_slots(file, first, version) == SlotsRead(file, first, version)[Len(file)]

keytab_parse(file) ==
    LET slots == parse_slots(file, 3, file[2].int)
    IN  IF /\ CanRead(file, 1, <<"int", "int">>) /\ file[1].int = KEYTAB_FIRST_BYTE
           /\ file[2].int \in {1, 2} /\ slots.ok
        THEN Value([version |-> file[2].int, entries |-> slots.value], slots.next)
        ELSE Error

-----------------------------------------------------------------------------
(* New entries.                                                             *)

NewKeytab == [version |-> 2, entries |-> <<>>]

add_entry_from_password(keytab, principal, realm, key, timestamp, kvno, etype) ==
    [keytab EXCEPT !.entries = Append(@,
        [principal |-> principal, realm |-> realm, name_type |-> 1, timestamp |-> timestamp,
         kvno8 |-> kvno, etype |-> etype, key |-> key, kvno |-> kvno])]

=============================================================================
