------------------------------- MODULE Cells --------------------------------
(***************************************************************************)
(* Files as credential caches and keytabs are read and written: sequences   *)
(* of cells, one for each integer, string or byte string of the format.  A  *)
(* cell that was written in part, or left as a hole, is [part |-> 0] and    *)
(* cannot be read.  A cell is never read as one of another kind: in the     *)
(* code a misaligned read may go on with some other value and fail later or *)
(* not.  The byte order, native for the oldest versions, is left out.       *)
(***************************************************************************)
EXTENDS Integers, Sequences

\* Results of reading: the value and the place of the next cell.
Error == [ok |-> FALSE]
Value(v, next) == [ok |-> TRUE, value |-> v, next |-> next]

\* Strings, with two literals that the provers do not know to be strings.
X_CACHECONF_REALM == "X-CACHECONF:"
X_CACHECONF_COMPONENT == "krb5_ccache_conf_data"
Text == STRING \cup {X_CACHECONF_REALM, X_CACHECONF_COMPONENT}

Cell == [int : Int] \cup [str : Text] \cup [data : Int] \cup [part : {0}]

IntCell(n) == <<[int |-> n]>>
StrCell(s) == <<[str |-> s]>>
DataCell(d) == <<[data |-> d]>>

\* n whole cells follow, whatever they are.
CanSkip(file, at, n) ==
    /\ at + n - 1 <= Len(file)
    /\ \A i \in at .. at + n - 1 : "part" \notin DOMAIN file[i]

\* The next cells are there and of these kinds.
CanRead(file, at, kinds) ==
    /\ at + Len(kinds) - 1 <= Len(file)
    /\ \A i \in 1 .. Len(kinds) : kinds[i] \in DOMAIN file[at + i - 1]

=============================================================================
