------------------------- MODULE CacheFormatProofs --------------------------
(***************************************************************************)
(* The cache format and the operations on a cache, for caches of every     *)
(* version, size and content: what was written is read back, what was cut  *)
(* off is refused or read as a prefix, and which tickets and settings a    *)
(* cache holds after each operation of CCache and CredentialFiles.         *)
(***************************************************************************)
EXTENDS CredentialFiles, SequenceTheorems, FiniteSetTheorems, WellFoundedInduction, TLAPS

-----------------------------------------------------------------------------
(* Cells in a file.                                                         *)

\* Some cells are in a file from a place on.
HasAt(disk, at, cells) ==
    /\ at + Len(cells) - 1 <= Len(disk)
    /\ \A i \in 1 .. Len(cells) : disk[at + i - 1] = cells[i]

\* They are there up to some cell that cannot be read, or to the end of the file.
StopsIn(disk, at, cells) ==
    \E k \in 0 .. Len(cells) - 1 :
        /\ \A i \in 1 .. k : disk[at + i - 1] = cells[i]
        /\ at + k - 1 <= Len(disk) /\ Len(disk) <= at + k
        /\ at + k <= Len(disk) => disk[at + k] = [part |-> 0]

\* A set of numbers has a least one: how inductions are put here.
LEMMA Least ==
    ASSUME NEW T \in SUBSET Nat, T # {}
    PROVE  \E x \in T : \A y \in T : x <= y
<1> DEFINE Less == {ss \in Nat \X Nat : ss[1] < ss[2]}
<1>1. IsWellFoundedOn(Less, Nat)
  BY NatLessThanWellFounded DEF OpToRel
<1> HIDE DEF Less
<1>2. PICK x \in T : \A y \in T : ~ (<<y, x>> \in Less)
  BY <1>1, WFMin, Zenon
<1>3. ASSUME NEW y \in T PROVE x <= y
  <2>1. x \in Nat /\ y \in Nat
    OBVIOUS
  <2>2. <<y, x>> \in Nat \X Nat
    BY <2>1
  <2>3. ~ (y < x)
    BY <1>2, <2>1, <2>2 DEF Less
  <2> QED
    BY <2>1, <2>3
<1> QED
  BY <1>2, <1>3

\* Cells one after the other are there if each part is there.
LEMMA HasAtConcat ==
    ASSUME NEW disk \in Seq(Cell), NEW at \in Nat, NEW a \in Seq(Cell), NEW b \in Seq(Cell)
    PROVE  HasAt(disk, at, a \o b) <=> HasAt(disk, at, a) /\ HasAt(disk, at + Len(a), b)
<1>1. /\ Len(a \o b) = Len(a) + Len(b) /\ Len(a) \in Nat /\ Len(b) \in Nat /\ Len(disk) \in Nat
      /\ \A i \in 1 .. Len(a) : (a \o b)[i] = a[i]
      /\ \A i \in 1 .. Len(b) : (a \o b)[Len(a) + i] = b[i]
  OBVIOUS
<1>2. ASSUME HasAt(disk, at, a \o b)
      PROVE  HasAt(disk, at, a) /\ HasAt(disk, at + Len(a), b)
  <2>1. ASSUME NEW i \in 1 .. Len(b) PROVE disk[at + Len(a) + i - 1] = b[i]
    <3>1. Len(a) + i \in 1 .. Len(a \o b) /\ at + (Len(a) + i) - 1 = at + Len(a) + i - 1
      BY <1>1
    <3> QED
      BY <1>1, <1>2, <3>1 DEF HasAt
  <2>2. ASSUME NEW i \in 1 .. Len(a) PROVE disk[at + i - 1] = a[i]
    <3>1. i \in 1 .. Len(a \o b)
      BY <1>1
    <3> QED
      BY <1>1, <1>2, <3>1 DEF HasAt
  <2> QED
    BY <1>1, <1>2, <2>1, <2>2 DEF HasAt
<1>3. ASSUME HasAt(disk, at, a), HasAt(disk, at + Len(a), b)
      PROVE  HasAt(disk, at, a \o b)
  <2>1. ASSUME NEW i \in 1 .. Len(a \o b) PROVE disk[at + i - 1] = (a \o b)[i]
    <3>1. CASE i \in 1 .. Len(a)
      BY <1>1, <1>3, <3>1 DEF HasAt
    <3>2. CASE i \notin 1 .. Len(a)
      <4>1. PICK j \in 1 .. Len(b) : i = Len(a) + j
        <5>1. i - Len(a) \in 1 .. Len(b) /\ i = Len(a) + (i - Len(a))
          BY <1>1, <3>2
        <5> QED
          BY <5>1
      <4>2. disk[at + Len(a) + j - 1] = b[j] /\ (a \o b)[Len(a) + j] = b[j]
        BY <1>1, <1>3, <4>1 DEF HasAt
      <4>3. at + i - 1 = at + Len(a) + j - 1
        BY <1>1, <4>1
      <4> QED
        BY <4>1, <4>2, <4>3
    <3> QED
      BY <3>1, <3>2
  <2> QED
    BY <1>1, <1>3, <2>1 DEF HasAt
<1> QED
  BY <1>2, <1>3

\* The same for cells that stop.
LEMMA StopsInConcat ==
    ASSUME NEW disk \in Seq(Cell), NEW at \in Nat, NEW a \in Seq(Cell), NEW b \in Seq(Cell),
           StopsIn(disk, at, a \o b)
    PROVE  \/ StopsIn(disk, at, a)
           \/ HasAt(disk, at, a) /\ StopsIn(disk, at + Len(a), b)
<1>1. /\ Len(a \o b) = Len(a) + Len(b) /\ Len(a) \in Nat /\ Len(b) \in Nat /\ Len(disk) \in Nat
      /\ \A i \in 1 .. Len(a) : (a \o b)[i] = a[i]
      /\ \A i \in 1 .. Len(b) : (a \o b)[Len(a) + i] = b[i]
  OBVIOUS
<1>2. PICK k \in 0 .. Len(a \o b) - 1 :
        /\ \A i \in 1 .. k : disk[at + i - 1] = (a \o b)[i]
        /\ at + k - 1 <= Len(disk) /\ Len(disk) <= at + k
        /\ at + k <= Len(disk) => disk[at + k] = [part |-> 0]
  BY DEF StopsIn
<1>3. CASE k < Len(a)
  <2>1. k \in 0 .. Len(a) - 1 /\ \A i \in 1 .. k : disk[at + i - 1] = a[i]
    BY <1>1, <1>2, <1>3
  <2> QED
    BY <1>2, <2>1 DEF StopsIn
<1>4. CASE k >= Len(a)
  <2>1. PICK m \in 0 .. Len(b) - 1 : k = Len(a) + m
    <3>1. k - Len(a) \in 0 .. Len(b) - 1 /\ k = Len(a) + (k - Len(a))
      BY <1>1, <1>4
    <3> QED
      BY <3>1
  <2>2. HasAt(disk, at, a)
    <3>1. \A i \in 1 .. Len(a) : disk[at + i - 1] = a[i]
      BY <1>1, <1>2, <1>4
    <3>2. at + Len(a) - 1 <= Len(disk)
      BY <1>1, <1>2, <1>4
    <3> QED
      BY <3>1, <3>2 DEF HasAt
  <2>3. ASSUME NEW i \in 1 .. m PROVE disk[at + Len(a) + i - 1] = b[i]
    <3>1. Len(a) + i \in 1 .. k /\ i \in 1 .. Len(b)
          /\ at + (Len(a) + i) - 1 = at + Len(a) + i - 1
      BY <1>1, <2>1
    <3> QED
      BY <1>1, <1>2, <3>1
  <2>4. /\ at + Len(a) + m - 1 <= Len(disk) /\ Len(disk) <= at + Len(a) + m
        /\ at + Len(a) + m <= Len(disk) => disk[at + Len(a) + m] = [part |-> 0]
    <3>1. at + Len(a) + m = at + k
      BY <1>1, <2>1
    <3> QED
      BY <1>1, <1>2, <2>1, <3>1
  <2>5. StopsIn(disk, at + Len(a), b)
    BY <2>3, <2>4 DEF StopsIn
  <2> QED
    BY <2>2, <2>5
<1> QED
  BY <1>1, <1>2, <1>3, <1>4

\* A function on 1 .. n is a sequence.
LEMMA FunctionIsSeq ==
    ASSUME NEW S, NEW n \in Nat, NEW f \in [1 .. n -> S]
    PROVE  f \in Seq(S) /\ Len(f) = n /\ DOMAIN f = 1 .. n
  OBVIOUS

\* A sequence is a function on its places.
LEMMA SeqIsFunction ==
    ASSUME NEW S, NEW s \in Seq(S)
    PROVE  /\ Len(s) \in Nat /\ DOMAIN s = 1 .. Len(s) /\ s = [i \in 1 .. Len(s) |-> s[i]]
           /\ \A i \in 1 .. Len(s) : s[i] \in S
<1>1. s \in [1 .. Len(s) -> S] /\ Len(s) \in Nat
  OBVIOUS
<1> QED
  BY <1>1

\* Lengths and places of a concatenation.
LEMMA ConcatFacts ==
    ASSUME NEW S, NEW a \in Seq(S), NEW b \in Seq(S)
    PROVE  /\ a \o b \in Seq(S) /\ Len(a \o b) = Len(a) + Len(b)
           /\ Len(a) \in Nat /\ Len(b) \in Nat
           /\ \A i \in 1 .. Len(a) : (a \o b)[i] = a[i]
           /\ \A i \in 1 .. Len(b) : (a \o b)[Len(a) + i] = b[i]
  OBVIOUS

\* The same value n times over.
LEMMA SameSeq ==
    ASSUME NEW S, NEW x \in S, NEW n \in Nat
    PROVE  [i \in 1 .. n |-> x] \in Seq(S) /\ Len([i \in 1 .. n |-> x]) = n
  OBVIOUS

\* A sequence of one cell.
LEMMA OneCell ==
    ASSUME NEW x \in Cell
    PROVE  <<x>> \in Seq(Cell) /\ Len(<<x>>) = 1 /\ <<x>>[1] = x
  OBVIOUS

\* A cell has one kind, and the part of a cell none.
LEMMA CellKinds ==
    /\ \A n \in Int : [int |-> n] \in Cell /\ "int" \in DOMAIN [int |-> n] /\ [int |-> n].int = n
    /\ \A s \in Text : [str |-> s] \in Cell /\ "str" \in DOMAIN [str |-> s] /\ [str |-> s].str = s
    /\ \A d \in Int : [data |-> d] \in Cell /\ "data" \in DOMAIN [data |-> d] /\ [data |-> d].data = d
    /\ [part |-> 0] \in Cell
    /\ \A kind \in {"int", "str", "data"} : kind \notin DOMAIN [part |-> 0]
  BY DEF Cell

\* The cells of a principal.
LEMMA PrincipalCells ==
    ASSUME NEW p \in Principals, NEW version \in 1 .. 4
    PROVE  LET cells == Principal_write_to(p, version)
               n == Len(p.names)
               m == IF version = 1 THEN 1 ELSE 2
           IN  /\ cells \in Seq(Cell) /\ n \in Nat /\ Len(cells) = m + 1 + n
               /\ version = 1 => cells[1] = [int |-> n + 1]
               /\ version # 1 => cells[1] = [int |-> p.type] /\ cells[2] = [int |-> n]
               /\ cells[m + 1] = [str |-> p.realm]
               /\ \A i \in 1 .. n : cells[m + 1 + i] = [str |-> p.names[i]]
<1> DEFINE n == Len(p.names)
           m == IF version = 1 THEN 1 ELSE 2
           head == IF version = 1 THEN IntCell(n + 1) ELSE IntCell(p.type) \o IntCell(n)
           names == [i \in DOMAIN p.names |-> [str |-> p.names[i]]]
<1>1. /\ p.realm \in Text /\ p.type \in Int /\ p.names \in Seq(Text)
      /\ n \in Nat /\ DOMAIN p.names = 1 .. n
      /\ \A i \in 1 .. n : p.names[i] \in Text
  BY DEF Principals
<1>2. head \in Seq(Cell) /\ Len(head) = m
      /\ (version = 1 => head[1] = [int |-> n + 1])
      /\ (version # 1 => head[1] = [int |-> p.type] /\ head[2] = [int |-> n])
  <2>1. IntCell(n + 1) \in Seq(Cell) /\ IntCell(p.type) \in Seq(Cell) /\ IntCell(n) \in Seq(Cell)
    BY <1>1, CellKinds DEF IntCell
  <2> QED
    BY <1>1, <2>1 DEF IntCell
<1>3. names \in Seq(Cell) /\ Len(names) = n /\ \A i \in 1 .. n : names[i] = [str |-> p.names[i]]
  <2>1. names \in [1 .. n -> Cell]
    BY <1>1, CellKinds
  <2> QED
    BY <1>1, <2>1, FunctionIsSeq
<1>4. StrCell(p.realm) \in Seq(Cell) /\ Len(StrCell(p.realm)) = 1 /\ StrCell(p.realm)[1] = [str |-> p.realm]
  <2>1. [str |-> p.realm] \in Cell
    BY <1>1, CellKinds
  <2> QED
    BY <2>1, OneCell DEF StrCell
<1>5. Principal_write_to(p, version) = (head \o StrCell(p.realm)) \o names
  BY DEF Principal_write_to
<1> HIDE DEF head, names
<1>6. /\ head \o StrCell(p.realm) \in Seq(Cell) /\ Len(head \o StrCell(p.realm)) = m + 1
      /\ \A i \in 1 .. m : (head \o StrCell(p.realm))[i] = head[i]
      /\ (head \o StrCell(p.realm))[m + 1] = [str |-> p.realm]
  BY <1>2, <1>4
<1>7. PICK h : h = head \o StrCell(p.realm)
  OBVIOUS
<1>8. /\ h \o names \in Seq(Cell) /\ Len(h \o names) = m + 1 + n
      /\ \A i \in 1 .. m + 1 : (h \o names)[i] = h[i]
      /\ \A i \in 1 .. n : (h \o names)[m + 1 + i] = names[i]
  <2>1. h \in Seq(Cell) /\ Len(h) = m + 1
    BY <1>6, <1>7
  <2>2. /\ h \o names \in Seq(Cell) /\ Len(h \o names) = Len(h) + Len(names)
        /\ \A i \in 1 .. Len(h) : (h \o names)[i] = h[i]
        /\ \A i \in 1 .. Len(names) : (h \o names)[Len(h) + i] = names[i]
    <3>1. h \in Seq(Cell) /\ names \in Seq(Cell)
      BY <1>3, <2>1
    <3> QED
      BY ONLY <3>1, ConcatFacts
  <2> QED
    BY <1>3, <2>1, <2>2
<1>9. PICK cells : cells = Principal_write_to(p, version)
  OBVIOUS
<1>10. /\ cells \in Seq(Cell) /\ Len(cells) = m + 1 + n
       /\ \A i \in 1 .. m + 1 : cells[i] = h[i]
       /\ \A i \in 1 .. n : cells[m + 1 + i] = names[i]
  BY <1>5, <1>7, <1>8, <1>9
<1>11. m \in 1 .. 2 /\ (version = 1 => m = 1) /\ (version # 1 => m = 2)
  OBVIOUS
<1> HIDE DEF m
<1>12. ASSUME NEW i \in 1 .. m PROVE cells[i] = head[i]
  <2>1. i \in 1 .. m + 1
    BY <1>11
  <2>2. cells[i] = h[i]
    BY <1>10, <2>1
  <2> QED
    BY <1>6, <1>7, <2>2
<1>13. cells[m + 1] = [str |-> p.realm]
  <2>1. m + 1 \in 1 .. m + 1
    BY <1>11
  <2>2. cells[m + 1] = h[m + 1]
    BY <1>10, <2>1
  <2> QED
    BY <1>6, <1>7, <2>2
<1>14. version = 1 => cells[1] = [int |-> n + 1]
  BY <1>2, <1>11, <1>12
<1>15. version # 1 => cells[1] = [int |-> p.type] /\ cells[2] = [int |-> n]
  BY <1>2, <1>11, <1>12
<1>16. \A i \in 1 .. n : cells[m + 1 + i] = [str |-> p.names[i]]
  BY <1>3, <1>10
<1> QED
  BY <1>1, <1>9, <1>10, <1>13, <1>14, <1>15, <1>16 DEF m

\* A principal that was written is read back, with the type it is stored with.
LEMMA PrincipalReadBack ==
    ASSUME NEW p \in Principals, NEW version \in 1 .. 4, NEW disk \in Seq(Cell), NEW at \in Nat,
           HasAt(disk, at, Principal_write_to(p, version))
    PROVE  Principal_parse(disk, at, version)
             = Value(Stored(version, p), at + Len(Principal_write_to(p, version)))
<1>1. PICK cells : cells = Principal_write_to(p, version)
  OBVIOUS
<1>2. PICK n : n = Len(p.names)
  OBVIOUS
<1>3. PICK m : m = IF version = 1 THEN 1 ELSE 2
  OBVIOUS
<1>4. /\ cells \in Seq(Cell) /\ n \in Nat /\ Len(cells) = m + 1 + n
      /\ version = 1 => cells[1] = [int |-> n + 1]
      /\ version # 1 => cells[1] = [int |-> p.type] /\ cells[2] = [int |-> n]
      /\ cells[m + 1] = [str |-> p.realm]
      /\ \A i \in 1 .. n : cells[m + 1 + i] = [str |-> p.names[i]]
  BY <1>1, <1>2, <1>3, PrincipalCells
<1>5. /\ p.realm \in Text /\ p.type \in Int /\ p.names \in Seq(Text)
      /\ DOMAIN p.names = 1 .. n
      /\ \A i \in 1 .. n : p.names[i] \in Text
      /\ p = [realm |-> p.realm, type |-> p.type, names |-> p.names]
  BY <1>2 DEF Principals
<1>6. /\ at + m + n <= Len(disk) /\ Len(disk) \in Nat
      /\ version = 1 => disk[at] = [int |-> n + 1]
      /\ version # 1 => disk[at] = [int |-> p.type] /\ disk[at + 1] = [int |-> n]
      /\ disk[at + m] = [str |-> p.realm]
      /\ \A i \in 1 .. n : disk[at + m + i] = [str |-> p.names[i]]
  <2>1. at + Len(cells) - 1 <= Len(disk) /\ \A i \in 1 .. Len(cells) : disk[at + i - 1] = cells[i]
    BY <1>1 DEF HasAt
  <2>2. m \in 1 .. 2 /\ (version = 1 => m = 1) /\ (version # 1 => m = 2)
    BY <1>3
  <2>3. \A i \in 1 .. n : m + 1 + i \in 1 .. Len(cells) /\ at + (m + 1 + i) - 1 = at + m + i
    <3> TAKE i \in 1 .. n
    <3>1. i \in Nat /\ i >= 1 /\ i <= n /\ m \in Nat /\ n \in Nat /\ at \in Nat
          /\ Len(cells) = m + 1 + n
      BY <1>4, <2>2
    <3> QED
      BY ONLY <3>1
  <2>4. /\ 1 \in 1 .. Len(cells) /\ m + 1 \in 1 .. Len(cells) /\ (version # 1 => 2 \in 1 .. Len(cells))
        /\ at + 1 - 1 = at /\ at + 2 - 1 = at + 1 /\ at + (m + 1) - 1 = at + m
    BY <1>4, <2>2
  <2>5. disk[at] = cells[1] /\ disk[at + m] = cells[m + 1] /\ (version # 1 => disk[at + 1] = cells[2])
    BY <2>1, <2>4
  <2>6. \A i \in 1 .. n : disk[at + m + i] = cells[m + 1 + i]
    BY <2>1, <2>3
  <2>7. at + m + n <= Len(disk) /\ Len(disk) \in Nat
    BY <1>4, <2>1, <2>2
  <2> QED
    BY <1>4, <2>5, <2>6, <2>7
<1> DEFINE first == IF version = 1 THEN at ELSE at + 1
           count == disk[first].int - (IF version = 1 THEN 1 ELSE 0)
<1>7. first = at + m - 1 /\ count = n /\ first \in Nat
  BY <1>3, <1>4, <1>6
<1>8. CanRead(disk, at, IF version = 1 THEN <<"int">> ELSE <<"int", "int">>)
  <2>1. CASE version = 1
    BY <2>1, <1>3, <1>4, <1>6, CellKinds DEF CanRead
  <2>2. CASE version # 1
    <3>1. /\ Len(<<"int", "int">>) = 2 /\ <<"int", "int">>[1] = "int" /\ <<"int", "int">>[2] = "int"
          /\ at + 1 - 1 = at /\ at + 2 - 1 = at + 1 /\ at + 1 <= Len(disk)
      BY <2>2, <1>3, <1>4, <1>6
    <3>2. "int" \in DOMAIN disk[at] /\ "int" \in DOMAIN disk[at + 1]
      BY <2>2, <1>4, <1>5, <1>6, CellKinds
    <3>3. \A i \in 1 .. 2 : i = 1 \/ i = 2
      OBVIOUS
    <3> QED
      BY <2>2, <3>1, <3>2, <3>3 DEF CanRead
  <2> QED
    BY <2>1, <2>2
<1>9. CanRead(disk, first + 1, [i \in 1 .. count + 1 |-> "str"])
  <2>1. [i \in 1 .. n + 1 |-> "str"] \in Seq({"str"}) /\ Len([i \in 1 .. n + 1 |-> "str"]) = n + 1
    <3>1. n + 1 \in Nat
      BY <1>4
    <3> QED
      BY <3>1, SameSeq
  <2>2. ASSUME NEW i \in 1 .. n + 1 PROVE "str" \in DOMAIN disk[at + m + i - 1]
    <3>1. CASE i = 1
      <4>1. at + m + i - 1 = at + m
        BY <3>1, <1>3
      <4> QED
        BY <4>1, <1>5, <1>6, CellKinds
    <3>2. CASE i # 1
      <4>1. i - 1 \in 1 .. n /\ at + m + i - 1 = at + m + (i - 1)
        BY <3>2, <1>3, <1>4
      <4> QED
        BY <4>1, <1>5, <1>6, CellKinds
    <3> QED
      BY <3>1, <3>2
  <2>3. at + m + (n + 1) - 1 <= Len(disk)
    BY <1>3, <1>4, <1>6
  <2>4. CanRead(disk, at + m, [i \in 1 .. n + 1 |-> "str"])
    BY <2>1, <2>2, <2>3 DEF CanRead
  <2>5. first + 1 = at + m /\ count + 1 = n + 1
    BY <1>7, <1>3
  <2> QED
    BY <2>4, <2>5
<1>10. Principal_parse(disk, at, version)
         = Value([realm |-> disk[first + 1].str,
                  type  |-> IF version = 1 THEN 0 ELSE disk[at].int,
                  names |-> [i \in 1 .. count |-> disk[first + 1 + i].str]],
                 first + 2 + count)
  <2>1. ~ (count < 0)
    BY <1>4, <1>7
  <2> QED
    BY <1>8, <1>9, <2>1 DEF Principal_parse
<1>11. disk[first + 1].str = p.realm /\ (version # 1 => disk[at].int = p.type)
  <2>1. first + 1 = at + m
    BY <1>7, <1>3
  <2> QED
    BY <2>1, <1>5, <1>6, CellKinds
<1>12. [i \in 1 .. count |-> disk[first + 1 + i].str] = p.names
  <2>1. first + 1 = at + m /\ count = n
    BY <1>7, <1>3
  <2>2. ASSUME NEW i \in 1 .. n PROVE disk[at + m + i].str = p.names[i]
    BY <1>5, <1>6, CellKinds
  <2>3. [i \in 1 .. n |-> disk[at + m + i].str] = [i \in 1 .. n |-> p.names[i]]
    BY <2>2
  <2>4. p.names = [i \in 1 .. n |-> p.names[i]]
    BY <1>2, <1>5, SeqIsFunction
  <2> QED
    BY <2>1, <2>3, <2>4
<1>13. first + 2 + count = at + Len(cells)
  BY <1>3, <1>4, <1>7
<1>14. Stored(version, p) = [realm |-> p.realm, type |-> IF version = 1 THEN 0 ELSE p.type, names |-> p.names]
  BY <1>5 DEF Stored
<1> HIDE DEF first, count
<1> QED
  BY <1>1, <1>10, <1>11, <1>12, <1>13, <1>14

\* CanRead fails where the file ends or a cell is cut off.
LEMMA CannotRead ==
    ASSUME NEW disk \in Seq(Cell), NEW at \in Nat, NEW kinds \in Seq({"int", "str", "data"}),
           NEW j \in 1 .. Len(kinds),
           at + j - 1 <= Len(disk) => disk[at + j - 1] = [part |-> 0]
    PROVE  ~ CanRead(disk, at, kinds)
<1>1. Len(disk) \in Nat /\ Len(kinds) \in Nat /\ kinds[j] \in {"int", "str", "data"}
  OBVIOUS
<1>2. SUFFICES ASSUME CanRead(disk, at, kinds) PROVE FALSE
  OBVIOUS
<1>3. at + j - 1 <= Len(disk) /\ kinds[j] \in DOMAIN disk[at + j - 1]
  BY <1>1, <1>2 DEF CanRead
<1> QED
  BY <1>1, <1>3, CellKinds

\* A principal that was cut off is not read.
LEMMA PrincipalCutOff ==
    ASSUME NEW p \in Principals, NEW version \in 1 .. 4, NEW disk \in Seq(Cell), NEW at \in Nat,
           StopsIn(disk, at, Principal_write_to(p, version))
    PROVE  Principal_parse(disk, at, version) = Error
<1>1. PICK cells : cells = Principal_write_to(p, version)
  OBVIOUS
<1>2. PICK n : n = Len(p.names)
  OBVIOUS
<1>3. PICK m : m = IF version = 1 THEN 1 ELSE 2
  OBVIOUS
<1>4. /\ cells \in Seq(Cell) /\ n \in Nat /\ Len(cells) = m + 1 + n
      /\ version = 1 => cells[1] = [int |-> n + 1]
      /\ version # 1 => cells[1] = [int |-> p.type] /\ cells[2] = [int |-> n]
  BY <1>1, <1>2, <1>3, PrincipalCells
<1>5. m \in 1 .. 2 /\ (version = 1 => m = 1) /\ (version # 1 => m = 2) /\ p.type \in Int
  BY <1>3 DEF Principals
<1>6. PICK k \in 0 .. Len(cells) - 1 :
        /\ \A i \in 1 .. k : disk[at + i - 1] = cells[i]
        /\ at + k - 1 <= Len(disk)
        /\ at + k <= Len(disk) => disk[at + k] = [part |-> 0]
  BY <1>1 DEF StopsIn
<1> DEFINE head == IF version = 1 THEN <<"int">> ELSE <<"int", "int">>
           first == IF version = 1 THEN at ELSE at + 1
           count == disk[first].int - (IF version = 1 THEN 1 ELSE 0)
           rest == [i \in 1 .. count + 1 |-> "str"]
<1>7. CASE k < m
  <2>1. head \in Seq({"int", "str", "data"}) /\ Len(head) = m
    <3>1. CASE version = 1
      BY <3>1, <1>5
    <3>2. CASE version # 1
      BY <3>2, <1>5
    <3> QED
      BY <3>1, <3>2
  <2>2. k + 1 \in 1 .. Len(head) /\ at + (k + 1) - 1 = at + k
    BY <1>4, <1>5, <1>7, <2>1
  <2> HIDE DEF head
  <2>3. ~ CanRead(disk, at, head)
    BY <1>6, <2>1, <2>2, CannotRead
  <2> QED
    BY <2>3 DEF Principal_parse, head
<1>8. CASE k >= m
  <2>1. m \in 1 .. k /\ m \in Nat /\ k \in Nat
    BY <1>4, <1>5, <1>6, <1>8
  <2>2. disk[at + m - 1] = cells[m]
    BY <1>6, <2>1
  <2>3. first = at + m - 1
    BY <1>5
  <2>4. count = n
    <3>1. disk[first] = cells[m]
      BY <2>2, <2>3
    <3>2. CASE version = 1
      <4>1. disk[first].int = n + 1
        BY <1>4, <1>5, <3>1, <3>2
      <4> QED
        BY <1>4, <3>2, <4>1
    <3>3. CASE version # 1
      <4>1. disk[first].int = n
        BY <1>4, <1>5, <3>1, <3>3
      <4> QED
        BY <1>4, <3>3, <4>1
    <3> QED
      BY <3>2, <3>3
  <2>5. rest \in Seq({"str"}) /\ Len(rest) = n + 1
    <3>1. n + 1 \in Nat
      BY <1>4
    <3> QED
      BY <2>4, <3>1, SameSeq
  <2>6. rest \in Seq({"int", "str", "data"})
    BY <2>5
  <2>7. k - m + 1 \in 1 .. Len(rest) /\ (first + 1) + (k - m + 1) - 1 = at + k /\ first + 1 \in Nat
    <3>1. k <= m + n /\ k >= m /\ m \in Nat /\ k \in Nat /\ n \in Nat /\ m >= 1 /\ at \in Nat
      BY <1>4, <1>5, <1>6, <1>8
    <3> HIDE DEF first, rest
    <3> QED
      BY <2>3, <2>5, <3>1
  <2> HIDE DEF rest
  <2>8. ~ CanRead(disk, first + 1, rest)
    BY <1>6, <2>6, <2>7, CannotRead
  <2> QED
    BY <2>8 DEF Principal_parse, rest
<1> QED
  BY <1>4, <1>5, <1>7, <1>8

\* A counted list of pairs.
LEMMA PairCells ==
    ASSUME NEW pairs \in Seq(Int \X Int)
    PROVE  LET cells == write_pairs(pairs)
               n == Len(pairs)
           IN  /\ cells \in Seq(Cell) /\ n \in Nat /\ Len(cells) = 1 + 2 * n
               /\ cells[1] = [int |-> n]
               /\ \A j \in 1 .. n : /\ cells[2 * j] = [int |-> pairs[j][1]]
                                    /\ cells[2 * j + 1] = [data |-> pairs[j][2]]
<1> DEFINE n == Len(pairs)
           Body(i) == IF i % 2 = 1 THEN [int |-> pairs[(i + 1) \div 2][1]]
                      ELSE [data |-> pairs[i \div 2][2]]
           body == [i \in 1 .. 2 * n |-> Body(i)]
<1>1. n \in Nat /\ 2 * n \in Nat /\ \A j \in 1 .. n : pairs[j] \in Int \X Int
  OBVIOUS
<1>2. ASSUME NEW i \in 1 .. 2 * n PROVE Body(i) \in Cell
  <2>1. CASE i % 2 = 1
    <3>1. (i + 1) \div 2 \in 1 .. n
      BY <1>1, <2>1
    <3>2. pairs[(i + 1) \div 2][1] \in Int
      BY <1>1, <3>1
    <3> QED
      BY <2>1, <3>2, CellKinds
  <2>2. CASE i % 2 # 1
    <3>1. i \div 2 \in 1 .. n
      BY <1>1, <2>2
    <3>2. pairs[i \div 2][2] \in Int
      BY <1>1, <3>1
    <3> QED
      BY <2>2, <3>2, CellKinds
  <2> QED
    BY <2>1, <2>2
<1>3. ASSUME NEW j \in 1 .. n
      PROVE  /\ 2 * j - 1 \in 1 .. 2 * n /\ 2 * j \in 1 .. 2 * n
             /\ Body(2 * j - 1) = [int |-> pairs[j][1]] /\ Body(2 * j) = [data |-> pairs[j][2]]
  <2>1. j \in Nat /\ 1 <= j /\ j <= n
    BY <1>1
  <2>2. (2 * j - 1) % 2 = 1 /\ ((2 * j - 1) + 1) \div 2 = j /\ (2 * j) % 2 # 1 /\ (2 * j) \div 2 = j
    BY <2>1
  <2> QED
    BY <1>1, <2>1, <2>2
<1> HIDE DEF Body
<1>4. body \in Seq(Cell) /\ Len(body) = 2 * n
  <2>1. body \in [1 .. 2 * n -> Cell] /\ 2 * n \in Nat
    BY <1>1, <1>2
  <2> QED
    BY ONLY <2>1, FunctionIsSeq
<1>5. \A i \in 1 .. 2 * n : body[i] = Body(i)
  OBVIOUS
<1> HIDE DEF body
<1>6. IntCell(n) \in Seq(Cell) /\ Len(IntCell(n)) = 1 /\ IntCell(n)[1] = [int |-> n]
  <2>1. [int |-> n] \in Cell
    BY <1>1, CellKinds
  <2> QED
    BY <2>1, OneCell DEF IntCell
<1>7. PICK cells : cells = IntCell(n) \o body
  OBVIOUS
<1>8. write_pairs(pairs) = cells
  BY <1>7 DEF write_pairs, body, Body
<1>9. /\ cells \in Seq(Cell) /\ Len(cells) = 1 + 2 * n /\ cells[1] = [int |-> n]
      /\ \A i \in 1 .. 2 * n : cells[1 + i] = body[i]
  <2>1. /\ cells \in Seq(Cell) /\ Len(cells) = Len(IntCell(n)) + Len(body)
        /\ \A i \in 1 .. Len(IntCell(n)) : cells[i] = IntCell(n)[i]
        /\ \A i \in 1 .. Len(body) : cells[Len(IntCell(n)) + i] = body[i]
    <3>1. IntCell(n) \in Seq(Cell) /\ body \in Seq(Cell) /\ cells = IntCell(n) \o body
      BY <1>4, <1>6, <1>7
    <3> QED
      BY ONLY <3>1, ConcatFacts
  <2>2. 1 \in 1 .. 1
    OBVIOUS
  <2> QED
    BY <1>1, <1>4, <1>6, <2>1, <2>2
<1>10. ASSUME NEW j \in 1 .. n
       PROVE  /\ cells[2 * j] = [int |-> pairs[j][1]]
              /\ cells[2 * j + 1] = [data |-> pairs[j][2]]
  <2>1. cells[1 + (2 * j - 1)] = [int |-> pairs[j][1]] /\ cells[1 + 2 * j] = [data |-> pairs[j][2]]
    BY <1>3, <1>5, <1>9
  <2>2. 1 + (2 * j - 1) = 2 * j /\ 1 + 2 * j = 2 * j + 1
    BY <1>1
  <2> QED
    BY <2>1, <2>2
<1> QED
  BY <1>1, <1>8, <1>9, <1>10

\* The kinds of the cells of n pairs.
PairKinds(n) == [i \in 1 .. 2 * n |-> IF i % 2 = 1 THEN "int" ELSE "data"]

\* The kinds of the fields of n pairs, as read_pairs expects them.
LEMMA PairKindsFacts ==
    ASSUME NEW n \in Nat
    PROVE  /\ PairKinds(n) \in Seq({"int", "str", "data"}) /\ Len(PairKinds(n)) = 2 * n
           /\ \A i \in 1 .. 2 * n : PairKinds(n)[i] = IF i % 2 = 1 THEN "int" ELSE "data"
<1>1. PairKinds(n) \in [1 .. 2 * n -> {"int", "str", "data"}] /\ 2 * n \in Nat
  BY DEF PairKinds
<1>2. PairKinds(n) \in Seq({"int", "str", "data"}) /\ Len(PairKinds(n)) = 2 * n
  BY ONLY <1>1, FunctionIsSeq
<1> QED
  BY <1>2 DEF PairKinds

\* Odd and even places of n pairs.
LEMMA Halves ==
    ASSUME NEW n \in Nat, NEW i \in 1 .. 2 * n
    PROVE  \/ i % 2 = 1 /\ \E j \in 1 .. n : i = 2 * j - 1
           \/ i % 2 # 1 /\ \E j \in 1 .. n : i = 2 * j
<1>1. CASE i % 2 = 1
  <2>1. (i + 1) \div 2 \in 1 .. n /\ i = 2 * ((i + 1) \div 2) - 1
    BY <1>1
  <2> QED
    BY <1>1, <2>1
<1>2. CASE i % 2 # 1
  <2>1. i \div 2 \in 1 .. n /\ i = 2 * (i \div 2)
    BY <1>2
  <2> QED
    BY <1>2, <2>1
<1> QED
  BY <1>1, <1>2

\* read_pairs gives back what write_pairs wrote (addresses and authorization
\* data).
LEMMA PairsReadBack ==
    ASSUME NEW pairs \in Seq(Int \X Int), NEW disk \in Seq(Cell), NEW at \in Nat,
           HasAt(disk, at, write_pairs(pairs))
    PROVE  read_pairs(disk, at) = Value(pairs, at + Len(write_pairs(pairs)))
<1>1. PICK cells : cells = write_pairs(pairs)
  OBVIOUS
<1>2. PICK n : n = Len(pairs)
  OBVIOUS
<1>3. /\ cells \in Seq(Cell) /\ n \in Nat /\ Len(cells) = 1 + 2 * n
      /\ cells[1] = [int |-> n]
      /\ \A j \in 1 .. n : /\ cells[2 * j] = [int |-> pairs[j][1]]
                           /\ cells[2 * j + 1] = [data |-> pairs[j][2]]
  BY <1>1, <1>2, PairCells
<1>4. \A j \in 1 .. n : pairs[j] \in Int \X Int
  BY <1>2
<1>5. /\ at + 2 * n <= Len(disk) /\ Len(disk) \in Nat
      /\ disk[at] = [int |-> n]
      /\ \A j \in 1 .. n : /\ disk[at + 2 * j - 1] = [int |-> pairs[j][1]]
                           /\ disk[at + 2 * j] = [data |-> pairs[j][2]]
  <2>1. at + Len(cells) - 1 <= Len(disk) /\ \A i \in 1 .. Len(cells) : disk[at + i - 1] = cells[i]
    BY <1>1 DEF HasAt
  <2>2. 1 \in 1 .. Len(cells) /\ at + 1 - 1 = at
    BY <1>3
  <2>3. disk[at] = cells[1]
    BY <2>1, <2>2
  <2>4. ASSUME NEW j \in 1 .. n
        PROVE  /\ disk[at + 2 * j - 1] = [int |-> pairs[j][1]]
               /\ disk[at + 2 * j] = [data |-> pairs[j][2]]
    <3>1. j \in Nat /\ 1 <= j /\ j <= n /\ n \in Nat
      BY <1>3
    <3>2. 2 * j \in 1 .. 1 + 2 * n /\ 2 * j + 1 \in 1 .. 1 + 2 * n /\ at + (2 * j + 1) - 1 = at + 2 * j
      BY <3>1
    <3>3. disk[at + 2 * j - 1] = cells[2 * j] /\ disk[at + 2 * j] = cells[2 * j + 1]
      BY <1>3, <2>1, <3>2
    <3> QED
      BY <1>3, <3>3
  <2>5. at + 2 * n <= Len(disk) /\ Len(disk) \in Nat
    BY <1>3, <2>1
  <2> QED
    BY <1>3, <2>3, <2>4, <2>5
<1>6. CanRead(disk, at, <<"int">>)
  <2>1. Len(<<"int">>) = 1 /\ <<"int">>[1] = "int" /\ at + 1 - 1 = at /\ at <= Len(disk)
    BY <1>3, <1>5
  <2>2. "int" \in DOMAIN disk[at]
    BY <1>3, <1>5, CellKinds
  <2> QED
    BY <2>1, <2>2 DEF CanRead
<1>7. disk[at].int = n
  BY <1>5
<1>8. CanRead(disk, at + 1, PairKinds(n))
  <2>1. /\ Len(PairKinds(n)) = 2 * n
        /\ \A i \in 1 .. 2 * n : PairKinds(n)[i] = IF i % 2 = 1 THEN "int" ELSE "data"
    BY <1>3, PairKindsFacts
  <2>2. ASSUME NEW i \in 1 .. 2 * n PROVE PairKinds(n)[i] \in DOMAIN disk[(at + 1) + i - 1]
    <3>1. (at + 1) + i - 1 = at + i
      BY <1>3
    <3>2. CASE i % 2 = 1
      <4>1. PICK j \in 1 .. n : i = 2 * j - 1
        BY <1>3, <3>2, Halves
      <4>2. at + i = at + 2 * j - 1
        BY <1>3, <4>1
      <4>3. disk[at + i] = [int |-> pairs[j][1]] /\ pairs[j][1] \in Int
        BY <1>4, <1>5, <4>2
      <4>4. "int" \in DOMAIN disk[at + i]
        BY <4>3, CellKinds
      <4> QED
        BY <2>1, <3>1, <3>2, <4>4
    <3>3. CASE i % 2 # 1
      <4>1. PICK j \in 1 .. n : i = 2 * j
        BY <1>3, <3>3, Halves
      <4>2. disk[at + 2 * j] = [data |-> pairs[j][2]] /\ pairs[j] \in Int \X Int
        BY <1>4, <1>5
      <4>3. disk[at + i] = [data |-> pairs[j][2]] /\ pairs[j][2] \in Int
        BY <4>1, <4>2
      <4>4. "data" \in DOMAIN disk[at + i]
        BY ONLY <4>3, CellKinds
      <4> QED
        BY <2>1, <3>1, <3>3, <4>4
    <3> QED
      BY <3>2, <3>3
  <2>3. (at + 1) + 2 * n - 1 <= Len(disk)
    BY <1>3, <1>5
  <2> QED
    BY <2>1, <2>2, <2>3 DEF CanRead
<1>9. read_pairs(disk, at)
        = Value([i \in 1 .. n |-> <<disk[at + 2 * i - 1].int, disk[at + 2 * i].data>>], at + 1 + 2 * n)
  <2>1. ~ (n < 0)
    BY <1>3
  <2>2. CanRead(disk, at + 1, [i \in 1 .. 2 * n |-> IF i % 2 = 1 THEN "int" ELSE "data"])
    BY <1>8 DEF PairKinds
  <2> QED
    BY <1>6, <1>7, <2>1, <2>2 DEF read_pairs
<1>10. [i \in 1 .. n |-> <<disk[at + 2 * i - 1].int, disk[at + 2 * i].data>>] = pairs
  <2>1. ASSUME NEW i \in 1 .. n
        PROVE  <<disk[at + 2 * i - 1].int, disk[at + 2 * i].data>> = pairs[i]
    <3>1. pairs[i] = <<pairs[i][1], pairs[i][2]>>
      BY <1>4
    <3>2. disk[at + 2 * i - 1] = [int |-> pairs[i][1]] /\ disk[at + 2 * i] = [data |-> pairs[i][2]]
      BY <1>5
    <3>3. disk[at + 2 * i - 1].int = pairs[i][1] /\ disk[at + 2 * i].data = pairs[i][2]
      BY ONLY <3>2
    <3> QED
      BY <3>1, <3>3
  <2>2. [i \in 1 .. n |-> <<disk[at + 2 * i - 1].int, disk[at + 2 * i].data>>] = [i \in 1 .. n |-> pairs[i]]
    BY <2>1
  <2> QED
    BY <1>2, <2>2, SeqIsFunction
<1>11. at + 1 + 2 * n = at + Len(cells)
  BY <1>3
<1> QED
  BY <1>1, <1>9, <1>10, <1>11

\* read_pairs fails on pairs that were cut off.
LEMMA PairsCutOff ==
    ASSUME NEW pairs \in Seq(Int \X Int), NEW disk \in Seq(Cell), NEW at \in Nat,
           StopsIn(disk, at, write_pairs(pairs))
    PROVE  read_pairs(disk, at) = Error
<1>1. PICK cells : cells = write_pairs(pairs)
  OBVIOUS
<1>2. PICK n : n = Len(pairs)
  OBVIOUS
<1>3. /\ cells \in Seq(Cell) /\ n \in Nat /\ Len(cells) = 1 + 2 * n
      /\ cells[1] = [int |-> n]
  BY <1>1, <1>2, PairCells
<1>4. PICK k \in 0 .. Len(cells) - 1 :
        /\ \A i \in 1 .. k : disk[at + i - 1] = cells[i]
        /\ at + k - 1 <= Len(disk)
        /\ at + k <= Len(disk) => disk[at + k] = [part |-> 0]
  BY <1>1 DEF StopsIn
<1>5. CASE k = 0
  <2>1. <<"int">> \in Seq({"int", "str", "data"}) /\ 1 \in 1 .. Len(<<"int">>) /\ at + 1 - 1 = at + k
    BY <1>5
  <2>2. ~ CanRead(disk, at, <<"int">>)
    BY <1>4, <2>1, CannotRead
  <2> QED
    BY <2>2 DEF read_pairs
<1>6. CASE k # 0
  <2>1. 1 \in 1 .. k /\ at + 1 - 1 = at
    BY <1>3, <1>4, <1>6
  <2>2. disk[at].int = n
    BY <1>3, <1>4, <2>1
  <2>3. PairKinds(n) \in Seq({"int", "str", "data"}) /\ Len(PairKinds(n)) = 2 * n
    BY <1>3, PairKindsFacts
  <2>4. k \in 1 .. Len(PairKinds(n)) /\ (at + 1) + k - 1 = at + k
    BY <1>3, <1>6, <2>3
  <2>5. ~ CanRead(disk, at + 1, PairKinds(n))
    BY <1>4, <2>3, <2>4, CannotRead
  <2> QED
    BY <2>2, <2>5 DEF read_pairs, PairKinds
<1> QED
  BY <1>5, <1>6

-----------------------------------------------------------------------------
(* Credentials.                                                             *)

\* The fields between the principals and the addresses.
FixedCells(c) ==
    <<[int |-> c.etype], [data |-> c.key], [int |-> c.times[1]], [int |-> c.times[2]],
      [int |-> c.times[3]], [int |-> c.times[4]], [int |-> c.skey], [data |-> c.flags]>>
\* What version 3 has before them.
ExtraCells(c, version) == IF version = 3 THEN <<[int |-> c.etype]>> ELSE <<>>
LastCells(c) == <<[data |-> c.ticket], [data |-> c.second]>>

\* The fields of a credential.
LEMMA CredentialTypes ==
    ASSUME NEW c \in CredentialRecords
    PROVE  /\ c.client \in Principals /\ c.server \in Principals /\ c.etype \in Int /\ c.key \in Int
           /\ c.times \in [1 .. 4 -> Int] /\ c.times[1] \in Int /\ c.times[2] \in Int
           /\ c.times[3] \in Int /\ c.times[4] \in Int /\ c.skey \in Int /\ c.flags \in Int
           /\ c.addresses \in Seq(Int \X Int) /\ c.auth_data \in Seq(Int \X Int)
           /\ c.ticket \in Int /\ c.second \in Int
<1>1. c.times \in [1 .. 4 -> Int]
  BY DEF CredentialRecords
<1>2. 1 \in 1 .. 4 /\ 2 \in 1 .. 4 /\ 3 \in 1 .. 4 /\ 4 \in 1 .. 4
  OBVIOUS
<1>3. c.times[1] \in Int /\ c.times[2] \in Int /\ c.times[3] \in Int /\ c.times[4] \in Int
  BY <1>1, <1>2
<1> QED
  BY <1>1, <1>3 DEF CredentialRecords

\* The parts of a credential that have a fixed number of fields.
LEMMA FixedParts ==
    ASSUME NEW c \in CredentialRecords, NEW version \in 1 .. 4
    PROVE  /\ FixedCells(c) \in Seq(Cell) /\ Len(FixedCells(c)) = 8
           /\ ExtraCells(c, version) \in Seq(Cell)
           /\ Len(ExtraCells(c, version)) = IF version = 3 THEN 1 ELSE 0
           /\ LastCells(c) \in Seq(Cell) /\ Len(LastCells(c)) = 2
<1>1. /\ [int |-> c.etype] \in Cell /\ [data |-> c.key] \in Cell /\ [int |-> c.times[1]] \in Cell
      /\ [int |-> c.times[2]] \in Cell /\ [int |-> c.times[3]] \in Cell /\ [int |-> c.times[4]] \in Cell
      /\ [int |-> c.skey] \in Cell /\ [data |-> c.flags] \in Cell
      /\ [data |-> c.ticket] \in Cell /\ [data |-> c.second] \in Cell
  BY CredentialTypes, CellKinds
<1>2. FixedCells(c) \in Seq(Cell) /\ Len(FixedCells(c)) = 8
  BY <1>1 DEF FixedCells
<1>3. /\ ExtraCells(c, version) \in Seq(Cell)
      /\ Len(ExtraCells(c, version)) = IF version = 3 THEN 1 ELSE 0
  <2>1. CASE version = 3
    BY <2>1, <1>1 DEF ExtraCells
  <2>2. CASE version # 3
    BY <2>2 DEF ExtraCells
  <2> QED
    BY <2>1, <2>2
<1>4. LastCells(c) \in Seq(Cell) /\ Len(LastCells(c)) = 2
  BY <1>1 DEF LastCells
<1> QED
  BY <1>2, <1>3, <1>4

\* A part y after others x, and its place.
Parted(disk, at, x, k, y, z) ==
    /\ z \in Seq(Cell) /\ at + Len(z) = k + Len(y)
    /\ HasAt(disk, at, z) <=> (HasAt(disk, at, x) /\ HasAt(disk, k, y))
    /\ StopsIn(disk, at, z) => (StopsIn(disk, at, x) \/ (HasAt(disk, at, x) /\ StopsIn(disk, k, y)))

\* Reading on behind a part.
LEMMA NextPart ==
    ASSUME NEW disk \in Seq(Cell), NEW at \in Nat, NEW x \in Seq(Cell), NEW y \in Seq(Cell), NEW z, NEW k,
           z = x \o y, k = at + Len(x)
    PROVE  Parted(disk, at, x, k, y, z)
<1>1. HasAt(disk, at, x \o y) <=> (HasAt(disk, at, x) /\ HasAt(disk, at + Len(x), y))
  BY HasAtConcat
<1>2. StopsIn(disk, at, x \o y) => (StopsIn(disk, at, x) \/ (HasAt(disk, at, x) /\ StopsIn(disk, at + Len(x), y)))
  BY StopsInConcat
<1>3. x \o y \in Seq(Cell) /\ at + Len(x \o y) = (at + Len(x)) + Len(y)
  OBVIOUS
<1> QED
  BY <1>1, <1>2, <1>3 DEF Parted

\* Seven parts one after another.
Seven(a, b, c, d, e, f, g) == a \o b \o c \o d \o e \o f \o g

Sevened(disk, at, a, b, c, d, e, f, g, p, q, r, s, t, u, all) ==
    /\ all \in Seq(Cell) /\ at + Len(all) = u + Len(g)
    /\ HasAt(disk, at, all) =>
         /\ HasAt(disk, at, a) /\ HasAt(disk, p, b) /\ HasAt(disk, q, c) /\ HasAt(disk, r, d)
         /\ HasAt(disk, s, e) /\ HasAt(disk, t, f) /\ HasAt(disk, u, g)
    /\ StopsIn(disk, at, all) =>
         \/ StopsIn(disk, at, a)
         \/ HasAt(disk, at, a) /\ StopsIn(disk, p, b)
         \/ HasAt(disk, at, a) /\ HasAt(disk, p, b) /\ StopsIn(disk, q, c)
         \/ HasAt(disk, at, a) /\ HasAt(disk, p, b) /\ HasAt(disk, q, c) /\ StopsIn(disk, r, d)
         \/ HasAt(disk, at, a) /\ HasAt(disk, p, b) /\ HasAt(disk, q, c) /\ HasAt(disk, r, d)
            /\ StopsIn(disk, s, e)
         \/ HasAt(disk, at, a) /\ HasAt(disk, p, b) /\ HasAt(disk, q, c) /\ HasAt(disk, r, d)
            /\ HasAt(disk, s, e) /\ StopsIn(disk, t, f)
         \/ HasAt(disk, at, a) /\ HasAt(disk, p, b) /\ HasAt(disk, q, c) /\ HasAt(disk, r, d)
            /\ HasAt(disk, s, e) /\ HasAt(disk, t, f) /\ StopsIn(disk, u, g)

\* The seven parts of a credential are there if it is, at the places that
\* follow each other.
LEMMA SevenHasAt ==
    ASSUME NEW disk \in Seq(Cell), NEW at \in Nat,
           NEW a \in Seq(Cell), NEW b \in Seq(Cell), NEW c \in Seq(Cell), NEW d \in Seq(Cell),
           NEW e \in Seq(Cell), NEW f \in Seq(Cell), NEW g \in Seq(Cell),
           NEW p \in Nat, NEW q \in Nat, NEW r \in Nat, NEW s \in Nat, NEW t \in Nat, NEW u \in Nat,
           p = at + Len(a), q = p + Len(b), r = q + Len(c), s = r + Len(d), t = s + Len(e), u = t + Len(f),
           NEW all, all = Seven(a, b, c, d, e, f, g)
    PROVE  Sevened(disk, at, a, b, c, d, e, f, g, p, q, r, s, t, u, all)
<1>1. PICK v2, v3, v4, v5, v6, v7 :
        /\ v2 = a \o b /\ v3 = v2 \o c /\ v4 = v3 \o d /\ v5 = v4 \o e /\ v6 = v5 \o f /\ v7 = v6 \o g
  OBVIOUS
<1>2. all = v7
  BY <1>1 DEF Seven
<1>3. Parted(disk, at, a, p, b, v2) /\ v2 \in Seq(Cell) /\ at + Len(v2) = q
  <2>1. disk \in Seq(Cell) /\ at \in Nat /\ a \in Seq(Cell) /\ b \in Seq(Cell)
        /\ v2 = a \o b /\ p = at + Len(a)
    BY <1>1
  <2>2. Parted(disk, at, a, p, b, v2)
    BY ONLY <2>1, NextPart
  <2> QED
    BY <2>2 DEF Parted
<1>4. Parted(disk, at, v2, q, c, v3) /\ v3 \in Seq(Cell) /\ at + Len(v3) = r
  <2>1. disk \in Seq(Cell) /\ at \in Nat /\ v2 \in Seq(Cell) /\ c \in Seq(Cell)
        /\ v3 = v2 \o c /\ q = at + Len(v2)
    BY <1>1, <1>3
  <2>2. Parted(disk, at, v2, q, c, v3)
    BY ONLY <2>1, NextPart
  <2> QED
    BY <2>2 DEF Parted
<1>5. Parted(disk, at, v3, r, d, v4) /\ v4 \in Seq(Cell) /\ at + Len(v4) = s
  <2>1. disk \in Seq(Cell) /\ at \in Nat /\ v3 \in Seq(Cell) /\ d \in Seq(Cell)
        /\ v4 = v3 \o d /\ r = at + Len(v3)
    BY <1>1, <1>4
  <2>2. Parted(disk, at, v3, r, d, v4)
    BY ONLY <2>1, NextPart
  <2> QED
    BY <2>2 DEF Parted
<1>6. Parted(disk, at, v4, s, e, v5) /\ v5 \in Seq(Cell) /\ at + Len(v5) = t
  <2>1. disk \in Seq(Cell) /\ at \in Nat /\ v4 \in Seq(Cell) /\ e \in Seq(Cell)
        /\ v5 = v4 \o e /\ s = at + Len(v4)
    BY <1>1, <1>5
  <2>2. Parted(disk, at, v4, s, e, v5)
    BY ONLY <2>1, NextPart
  <2> QED
    BY <2>2 DEF Parted
<1>7. Parted(disk, at, v5, t, f, v6) /\ v6 \in Seq(Cell) /\ at + Len(v6) = u
  <2>1. disk \in Seq(Cell) /\ at \in Nat /\ v5 \in Seq(Cell) /\ f \in Seq(Cell)
        /\ v6 = v5 \o f /\ t = at + Len(v5)
    BY <1>1, <1>6
  <2>2. Parted(disk, at, v5, t, f, v6)
    BY ONLY <2>1, NextPart
  <2> QED
    BY <2>2 DEF Parted
<1>8. Parted(disk, at, v6, u, g, v7) /\ v7 \in Seq(Cell) /\ at + Len(v7) = u + Len(g)
  <2>1. disk \in Seq(Cell) /\ at \in Nat /\ v6 \in Seq(Cell) /\ g \in Seq(Cell)
        /\ v7 = v6 \o g /\ u = at + Len(v6)
    BY <1>1, <1>7
  <2>2. Parted(disk, at, v6, u, g, v7)
    BY ONLY <2>1, NextPart
  <2> QED
    BY <2>2 DEF Parted
<1> QED
  BY <1>2, <1>3, <1>4, <1>5, <1>6, <1>7, <1>8, Zenon DEF Parted, Sevened

\* Credential_write_to writes seven parts.
LEMMA CredentialIsSeven ==
    ASSUME NEW c \in CredentialRecords, NEW version \in 1 .. 4
    PROVE  Credential_write_to(c, version)
             = Seven(Principal_write_to(c.client, version), Principal_write_to(c.server, version),
                     ExtraCells(c, version), FixedCells(c), write_pairs(c.addresses),
                     write_pairs(c.auth_data), LastCells(c))
  BY DEF Credential_write_to, Seven, ExtraCells, FixedCells, LastCells, IntCell

\* The kinds of the fixed fields of a credential.
LEMMA FieldKindFacts ==
    /\ CredentialFields \in Seq({"int", "str", "data"}) /\ Len(CredentialFields) = 8
    /\ CredentialFields[1] = "int" /\ CredentialFields[2] = "data" /\ CredentialFields[3] = "int"
    /\ CredentialFields[4] = "int" /\ CredentialFields[5] = "int" /\ CredentialFields[6] = "int"
    /\ CredentialFields[7] = "int" /\ CredentialFields[8] = "data"
  BY DEF CredentialFields

\* The fixed fields of a credential are read as they were written.
LEMMA FixedReadBack ==
    ASSUME NEW c \in CredentialRecords, NEW disk \in Seq(Cell), NEW r \in Nat,
           HasAt(disk, r, FixedCells(c))
    PROVE  /\ CanRead(disk, r, CredentialFields)
           /\ disk[r].int = c.etype /\ disk[r + 1].data = c.key
           /\ [i \in 1 .. 4 |-> disk[r + 1 + i].int] = c.times
           /\ disk[r + 6].int = c.skey /\ disk[r + 7].data = c.flags
<1>1. Len(FixedCells(c)) = 8 /\ Len(disk) \in Nat
  BY FixedParts
<1>2. r + 8 - 1 <= Len(disk) /\ \A i \in 1 .. 8 : disk[r + i - 1] = FixedCells(c)[i]
  BY <1>1 DEF HasAt
<1>3. /\ disk[r] = [int |-> c.etype] /\ disk[r + 1] = [data |-> c.key]
      /\ disk[r + 2] = [int |-> c.times[1]] /\ disk[r + 3] = [int |-> c.times[2]]
      /\ disk[r + 4] = [int |-> c.times[3]] /\ disk[r + 5] = [int |-> c.times[4]]
      /\ disk[r + 6] = [int |-> c.skey] /\ disk[r + 7] = [data |-> c.flags]
  <2>1. /\ r + 1 - 1 = r /\ r + 2 - 1 = r + 1 /\ r + 3 - 1 = r + 2 /\ r + 4 - 1 = r + 3
        /\ r + 5 - 1 = r + 4 /\ r + 6 - 1 = r + 5 /\ r + 7 - 1 = r + 6 /\ r + 8 - 1 = r + 7
        /\ 1 \in 1 .. 8 /\ 2 \in 1 .. 8 /\ 3 \in 1 .. 8 /\ 4 \in 1 .. 8
        /\ 5 \in 1 .. 8 /\ 6 \in 1 .. 8 /\ 7 \in 1 .. 8 /\ 8 \in 1 .. 8
    OBVIOUS
  <2>2. /\ disk[r] = FixedCells(c)[1] /\ disk[r + 1] = FixedCells(c)[2] /\ disk[r + 2] = FixedCells(c)[3]
        /\ disk[r + 3] = FixedCells(c)[4] /\ disk[r + 4] = FixedCells(c)[5] /\ disk[r + 5] = FixedCells(c)[6]
        /\ disk[r + 6] = FixedCells(c)[7] /\ disk[r + 7] = FixedCells(c)[8]
    BY <1>2, <2>1
  <2> QED
    BY <2>2 DEF FixedCells
<1>4. CanRead(disk, r, CredentialFields)
  <2>1. ASSUME NEW i \in 1 .. 8 PROVE CredentialFields[i] \in DOMAIN disk[r + i - 1]
    <3>1. /\ "int" \in DOMAIN disk[r] /\ "data" \in DOMAIN disk[r + 1] /\ "int" \in DOMAIN disk[r + 2]
          /\ "int" \in DOMAIN disk[r + 3] /\ "int" \in DOMAIN disk[r + 4] /\ "int" \in DOMAIN disk[r + 5]
          /\ "int" \in DOMAIN disk[r + 6] /\ "data" \in DOMAIN disk[r + 7]
      BY <1>3, CredentialTypes, CellKinds
    <3>2. /\ i \in {1, 2, 3, 4, 5, 6, 7, 8}
          /\ r + 1 - 1 = r /\ r + 2 - 1 = r + 1 /\ r + 3 - 1 = r + 2 /\ r + 4 - 1 = r + 3
          /\ r + 5 - 1 = r + 4 /\ r + 6 - 1 = r + 5 /\ r + 7 - 1 = r + 6 /\ r + 8 - 1 = r + 7
      OBVIOUS
    <3> QED
      BY <3>1, <3>2, FieldKindFacts
  <2> QED
    BY <1>1, <1>2, <2>1, FieldKindFacts DEF CanRead
<1>5. [i \in 1 .. 4 |-> disk[r + 1 + i].int] = c.times
  <2>1. c.times \in [1 .. 4 -> Int]
    BY CredentialTypes
  <2>2. ASSUME NEW i \in 1 .. 4 PROVE disk[r + 1 + i].int = c.times[i]
    <3>1. /\ i \in {1, 2, 3, 4}
          /\ r + 1 + 1 = r + 2 /\ r + 1 + 2 = r + 3 /\ r + 1 + 3 = r + 4 /\ r + 1 + 4 = r + 5
      OBVIOUS
    <3>2. /\ disk[r + 2].int = c.times[1] /\ disk[r + 3].int = c.times[2]
          /\ disk[r + 4].int = c.times[3] /\ disk[r + 5].int = c.times[4]
      BY <1>3
    <3> QED
      BY <3>1, <3>2
  <2> QED
    BY <2>1, <2>2
<1>6. disk[r].int = c.etype /\ disk[r + 1].data = c.key /\ disk[r + 6].int = c.skey /\ disk[r + 7].data = c.flags
  BY <1>3
<1> QED
  BY <1>4, <1>5, <1>6

\* Likewise for ticket and second ticket.
LEMMA LastReadBack ==
    ASSUME NEW c \in CredentialRecords, NEW disk \in Seq(Cell), NEW u \in Nat,
           HasAt(disk, u, LastCells(c))
    PROVE  /\ CanRead(disk, u, <<"data", "data">>)
           /\ disk[u].data = c.ticket /\ disk[u + 1].data = c.second
<1>1. Len(LastCells(c)) = 2 /\ Len(disk) \in Nat
  BY FixedParts
<1>2. u + 2 - 1 <= Len(disk) /\ \A i \in 1 .. 2 : disk[u + i - 1] = LastCells(c)[i]
  BY <1>1 DEF HasAt
<1>3. disk[u] = [data |-> c.ticket] /\ disk[u + 1] = [data |-> c.second]
  <2>1. u + 1 - 1 = u /\ u + 2 - 1 = u + 1 /\ 1 \in 1 .. 2 /\ 2 \in 1 .. 2
    OBVIOUS
  <2> QED
    BY <1>2, <2>1 DEF LastCells
<1>4. CanRead(disk, u, <<"data", "data">>)
  <2>1. "data" \in DOMAIN disk[u] /\ "data" \in DOMAIN disk[u + 1]
    BY <1>3, CredentialTypes, CellKinds
  <2>2. Len(<<"data", "data">>) = 2 /\ <<"data", "data">>[1] = "data" /\ <<"data", "data">>[2] = "data"
    OBVIOUS
  <2>3. \A i \in 1 .. 2 : \/ i = 1 /\ u + i - 1 = u
                          \/ i = 2 /\ u + i - 1 = u + 1
    OBVIOUS
  <2> QED
    BY <1>1, <1>2, <2>1, <2>2, <2>3 DEF CanRead
<1> QED
  BY <1>3, <1>4

\* Where the parts of a credential at some place are.
Layout(disk, at, c, version, p, q, r, s, t, u) ==
    /\ p \in Nat /\ q \in Nat /\ r \in Nat /\ s \in Nat /\ t \in Nat /\ u \in Nat
    /\ p = at + Len(Principal_write_to(c.client, version))
    /\ q = p + Len(Principal_write_to(c.server, version))
    /\ r = IF version = 3 THEN q + 1 ELSE q
    /\ s = r + 8
    /\ t = s + Len(write_pairs(c.addresses)) /\ u = t + Len(write_pairs(c.auth_data))
    /\ at + Len(Credential_write_to(c, version)) = u + 2

\* Where the parts of a credential are.
LEMMA CredentialLayout ==
    ASSUME NEW c \in CredentialRecords, NEW version \in 1 .. 4, NEW disk \in Seq(Cell), NEW at \in Nat
    PROVE  /\ Credential_write_to(c, version) \in Seq(Cell)
           /\ \E p, q, r, s, t, u :
                /\ Layout(disk, at, c, version, p, q, r, s, t, u)
                /\ HasAt(disk, at, Credential_write_to(c, version)) =>
                      /\ HasAt(disk, at, Principal_write_to(c.client, version))
                      /\ HasAt(disk, p, Principal_write_to(c.server, version))
                      /\ HasAt(disk, r, FixedCells(c)) /\ HasAt(disk, s, write_pairs(c.addresses))
                      /\ HasAt(disk, t, write_pairs(c.auth_data)) /\ HasAt(disk, u, LastCells(c))
                /\ StopsIn(disk, at, Credential_write_to(c, version)) =>
                      \/ StopsIn(disk, at, Principal_write_to(c.client, version))
                      \/ /\ HasAt(disk, at, Principal_write_to(c.client, version))
                         /\ \/ StopsIn(disk, p, Principal_write_to(c.server, version))
                            \/ /\ HasAt(disk, p, Principal_write_to(c.server, version))
                               /\ \/ StopsIn(disk, q, ExtraCells(c, version))
                                  \/ StopsIn(disk, r, FixedCells(c))
                                  \/ /\ HasAt(disk, r, FixedCells(c))
                                     /\ \/ StopsIn(disk, s, write_pairs(c.addresses))
                                        \/ /\ HasAt(disk, s, write_pairs(c.addresses))
                                           /\ \/ StopsIn(disk, t, write_pairs(c.auth_data))
                                              \/ /\ HasAt(disk, t, write_pairs(c.auth_data))
                                                 /\ StopsIn(disk, u, LastCells(c))
<1>1. PICK C, S, X, F, A, B, L :
        /\ C = Principal_write_to(c.client, version) /\ S = Principal_write_to(c.server, version)
        /\ X = ExtraCells(c, version) /\ F = FixedCells(c) /\ A = write_pairs(c.addresses)
        /\ B = write_pairs(c.auth_data) /\ L = LastCells(c)
  OBVIOUS
<1>2. C \in Seq(Cell) /\ S \in Seq(Cell) /\ A \in Seq(Cell) /\ B \in Seq(Cell)
  BY <1>1, CredentialTypes, PrincipalCells, PairCells
<1>3. /\ X \in Seq(Cell) /\ F \in Seq(Cell) /\ L \in Seq(Cell) /\ Len(F) = 8 /\ Len(L) = 2
      /\ Len(X) = IF version = 3 THEN 1 ELSE 0
  BY <1>1, FixedParts
<1>4. PICK p, q, r, s, t, u :
        p = at + Len(C) /\ q = p + Len(S) /\ r = q + Len(X) /\ s = r + Len(F) /\ t = s + Len(A) /\ u = t + Len(B)
  OBVIOUS
<1>5. Len(C) \in Nat /\ Len(S) \in Nat /\ Len(X) \in Nat /\ Len(F) \in Nat /\ Len(A) \in Nat /\ Len(B) \in Nat
  BY <1>2, <1>3
<1>6. /\ p = at + Len(C) /\ q = p + Len(S) /\ r = q + Len(X) /\ s = r + Len(F) /\ t = s + Len(A) /\ u = t + Len(B)
      /\ p \in Nat /\ q \in Nat /\ r \in Nat /\ s \in Nat /\ t \in Nat /\ u \in Nat /\ at \in Nat
      /\ C \in Seq(Cell) /\ S \in Seq(Cell) /\ X \in Seq(Cell) /\ F \in Seq(Cell)
      /\ A \in Seq(Cell) /\ B \in Seq(Cell) /\ L \in Seq(Cell) /\ disk \in Seq(Cell)
  <2>0. \A i, j \in Nat : i + j \in Nat
    BY ONLY TRUE
  <2>1. p \in Nat
    BY ONLY <1>4, <1>5, <2>0, at \in Nat, Zenon
  <2>2. q \in Nat
    BY ONLY <1>4, <1>5, <2>0, <2>1, Zenon
  <2>3. r \in Nat
    BY ONLY <1>4, <1>5, <2>0, <2>2, Zenon
  <2>4. s \in Nat
    BY ONLY <1>4, <1>5, <2>0, <2>3, Zenon
  <2>5. t \in Nat
    BY ONLY <1>4, <1>5, <2>0, <2>4, Zenon
  <2>6. u \in Nat
    BY ONLY <1>4, <1>5, <2>0, <2>5, Zenon
  <2> QED
    BY <1>2, <1>3, <1>4, <2>1, <2>2, <2>3, <2>4, <2>5, <2>6
<1>7. PICK all : all = Seven(C, S, X, F, A, B, L)
  OBVIOUS
<1>8. Credential_write_to(c, version) = all
  BY <1>1, <1>7, CredentialIsSeven
<1>9. Sevened(disk, at, C, S, X, F, A, B, L, p, q, r, s, t, u, all)
  BY ONLY <1>6, <1>7, SevenHasAt
<1>10. all \in Seq(Cell) /\ at + Len(all) = u + 2
  BY <1>3, <1>9 DEF Sevened
<1>11. Layout(disk, at, c, version, p, q, r, s, t, u)
  <2>1. (r = IF version = 3 THEN q + 1 ELSE q) /\ s = r + 8
    <3>1. /\ q \in Nat /\ r = q + Len(X) /\ s = r + Len(F) /\ Len(F) = 8
          /\ Len(X) = IF version = 3 THEN 1 ELSE 0
      BY ONLY <1>3, <1>6
    <3> QED
      BY ONLY <3>1
  <2> QED
    BY <1>1, <1>6, <1>8, <1>10, <2>1 DEF Layout
<1> QED
  BY <1>1, <1>8, <1>9, <1>10, <1>11, Zenon DEF Sevened

\* A credential that was written is read back, as it is stored.
LEMMA CredentialReadBack ==
    ASSUME NEW c \in CredentialRecords, NEW version \in 1 .. 4, NEW disk \in Seq(Cell), NEW at \in Nat,
           HasAt(disk, at, Credential_write_to(c, version))
    PROVE  Credential_parse(disk, at, version)
             = Value(StoredCredential(version, c), at + Len(Credential_write_to(c, version)))
<1>1. PICK p, q, r, s, t, u :
        /\ Layout(disk, at, c, version, p, q, r, s, t, u)
        /\ HasAt(disk, at, Principal_write_to(c.client, version))
        /\ HasAt(disk, p, Principal_write_to(c.server, version))
        /\ HasAt(disk, r, FixedCells(c)) /\ HasAt(disk, s, write_pairs(c.addresses))
        /\ HasAt(disk, t, write_pairs(c.auth_data)) /\ HasAt(disk, u, LastCells(c))
  BY CredentialLayout
<1>2. p \in Nat /\ q \in Nat /\ r \in Nat /\ s \in Nat /\ t \in Nat /\ u \in Nat
  BY <1>1 DEF Layout
<1>3. PICK client : client = Principal_parse(disk, at, version)
  OBVIOUS
<1>4. client = Value(Stored(version, c.client), p)
  <2>1. c.client \in Principals /\ p = at + Len(Principal_write_to(c.client, version))
    BY <1>1, CredentialTypes DEF Layout
  <2>2. Principal_parse(disk, at, version) = Value(Stored(version, c.client), p)
    BY <1>1, <2>1, PrincipalReadBack
  <2> QED
    BY ONLY <1>3, <2>2
<1>5. PICK server : server = Principal_parse(disk, client.next, version)
  OBVIOUS
<1>6. client.next = p /\ client.ok /\ client.value = Stored(version, c.client)
  BY <1>4 DEF Value
<1>7. server = Value(Stored(version, c.server), q)
  <2>1. q = p + Len(Principal_write_to(c.server, version))
    BY <1>1 DEF Layout
  <2> QED
    BY <1>1, <1>2, <1>5, <1>6, <2>1, CredentialTypes, PrincipalReadBack
<1>8. server.next = q /\ server.ok /\ server.value = Stored(version, c.server)
  BY <1>7 DEF Value
<1>9. (IF version = 3 THEN server.next + 1 ELSE server.next) = r
  BY <1>1, <1>8 DEF Layout
<1>10. /\ CanRead(disk, r, CredentialFields)
       /\ disk[r].int = c.etype /\ disk[r + 1].data = c.key
       /\ [i \in 1 .. 4 |-> disk[r + 1 + i].int] = c.times
       /\ disk[r + 6].int = c.skey /\ disk[r + 7].data = c.flags
  BY <1>1, <1>2, FixedReadBack
<1>11. PICK addresses : addresses = read_pairs(disk, r + 8)
  OBVIOUS
<1>12. addresses = Value(c.addresses, t)
  <2>1. s = r + 8 /\ t = s + Len(write_pairs(c.addresses))
    BY <1>1 DEF Layout
  <2>2. read_pairs(disk, s) = Value(c.addresses, t)
    BY <1>1, <1>2, <2>1, CredentialTypes, PairsReadBack
  <2> QED
    BY <1>11, <2>1, <2>2
<1>13. addresses.next = t /\ addresses.ok /\ addresses.value = c.addresses
  BY <1>12 DEF Value
<1>14. PICK auth_data : auth_data = read_pairs(disk, addresses.next)
  OBVIOUS
<1>15. auth_data = Value(c.auth_data, u)
  <2>1. u = t + Len(write_pairs(c.auth_data))
    BY <1>1 DEF Layout
  <2> QED
    BY <1>1, <1>2, <1>13, <1>14, <2>1, CredentialTypes, PairsReadBack
<1>16. auth_data.next = u /\ auth_data.ok /\ auth_data.value = c.auth_data
  BY <1>15 DEF Value
<1>17. CanRead(disk, u, <<"data", "data">>) /\ disk[u].data = c.ticket /\ disk[u + 1].data = c.second
  BY <1>1, <1>2, LastReadBack
<1>18. at + Len(Credential_write_to(c, version)) = u + 2
  BY <1>1 DEF Layout
<1>19. StoredCredential(version, c)
         = [client |-> Stored(version, c.client), server |-> Stored(version, c.server),
            etype |-> c.etype, key |-> c.key, times |-> c.times,
            skey |-> c.skey, flags |-> c.flags, addresses |-> c.addresses, auth_data |-> c.auth_data,
            ticket |-> c.ticket, second |-> c.second]
  <2>1. PICK x, y : x = Stored(version, c.client) /\ y = Stored(version, c.server)
    OBVIOUS
  <2>2. StoredCredential(version, c) = [c EXCEPT !.client = x, !.server = y]
    BY <2>1 DEF StoredCredential
  <2>3. [c EXCEPT !.client = x, !.server = y]
          = [client |-> x, server |-> y, etype |-> c.etype, key |-> c.key, times |-> c.times,
             skey |-> c.skey, flags |-> c.flags, addresses |-> c.addresses, auth_data |-> c.auth_data,
             ticket |-> c.ticket, second |-> c.second]
    <3>1. PICK a, b, e, k, m, n, f, g, h, i, j :
             c = [client |-> a, server |-> b, etype |-> e, key |-> k, times |-> m, skey |-> n, flags |-> f,
                  addresses |-> g, auth_data |-> h, ticket |-> i, second |-> j]
      BY DEF CredentialRecords
    <3>2. /\ c.etype = e /\ c.key = k /\ c.times = m /\ c.skey = n /\ c.flags = f
          /\ c.addresses = g /\ c.auth_data = h /\ c.ticket = i /\ c.second = j
      BY <3>1
    <3>3. [c EXCEPT !.client = x, !.server = y]
            = [client |-> x, server |-> y, etype |-> e, key |-> k, times |-> m, skey |-> n, flags |-> f,
               addresses |-> g, auth_data |-> h, ticket |-> i, second |-> j]
      <4>1. PICK d : d = [c EXCEPT !.client = x]
        OBVIOUS
      <4>2. d = [client |-> x, server |-> b, etype |-> e, key |-> k, times |-> m, skey |-> n, flags |-> f,
                 addresses |-> g, auth_data |-> h, ticket |-> i, second |-> j]
        BY ONLY <3>1, <4>1
      <4>3. [d EXCEPT !.server = y]
              = [client |-> x, server |-> y, etype |-> e, key |-> k, times |-> m, skey |-> n, flags |-> f,
                 addresses |-> g, auth_data |-> h, ticket |-> i, second |-> j]
        BY ONLY <4>2
      <4>4. [c EXCEPT !.client = x, !.server = y] = [d EXCEPT !.server = y]
        BY ONLY <4>1
      <4> QED
        BY <4>3, <4>4
    <3> QED
      BY <3>2, <3>3
  <2> QED
    BY <2>1, <2>2, <2>3
<1>20. Credential_parse(disk, at, version)
         = Value([client |-> client.value, server |-> server.value,
                  etype |-> disk[r].int, key |-> disk[r + 1].data,
                  times |-> [i \in 1 .. 4 |-> disk[r + 1 + i].int],
                  skey |-> disk[r + 6].int, flags |-> disk[r + 7].data,
                  addresses |-> addresses.value, auth_data |-> auth_data.value,
                  ticket |-> disk[u].data, second |-> disk[u + 1].data], u + 2)
  <2>1. PICK etype, last : /\ etype = IF version = 3 THEN server.next + 1 ELSE server.next
                          /\ last = auth_data.next
    OBVIOUS
  <2>2. etype = r /\ last = u /\ addresses = read_pairs(disk, etype + 8)
    BY <1>9, <1>11, <1>16, <2>1
  <2>3. /\ client.ok /\ server.ok /\ CanRead(disk, etype, CredentialFields)
        /\ addresses.ok /\ auth_data.ok /\ CanRead(disk, last, <<"data", "data">>)
    BY <1>6, <1>8, <1>10, <1>13, <1>16, <1>17, <2>2
  <2>4. Credential_parse(disk, at, version)
          = Value([client |-> client.value, server |-> server.value,
                  etype |-> disk[etype].int, key |-> disk[etype + 1].data,
                  times |-> [i \in 1 .. 4 |-> disk[etype + 1 + i].int],
                  skey |-> disk[etype + 6].int, flags |-> disk[etype + 7].data,
                  addresses |-> addresses.value, auth_data |-> auth_data.value,
                  ticket |-> disk[last].data, second |-> disk[last + 1].data], last + 2)
    BY <1>3, <1>5, <1>14, <2>1, <2>2, <2>3, Zenon DEF Credential_parse
  <2> QED
    BY <2>2, <2>4
<1> QED
  BY <1>6, <1>8, <1>10, <1>13, <1>16, <1>17, <1>18, <1>19, <1>20, Zenon

\* A credential that was cut off is not read.
LEMMA CredentialCutOff ==
    ASSUME NEW c \in CredentialRecords, NEW version \in 1 .. 4, NEW disk \in Seq(Cell), NEW at \in Nat,
           StopsIn(disk, at, Credential_write_to(c, version))
    PROVE  Credential_parse(disk, at, version) = Error
<1>1. PICK p, q, r, s, t, u :
        /\ Layout(disk, at, c, version, p, q, r, s, t, u)
        /\ \/ StopsIn(disk, at, Principal_write_to(c.client, version))
           \/ /\ HasAt(disk, at, Principal_write_to(c.client, version))
              /\ \/ StopsIn(disk, p, Principal_write_to(c.server, version))
                 \/ /\ HasAt(disk, p, Principal_write_to(c.server, version))
                    /\ \/ StopsIn(disk, q, ExtraCells(c, version))
                       \/ StopsIn(disk, r, FixedCells(c))
                       \/ /\ HasAt(disk, r, FixedCells(c))
                          /\ \/ StopsIn(disk, s, write_pairs(c.addresses))
                             \/ /\ HasAt(disk, s, write_pairs(c.addresses))
                                /\ \/ StopsIn(disk, t, write_pairs(c.auth_data))
                                   \/ /\ HasAt(disk, t, write_pairs(c.auth_data))
                                      /\ StopsIn(disk, u, LastCells(c))
  BY CredentialLayout
<1>2. p \in Nat /\ q \in Nat /\ r \in Nat /\ s \in Nat /\ t \in Nat /\ u \in Nat /\ s = r + 8
  BY <1>1 DEF Layout
<1>3. PICK client : client = Principal_parse(disk, at, version)
  OBVIOUS
<1>4. PICK server : server = Principal_parse(disk, client.next, version)
  OBVIOUS
<1>5. PICK etype : etype = IF version = 3 THEN server.next + 1 ELSE server.next
  OBVIOUS
<1>6. PICK addresses : addresses = read_pairs(disk, etype + 8)
  OBVIOUS
<1>7. PICK auth_data : auth_data = read_pairs(disk, addresses.next)
  OBVIOUS
<1>8. \/ ~ client.ok
      \/ ~ server.ok
      \/ ~ CanRead(disk, etype, CredentialFields)
      \/ ~ addresses.ok
      \/ ~ auth_data.ok
      \/ ~ CanRead(disk, auth_data.next, <<"data", "data">>)
  <2>1. CASE StopsIn(disk, at, Principal_write_to(c.client, version))
    <3>1. client = Error
      BY <1>3, <2>1, CredentialTypes, PrincipalCutOff
    <3> QED
      BY <3>1 DEF Error
  <2>2. ASSUME HasAt(disk, at, Principal_write_to(c.client, version)) PROVE client.next = p
    <3>1. client = Value(Stored(version, c.client), p)
      BY <1>1, <1>3, <2>2, CredentialTypes, PrincipalReadBack DEF Layout
    <3> QED
      BY <3>1 DEF Value
  <2>3. CASE /\ HasAt(disk, at, Principal_write_to(c.client, version))
             /\ StopsIn(disk, p, Principal_write_to(c.server, version))
    <3>1. server = Error
      BY <1>2, <1>4, <2>2, <2>3, CredentialTypes, PrincipalCutOff
    <3> QED
      BY <3>1 DEF Error
  <2>4. ASSUME HasAt(disk, at, Principal_write_to(c.client, version)),
               HasAt(disk, p, Principal_write_to(c.server, version))
        PROVE  server.next = q /\ etype = r
    <3>1. server = Value(Stored(version, c.server), q)
      <4>1. q = p + Len(Principal_write_to(c.server, version))
        BY <1>1 DEF Layout
      <4> QED
        BY <1>2, <1>4, <2>2, <2>4, <4>1, CredentialTypes, PrincipalReadBack
    <3> QED
      BY <1>1, <1>5, <3>1 DEF Value, Layout
  <2>5. CASE /\ HasAt(disk, at, Principal_write_to(c.client, version))
             /\ HasAt(disk, p, Principal_write_to(c.server, version))
             /\ StopsIn(disk, q, ExtraCells(c, version))
    <3>1. Len(ExtraCells(c, version)) = IF version = 3 THEN 1 ELSE 0
      BY FixedParts
    <3>2. PICK k \in 0 .. Len(ExtraCells(c, version)) - 1 : Len(disk) <= q + k
      BY <2>5 DEF StopsIn
    <3>3. k = 0 /\ version = 3 /\ r = q + 1
      BY <1>1, <3>1, <3>2 DEF Layout
    <3>4. ~ (r + 8 - 1 <= Len(disk))
      BY <1>2, <3>2, <3>3
    <3>5. ~ CanRead(disk, r, CredentialFields)
      BY <3>4, FieldKindFacts DEF CanRead
    <3> QED
      BY <2>4, <2>5, <3>5
  <2>6. CASE /\ HasAt(disk, at, Principal_write_to(c.client, version))
             /\ HasAt(disk, p, Principal_write_to(c.server, version))
             /\ StopsIn(disk, r, FixedCells(c))
    <3>1. PICK k \in 0 .. Len(FixedCells(c)) - 1 : r + k <= Len(disk) => disk[r + k] = [part |-> 0]
      BY <2>6 DEF StopsIn
    <3>2. k + 1 \in 1 .. Len(CredentialFields) /\ r + (k + 1) - 1 = r + k
      <4>1. Len(FixedCells(c)) = 8 /\ Len(CredentialFields) = 8
        BY FixedParts, FieldKindFacts
      <4>2. k \in 0 .. 7 /\ r \in Nat
        BY <1>2, <3>1, <4>1
      <4>3. k + 1 \in 1 .. 8 /\ r + (k + 1) - 1 = r + k
        BY ONLY <4>2
      <4> QED
        BY <4>1, <4>3
    <3>3. ~ CanRead(disk, r, CredentialFields)
      BY <1>2, <3>1, <3>2, FieldKindFacts, CannotRead
    <3> QED
      BY <2>4, <2>6, <3>3
  <2>7. CASE /\ HasAt(disk, at, Principal_write_to(c.client, version))
             /\ HasAt(disk, p, Principal_write_to(c.server, version))
             /\ StopsIn(disk, s, write_pairs(c.addresses))
    <3>1. read_pairs(disk, s) = Error
      BY <1>2, <2>7, CredentialTypes, PairsCutOff
    <3>2. addresses = Error
      BY <1>2, <1>6, <2>4, <2>7, <3>1
    <3> QED
      BY <3>2 DEF Error
  <2>8. ASSUME HasAt(disk, at, Principal_write_to(c.client, version)),
               HasAt(disk, p, Principal_write_to(c.server, version)),
               HasAt(disk, s, write_pairs(c.addresses))
        PROVE  addresses.next = t
    <3>1. t = s + Len(write_pairs(c.addresses))
      BY <1>1 DEF Layout
    <3>2. read_pairs(disk, s) = Value(c.addresses, t)
      BY <1>2, <2>8, <3>1, CredentialTypes, PairsReadBack
    <3>3. addresses = Value(c.addresses, t)
      BY <1>2, <1>6, <2>4, <2>8, <3>2
    <3> QED
      BY <3>3 DEF Value
  <2>9. CASE /\ HasAt(disk, at, Principal_write_to(c.client, version))
             /\ HasAt(disk, p, Principal_write_to(c.server, version))
             /\ HasAt(disk, s, write_pairs(c.addresses))
             /\ StopsIn(disk, t, write_pairs(c.auth_data))
    <3>1. auth_data = Error
      BY <1>2, <1>7, <2>8, <2>9, CredentialTypes, PairsCutOff
    <3> QED
      BY <3>1 DEF Error
  <2>10. CASE /\ HasAt(disk, at, Principal_write_to(c.client, version))
              /\ HasAt(disk, p, Principal_write_to(c.server, version))
              /\ HasAt(disk, s, write_pairs(c.addresses))
              /\ HasAt(disk, t, write_pairs(c.auth_data))
              /\ StopsIn(disk, u, LastCells(c))
    <3>1. u = t + Len(write_pairs(c.auth_data))
      BY <1>1 DEF Layout
    <3>2. auth_data = Value(c.auth_data, u)
      BY <1>2, <1>7, <2>8, <2>10, <3>1, CredentialTypes, PairsReadBack
    <3>3. auth_data.next = u
      BY <3>2 DEF Value
    <3>4. PICK k \in 0 .. Len(LastCells(c)) - 1 : u + k <= Len(disk) => disk[u + k] = [part |-> 0]
      BY <2>10 DEF StopsIn
    <3>5. <<"data", "data">> \in Seq({"int", "str", "data"}) /\ Len(<<"data", "data">>) = 2
      OBVIOUS
    <3>6. k + 1 \in 1 .. Len(<<"data", "data">>) /\ u + (k + 1) - 1 = u + k
      <4>1. Len(LastCells(c)) = 2
        BY FixedParts
      <4>2. k \in 0 .. 1 /\ u \in Nat
        BY <1>2, <3>4, <4>1
      <4>3. k + 1 \in 1 .. 2 /\ u + (k + 1) - 1 = u + k
        BY ONLY <4>2
      <4> QED
        BY <3>5, <4>3
    <3>7. ~ CanRead(disk, u, <<"data", "data">>)
      BY <1>2, <3>4, <3>5, <3>6, CannotRead
    <3> QED
      BY <3>3, <3>7
  <2> QED
    BY <1>1, <2>1, <2>3, <2>5, <2>6, <2>7, <2>9, <2>10, Zenon
<1> QED
  BY <1>3, <1>4, <1>5, <1>6, <1>7, <1>8, Zenon DEF Credential_parse

-----------------------------------------------------------------------------
(* Lists of credentials.                                                    *)

\* A function that is defined by its value for the number before.
Recursive(f, n, base, G) ==
    /\ f = [i \in 0 .. n |-> f[i]] /\ f[0] = base
    /\ \A i \in 1 .. n : f[i] = G[i][f[i - 1]]

\* A recursive function on 0 .. n exists.
LEMMA Recursion ==
    ASSUME NEW V, NEW n \in Nat, NEW base \in V, NEW G \in [1 .. n -> [V -> V]]
    PROVE  \E f : f \in [0 .. n -> V] /\ Recursive(f, n, base, G)
<1> DEFINE Good(m) == \E f \in [0 .. m -> V] : f = [i \in 0 .. m |-> IF i = 0 THEN base ELSE G[i][f[i - 1]]]
           T == {m \in 0 .. n : ~ Good(m)}
<1>1. SUFFICES ASSUME T # {} PROVE FALSE
  <2>1. n \in 0 .. n /\ \A i \in 1 .. n : i \in 0 .. n /\ i # 0
    OBVIOUS
  <2>2. SUFFICES ASSUME Good(n) PROVE \E f : f \in [0 .. n -> V] /\ Recursive(f, n, base, G)
    BY <2>1
  <2>3. PICK f \in [0 .. n -> V] : f = [i \in 0 .. n |-> IF i = 0 THEN base ELSE G[i][f[i - 1]]]
    BY <2>2
  <2>4. \A i \in 0 .. n : f[i] = IF i = 0 THEN base ELSE G[i][f[i - 1]]
    BY <2>3
  <2>5. f[0] = base /\ \A i \in 1 .. n : f[i] = G[i][f[i - 1]]
    BY <2>1, <2>4
  <2>6. f = [i \in 0 .. n |-> f[i]]
    OBVIOUS
  <2> QED
    BY <2>5, <2>6 DEF Recursive
<1>2. T \in SUBSET Nat
  OBVIOUS
<1>3. PICK m \in T : \A y \in T : m <= y
  BY ONLY <1>1, <1>2, Least
<1>4. m \in 0 .. n /\ ~ Good(m)
  OBVIOUS
<1>5. CASE m = 0
  <2>1. PICK f : f = [i \in 0 .. 0 |-> base]
    OBVIOUS
  <2>2. f \in [0 .. 0 -> V] /\ f = [i \in 0 .. 0 |-> IF i = 0 THEN base ELSE G[i][f[i - 1]]]
    BY <2>1
  <2>3. Good(0)
    BY <2>2
  <2> QED
    BY <1>4, <1>5, <2>3
<1>6. CASE m # 0
  <2>1. m - 1 \in 0 .. n /\ m - 1 \notin T /\ m \in 1 .. n
    <3>1. m - 1 \in Int /\ ~ (m <= m - 1) /\ m - 1 \in 0 .. n /\ m \in 1 .. n
      BY <1>4, <1>6
    <3> QED
      BY <1>3, <3>1
  <2>2. Good(m - 1)
    BY <2>1
  <2>3. PICK f \in [0 .. m - 1 -> V] : f = [i \in 0 .. m - 1 |-> IF i = 0 THEN base ELSE G[i][f[i - 1]]]
    BY <2>2
  <2>4. PICK g : g = [i \in 0 .. m |-> IF i = m THEN G[m][f[m - 1]] ELSE f[i]]
    OBVIOUS
  <2>5. f[m - 1] \in V /\ G[m][f[m - 1]] \in V
    <3>1. m - 1 \in 0 .. m - 1
      BY <1>4, <2>1
    <3>2. f[m - 1] \in V /\ G[m] \in [V -> V]
      BY <2>1, <3>1
    <3> QED
      BY <3>2
  <2>6. \A i \in 0 .. m : i # m => i \in 0 .. m - 1
    BY <1>4
  <2>7. g \in [0 .. m -> V]
    BY <2>4, <2>5, <2>6
  <2>8. ASSUME NEW i \in 0 .. m PROVE g[i] = IF i = 0 THEN base ELSE G[i][g[i - 1]]
    <3>1. CASE i = m
      <4>1. m - 1 \in 0 .. m /\ m - 1 # m /\ g[m - 1] = f[m - 1] /\ g[m] = G[m][f[m - 1]]
        BY <1>4, <1>6, <2>4
      <4> QED
        BY <1>6, <3>1, <4>1
    <3>2. CASE i # m /\ i # 0
      <4>1. i \in 0 .. m - 1 /\ i - 1 \in 0 .. m /\ i - 1 # m
        BY <1>4, <3>2, <2>6
      <4>2. g[i] = f[i] /\ g[i - 1] = f[i - 1]
        BY <2>4, <3>2, <4>1
      <4>3. f[i] = G[i][f[i - 1]]
        BY <2>3, <3>2, <4>1
      <4> QED
        BY <3>2, <4>2, <4>3
    <3>3. CASE i # m /\ i = 0
      <4>1. i \in 0 .. m - 1 /\ g[i] = f[i]
        BY <2>4, <2>6, <3>3
      <4>2. f[i] = base
        BY <2>3, <3>3, <4>1
      <4> QED
        BY <3>3, <4>1, <4>2
    <3> QED
      BY <3>1, <3>2, <3>3
  <2>9. g = [i \in 0 .. m |-> IF i = 0 THEN base ELSE G[i][g[i - 1]]]
    BY <2>7, <2>8
  <2>10. Good(m)
    BY <2>7, <2>9
  <2> QED
    BY <1>4, <2>10
<1> QED
  BY <1>5, <1>6

\* Its values are all in a set that the first is in and the steps stay in.
LEMMA RecursionTyped ==
    ASSUME NEW V, NEW n \in Nat, NEW G \in [1 .. n -> [V -> V]], NEW g,
           g = [i \in 0 .. n |-> g[i]], g[0] \in V,
           \A i \in 1 .. n : g[i - 1] \in V => g[i] = G[i][g[i - 1]]
    PROVE  g \in [0 .. n -> V]
<1> DEFINE T == {m \in 0 .. n : g[m] \notin V}
<1>1. SUFFICES ASSUME T # {} PROVE FALSE
  OBVIOUS
<1>2. T \in SUBSET Nat
  OBVIOUS
<1>3. PICK m \in T : \A y \in T : m <= y
  BY ONLY <1>1, <1>2, Least
<1>4. m \in 0 .. n /\ g[m] \notin V /\ m # 0
  OBVIOUS
<1>5. m - 1 \in 0 .. n /\ ~ (m <= m - 1) /\ m \in 1 .. n
  BY <1>4
<1>6. g[m - 1] \in V
  BY <1>3, <1>5
<1>7. g[m] = G[m][g[m - 1]] /\ G[m] \in [V -> V]
  BY <1>5, <1>6
<1> QED
  BY <1>4, <1>6, <1>7

\* Credential_write_to writes cells.
LEMMA CredentialIsCells ==
    ASSUME NEW c \in CredentialRecords, NEW version \in 1 .. 4
    PROVE  Credential_write_to(c, version) \in Seq(Cell)
<1>1. <<>> \in Seq(Cell) /\ 1 \in Nat
  OBVIOUS
<1>2. PICK disk, at : disk \in Seq(Cell) /\ at \in Nat
  BY <1>1
<1> QED
  BY <1>2, CredentialLayout DEF Layout

\* The cells of the first i credentials: the recursion that the loop of
\* to_bytes goes through.
LEMMA CredentialCellsFacts ==
    ASSUME NEW list \in Seq(CredentialRecords), NEW version \in 1 .. 4
    PROVE  /\ CredentialCells(list, version) \in [0 .. Len(list) -> Seq(Cell)]
           /\ CredentialCells(list, version)[0] = <<>>
           /\ \A i \in 1 .. Len(list) : CredentialCells(list, version)[i]
                = CredentialCells(list, version)[i - 1] \o Credential_write_to(list[i], version)
<1> DEFINE Step(i, v) == v \o Credential_write_to(list[i], version)
           Is(h, m) == h = [i \in 0 .. m |-> IF i = 0 THEN <<>> ELSE Step(i, h[i - 1])]
<1>1. PICK n, V, none : n = Len(list) /\ V = Seq(Cell) /\ none = <<>>
  OBVIOUS
<1>2. n \in Nat /\ none \in V /\ \A i \in 1 .. n : list[i] \in CredentialRecords
  BY <1>1
<1>3. ASSUME NEW i \in 1 .. n, NEW v \in V PROVE Step(i, v) \in V
  <2>1. Credential_write_to(list[i], version) \in Seq(Cell)
    BY <1>2, CredentialIsCells
  <2> QED
    BY <1>1, <2>1
<1> HIDE DEF Step
<1>4. PICK G : G = [i \in 1 .. n |-> [v \in V |-> Step(i, v)]]
  OBVIOUS
<1>5. G \in [1 .. n -> [V -> V]] /\ \A i \in 1 .. n, v \in V : G[i][v] = Step(i, v)
  BY <1>3, <1>4
<1>6. PICK f : f \in [0 .. n -> V] /\ Recursive(f, n, none, G)
  BY ONLY <1>2, <1>5, Recursion
<1>7. Is(f, n)
  <2>1. ASSUME NEW i \in 0 .. n PROVE f[i] = IF i = 0 THEN <<>> ELSE Step(i, f[i - 1])
    <3>1. i # 0 => i \in 1 .. n /\ i - 1 \in 0 .. n
      BY <1>2
    <3> QED
      BY <1>1, <1>5, <1>6, <3>1 DEF Recursive
  <2> QED
    BY <1>6, <2>1
<1>8. PICK g : g = CredentialCells(list, version)
  OBVIOUS
<1>9. g = CHOOSE h : Is(h, n)
  BY <1>1, <1>8 DEF CredentialCells, Step
<1>10. Is(g, n)
  BY <1>7, <1>9, Zenon
<1>11. g[0] = none /\ g = [i \in 0 .. n |-> g[i]] /\ \A i \in 1 .. n : g[i] = Step(i, g[i - 1])
  <2>1. 0 \in 0 .. n /\ \A i \in 1 .. n : i \in 0 .. n /\ i # 0
    BY <1>2
  <2>2. \A i \in 0 .. n : g[i] = IF i = 0 THEN <<>> ELSE Step(i, g[i - 1])
    BY <1>10
  <2>3. g = [i \in 0 .. n |-> g[i]]
    BY <1>10, <2>2
  <2> QED
    BY <1>1, <2>1, <2>2, <2>3
<1>12. g[0] \in V /\ \A i \in 1 .. n : g[i - 1] \in V => g[i] = G[i][g[i - 1]]
  BY <1>2, <1>5, <1>11
<1>13. g \in [0 .. n -> V]
  BY ONLY <1>2, <1>5, <1>11, <1>12, RecursionTyped
<1> QED
  BY <1>1, <1>8, <1>11, <1>13 DEF Step

-----------------------------------------------------------------------------
(* The header.                                                              *)

\* Induction up to n.
LEMMA Induct ==
    ASSUME NEW n \in Nat, NEW S, 0 \in S, \A i \in 1 .. n : i - 1 \in S => i \in S
    PROVE  \A i \in 0 .. n : i \in S
<1> DEFINE T == {m \in 0 .. n : m \notin S}
<1>1. SUFFICES ASSUME T # {} PROVE FALSE
  OBVIOUS
<1>2. T \in SUBSET Nat
  OBVIOUS
<1>3. PICK m \in T : \A y \in T : m <= y
  BY ONLY <1>1, <1>2, Least
<1>4. m \in 0 .. n /\ m \notin S /\ m # 0
  OBVIOUS
<1>5. m - 1 \in 0 .. n /\ ~ (m <= m - 1) /\ m \in 1 .. n
  BY <1>4
<1>6. m - 1 \in S
  BY <1>3, <1>5
<1> QED
  BY <1>4, <1>5, <1>6

\* The cells of the header of version 4: a length, and two integers for each
\* field.
LEMMA HeaderCells ==
    ASSUME NEW fields \in Seq(Int \X Int)
    PROVE  LET cells == Header_write_to(fields)
               n == Len(fields)
           IN  /\ cells \in Seq(Cell) /\ n \in Nat /\ Len(cells) = 1 + 2 * n
               /\ cells[1] = [int |-> 2 * n]
               /\ \A j \in 1 .. n : /\ cells[2 * j] = [int |-> fields[j][1]]
                                    /\ cells[2 * j + 1] = [int |-> fields[j][2]]
               /\ \A j \in 1 .. 2 * n : \E k \in Int : cells[j + 1] = [int |-> k]
<1> DEFINE n == Len(fields)
           Body(i) == [int |-> IF i % 2 = 1 THEN fields[(i + 1) \div 2][1] ELSE fields[i \div 2][2]]
           body == [i \in 1 .. 2 * n |-> Body(i)]
<1>1. n \in Nat /\ 2 * n \in Nat /\ \A j \in 1 .. n : fields[j] \in Int \X Int
  OBVIOUS
<1>2. ASSUME NEW i \in 1 .. 2 * n PROVE Body(i) \in Cell /\ \E k \in Int : Body(i) = [int |-> k]
  <2>1. CASE i % 2 = 1
    <3>1. (i + 1) \div 2 \in 1 .. n
      BY <1>1, <2>1
    <3>2. fields[(i + 1) \div 2][1] \in Int
      BY <1>1, <3>1
    <3> QED
      BY <2>1, <3>2, CellKinds
  <2>2. CASE i % 2 # 1
    <3>1. i \div 2 \in 1 .. n
      BY <1>1, <2>2
    <3>2. fields[i \div 2][2] \in Int
      BY <1>1, <3>1
    <3> QED
      BY <2>2, <3>2, CellKinds
  <2> QED
    BY <2>1, <2>2
<1>3. ASSUME NEW j \in 1 .. n
      PROVE  /\ 2 * j - 1 \in 1 .. 2 * n /\ 2 * j \in 1 .. 2 * n
             /\ Body(2 * j - 1) = [int |-> fields[j][1]] /\ Body(2 * j) = [int |-> fields[j][2]]
  <2>1. /\ 2 * j - 1 \in 1 .. 2 * n /\ 2 * j \in 1 .. 2 * n
        /\ (2 * j - 1) % 2 = 1 /\ (2 * j - 1 + 1) \div 2 = j /\ (2 * j) % 2 # 1 /\ (2 * j) \div 2 = j
    BY <1>1
  <2> QED
    BY <2>1
<1> HIDE DEF Body
<1>4. body \in Seq(Cell) /\ Len(body) = 2 * n
  <2>1. body \in [1 .. 2 * n -> Cell] /\ 2 * n \in Nat
    BY <1>1, <1>2
  <2> QED
    BY ONLY <2>1, FunctionIsSeq
<1>5. \A i \in 1 .. 2 * n : body[i] = Body(i)
  OBVIOUS
<1>6. Header_write_to(fields) = IntCell(2 * n) \o body
  BY DEF Header_write_to, Body
<1> HIDE DEF body
<1>7. PICK h : h = IntCell(2 * n)
  OBVIOUS
<1>8. h \in Seq(Cell) /\ Len(h) = 1 /\ h[1] = [int |-> 2 * n]
  <2>1. [int |-> 2 * n] \in Cell
    BY <1>1, CellKinds
  <2> QED
    BY <1>7, <2>1, OneCell DEF IntCell
<1>9. PICK cells : cells = h \o body
  OBVIOUS
<1>10. /\ cells \in Seq(Cell) /\ Len(cells) = 1 + 2 * n /\ cells[1] = [int |-> 2 * n]
       /\ \A i \in 1 .. 2 * n : cells[1 + i] = body[i]
  <2>1. /\ h \o body \in Seq(Cell) /\ Len(h \o body) = Len(h) + Len(body)
        /\ \A i \in 1 .. Len(h) : (h \o body)[i] = h[i]
        /\ \A i \in 1 .. Len(body) : (h \o body)[Len(h) + i] = body[i]
    <3>1. h \in Seq(Cell) /\ body \in Seq(Cell)
      BY <1>4, <1>8
    <3> QED
      BY ONLY <3>1, ConcatFacts
  <2>2. Len(h) = 1 /\ Len(body) = 2 * n /\ h[1] = [int |-> 2 * n] /\ cells = h \o body /\ 1 \in 1 .. 1
    BY ONLY <1>4, <1>8, <1>9
  <2> QED
    BY ONLY <2>1, <2>2
<1>11. ASSUME NEW j \in 1 .. n
       PROVE  cells[2 * j] = [int |-> fields[j][1]] /\ cells[2 * j + 1] = [int |-> fields[j][2]]
  <2>1. 1 + (2 * j - 1) = 2 * j /\ 1 + 2 * j = 2 * j + 1
    BY <1>1
  <2>2. cells[1 + (2 * j - 1)] = Body(2 * j - 1) /\ cells[1 + 2 * j] = Body(2 * j)
    BY <1>3, <1>5, <1>10
  <2> QED
    BY <1>3, <2>1, <2>2
<1>12. ASSUME NEW j \in 1 .. 2 * n PROVE \E k \in Int : cells[j + 1] = [int |-> k]
  <2>1. j + 1 = 1 + j
    BY <1>1
  <2>2. cells[1 + j] = Body(j)
    BY <1>5, <1>10
  <2>3. PICK k \in Int : Body(j) = [int |-> k]
    BY <1>2
  <2> QED
    BY <2>1, <2>2, <2>3
<1> QED
  BY <1>1, <1>6, <1>7, <1>9, <1>10, <1>11, <1>12

\* Header_parse gives back what Header_write_to wrote, if the fields are ones
\* that it accepts.
LEMMA HeaderReadBack ==
    ASSUME NEW fields \in Seq(Int \X Int), NEW disk \in Seq(Cell), NEW at \in Nat,
           \A i \in 1 .. Len(fields) : ValidField(fields[i]),
           HasAt(disk, at, Header_write_to(fields))
    PROVE  Header_parse(disk, at) = Value(fields, at + Len(Header_write_to(fields)))
<1>1. PICK cells : cells = Header_write_to(fields)
  OBVIOUS
<1>2. PICK n : n = Len(fields)
  OBVIOUS
<1>3. /\ cells \in Seq(Cell) /\ n \in Nat /\ Len(cells) = 1 + 2 * n
      /\ cells[1] = [int |-> 2 * n]
      /\ \A j \in 1 .. n : /\ cells[2 * j] = [int |-> fields[j][1]]
                           /\ cells[2 * j + 1] = [int |-> fields[j][2]]
      /\ \A j \in 1 .. 2 * n : \E k \in Int : cells[j + 1] = [int |-> k]
  BY <1>1, <1>2, HeaderCells
<1>4. \A j \in 1 .. n : fields[j] \in Int \X Int
  BY <1>2
<1>5. Len(disk) \in Nat /\ at + Len(cells) - 1 <= Len(disk)
      /\ \A i \in 1 .. Len(cells) : disk[at + i - 1] = cells[i]
  BY <1>1 DEF HasAt
<1>6. disk[at] = [int |-> 2 * n] /\ at <= Len(disk) /\ at + 2 * n <= Len(disk)
  <2>1. 1 \in 1 .. Len(cells) /\ at + 1 - 1 = at
    BY <1>3
  <2>2. at <= Len(disk) /\ at + 2 * n <= Len(disk)
    BY <1>3, <1>5
  <2> QED
    BY <1>3, <1>5, <2>1, <2>2
<1>7. ASSUME NEW j \in 1 .. 2 * n
      PROVE  disk[at + 1 + j - 1] = cells[j + 1] /\ at + 1 + j - 1 = at + j
  <2>1. j + 1 \in 1 .. Len(cells) /\ at + (j + 1) - 1 = at + 1 + j - 1 /\ at + 1 + j - 1 = at + j
    BY <1>3
  <2> QED
    BY <1>5, <2>1
<1>8. disk[at].int = 2 * n
  BY <1>6
<1>9. CanRead(disk, at, <<"int">>)
  <2>1. Len(<<"int">>) = 1 /\ <<"int">>[1] = "int" /\ at + 1 - 1 = at
    OBVIOUS
  <2>2. "int" \in DOMAIN disk[at]
    BY <1>3, <1>6, CellKinds
  <2> QED
    BY <1>6, <2>1, <2>2 DEF CanRead
<1>10. CanRead(disk, at + 1, [i \in 1 .. 2 * n |-> "int"])
  <2>1. Len([i \in 1 .. 2 * n |-> "int"]) = 2 * n
    <3>1. "int" \in {"int"} /\ 2 * n \in Nat
      BY <1>3
    <3> QED
      BY ONLY <3>1, SameSeq
  <2>2. ASSUME NEW i \in 1 .. 2 * n PROVE "int" \in DOMAIN disk[at + 1 + i - 1]
    <3>1. PICK k \in Int : cells[i + 1] = [int |-> k]
      BY <1>3
    <3> QED
      BY <1>7, <3>1, CellKinds
  <2>3. at + 1 + 2 * n - 1 <= Len(disk)
    BY <1>3, <1>6
  <2> QED
    BY <2>1, <2>2, <2>3 DEF CanRead
<1>11. PICK read : read = [i \in 1 .. (2 * n) \div 2 |-> <<disk[at + 2 * i - 1].int, disk[at + 2 * i].int>>]
  OBVIOUS
<1>12. read = fields
  <2>1. (2 * n) \div 2 = n
    BY <1>3
  <2>2. ASSUME NEW i \in 1 .. n
        PROVE  <<disk[at + 2 * i - 1].int, disk[at + 2 * i].int>> = fields[i]
    <3>1. 2 * i - 1 \in 1 .. 2 * n /\ 2 * i \in 1 .. 2 * n /\ at + (2 * i - 1) = at + 2 * i - 1 /\ 2 * i - 1 + 1 = 2 * i
      BY <1>3
    <3>2. disk[at + 2 * i - 1] = cells[2 * i] /\ disk[at + 2 * i] = cells[2 * i + 1]
      BY <1>7, <3>1
    <3>3. disk[at + 2 * i - 1].int = fields[i][1] /\ disk[at + 2 * i].int = fields[i][2]
      <4>1. disk[at + 2 * i - 1] = [int |-> fields[i][1]] /\ disk[at + 2 * i] = [int |-> fields[i][2]]
        BY <1>3, <3>2
      <4> QED
        BY ONLY <4>1
    <3>4. fields[i] = <<fields[i][1], fields[i][2]>>
      BY <1>4
    <3> QED
      BY <3>3, <3>4
  <2>3. read = [i \in 1 .. n |-> fields[i]]
    BY <1>11, <2>1, <2>2
  <2> QED
    BY <1>2, <2>3, SeqIsFunction
<1>13. (2 * n) % 2 = 0 /\ \A i \in DOMAIN read : ValidField(read[i])
  <2>1. DOMAIN read = 1 .. Len(fields)
    BY <1>12
  <2> QED
    BY <1>3, <1>12, <2>1
<1>14. Header_parse(disk, at) = Value(read, at + 1 + 2 * n)
  <2>1. ~ (2 * n < 0)
    BY <1>3
  <2> QED
    BY <1>8, <1>9, <1>10, <1>11, <1>13, <2>1 DEF Header_parse
<1>15. at + 1 + 2 * n = at + Len(cells)
  BY <1>3
<1> QED
  BY <1>1, <1>12, <1>14, <1>15

\* Header_parse fails on a header that was cut off.
LEMMA HeaderCutOff ==
    ASSUME NEW fields \in Seq(Int \X Int), NEW disk \in Seq(Cell), NEW at \in Nat,
           StopsIn(disk, at, Header_write_to(fields))
    PROVE  Header_parse(disk, at) = Error
<1>1. PICK cells : cells = Header_write_to(fields)
  OBVIOUS
<1>2. PICK n : n = Len(fields)
  OBVIOUS
<1>3. /\ cells \in Seq(Cell) /\ n \in Nat /\ Len(cells) = 1 + 2 * n
      /\ cells[1] = [int |-> 2 * n]
  BY <1>1, <1>2, HeaderCells
<1>4. PICK k \in 0 .. Len(cells) - 1 :
        /\ \A i \in 1 .. k : disk[at + i - 1] = cells[i]
        /\ at + k - 1 <= Len(disk)
        /\ at + k <= Len(disk) => disk[at + k] = [part |-> 0]
  BY <1>1 DEF StopsIn
<1>5. CASE k = 0
  <2>1. <<"int">> \in Seq({"int", "str", "data"}) /\ 1 \in 1 .. Len(<<"int">>) /\ at + 1 - 1 = at + k
    BY <1>5
  <2>2. ~ CanRead(disk, at, <<"int">>)
    BY <1>4, <2>1, CannotRead
  <2> QED
    BY <2>2 DEF Header_parse
<1>6. CASE k # 0
  <2>1. 1 \in 1 .. k /\ at + 1 - 1 = at /\ k \in 1 .. 2 * n /\ at + 1 + k - 1 = at + k
    BY <1>3, <1>4, <1>6
  <2>2. disk[at].int = 2 * n
    BY <1>3, <1>4, <2>1
  <2>3. /\ [i \in 1 .. 2 * n |-> "int"] \in Seq({"int", "str", "data"})
        /\ Len([i \in 1 .. 2 * n |-> "int"]) = 2 * n
    <3>1. "int" \in {"int", "str", "data"} /\ 2 * n \in Nat
      BY <1>3
    <3> QED
      BY ONLY <3>1, SameSeq
  <2>4. PICK kinds : kinds = [i \in 1 .. 2 * n |-> "int"]
    OBVIOUS
  <2>5. /\ kinds \in Seq({"int", "str", "data"}) /\ k \in 1 .. Len(kinds) /\ at + 1 \in Nat
        /\ at + 1 + k - 1 <= Len(disk) => disk[at + 1 + k - 1] = [part |-> 0]
    <3>1. kinds \in Seq({"int", "str", "data"}) /\ Len(kinds) = 2 * n
      BY <2>3, <2>4
    <3> QED
      BY <1>4, <2>1, <3>1
  <2>6. ~ CanRead(disk, at + 1, kinds)
    BY <2>5, CannotRead
  <2> QED
    BY <2>2, <2>4, <2>6 DEF Header_parse
<1> QED
  BY <1>5, <1>6

-----------------------------------------------------------------------------
(* What readers return.                                                     *)

\* What a cell of some kind holds.
LEMMA CellTypes ==
    ASSUME NEW x \in Cell
    PROVE  /\ "int" \in DOMAIN x => x.int \in Int
           /\ "str" \in DOMAIN x => x.str \in Text
           /\ "data" \in DOMAIN x => x.data \in Int
  BY DEF Cell

\* What can be read has the type of its kind.
LEMMA ReadTypes ==
    ASSUME NEW disk \in Seq(Cell), NEW at \in Nat \ {0}, NEW kinds \in Seq({"int", "str", "data"}),
           CanRead(disk, at, kinds), NEW i \in 1 .. Len(kinds)
    PROVE  /\ kinds[i] = "int" => disk[at + i - 1].int \in Int
           /\ kinds[i] = "str" => disk[at + i - 1].str \in Text
           /\ kinds[i] = "data" => disk[at + i - 1].data \in Int
<1>1. Len(kinds) \in Nat /\ Len(disk) \in Nat
  OBVIOUS
<1>2. at + i - 1 \in 1 .. Len(disk) /\ kinds[i] \in DOMAIN disk[at + i - 1]
  BY <1>1 DEF CanRead
<1>3. disk[at + i - 1] \in Cell
  BY <1>2
<1> QED
  BY <1>2, <1>3, CellTypes

\* What a read may give: an error, or a value of some kind and the next place.
Reads(r, S) == r = Error \/ \E v \in S, m \in Nat \ {0} : r = Value(v, m)

\* A successful reader returns a value of its type and a place.
LEMMA ReadsOk ==
    ASSUME NEW S, NEW r, Reads(r, S), r.ok
    PROVE  r.value \in S /\ r.next \in Nat \ {0}
<1>1. r # Error
  BY DEF Error
<1>2. PICK v \in S, m \in Nat \ {0} : r = Value(v, m)
  BY <1>1 DEF Reads
<1>3. r.value = v /\ r.next = m
  BY <1>2 DEF Value
<1> QED
  BY <1>2, <1>3

StoredPrincipals(version) == {p \in Principals : Stored(version, p) = p}

\* Principal_parse returns principals, without name types in version 1.
LEMMA PrincipalTyped ==
    ASSUME NEW disk \in Seq(Cell), NEW at \in Nat \ {0}, NEW version \in 1 .. 4
    PROVE  Reads(Principal_parse(disk, at, version), StoredPrincipals(version))
<1> DEFINE head == IF version = 1 THEN <<"int">> ELSE <<"int", "int">>
           first == IF version = 1 THEN at ELSE at + 1
           count == disk[first].int - (IF version = 1 THEN 1 ELSE 0)
           rest == [i \in 1 .. count + 1 |-> "str"]
           type == IF version = 1 THEN 0 ELSE disk[at].int
           names == [i \in 1 .. count |-> disk[first + 1 + i].str]
<1>1. CASE ~ CanRead(disk, at, head) \/ count < 0 \/ ~ CanRead(disk, first + 1, rest)
  <2>1. Principal_parse(disk, at, version) = Error
    BY <1>1 DEF Principal_parse
  <2> QED
    BY <2>1 DEF Reads
<1>2. CASE CanRead(disk, at, head) /\ ~ (count < 0) /\ CanRead(disk, first + 1, rest)
  <2>1. /\ disk[first].int \in Int /\ (version # 1 => disk[at].int \in Int)
        /\ first \in Nat \ {0} /\ first + 1 \in Nat \ {0}
    <3>1. CASE version = 1
      <4>1. <<"int">> \in Seq({"int", "str", "data"}) /\ 1 \in 1 .. Len(<<"int">>) /\ <<"int">>[1] = "int"
            /\ CanRead(disk, at, <<"int">>) /\ at + 1 - 1 = at
        BY <1>2, <3>1
      <4>2. disk[at].int \in Int
        BY <4>1, ReadTypes
      <4> QED
        BY <3>1, <4>2
    <3>2. CASE version # 1
      <4>1. /\ <<"int", "int">> \in Seq({"int", "str", "data"})
            /\ 1 \in 1 .. Len(<<"int", "int">>) /\ 2 \in 1 .. Len(<<"int", "int">>)
            /\ <<"int", "int">>[1] = "int" /\ <<"int", "int">>[2] = "int"
            /\ CanRead(disk, at, <<"int", "int">>) /\ at + 1 - 1 = at /\ at + 2 - 1 = at + 1
        BY <1>2, <3>2
      <4>2. disk[at].int \in Int
        BY <4>1, ReadTypes
      <4>3. disk[at + 1].int \in Int
        BY <4>1, ReadTypes
      <4> QED
        BY <3>2, <4>2, <4>3
    <3> QED
      BY <3>1, <3>2
  <2>2. count \in Nat
    BY <1>2, <2>1
  <2> HIDE DEF count, first
  <2>3. /\ rest \in Seq({"int", "str", "data"}) /\ Len(rest) = count + 1
        /\ \A i \in 1 .. count + 1 : rest[i] = "str"
    <3>1. "str" \in {"int", "str", "data"} /\ count + 1 \in Nat
      BY <2>2
    <3>2. rest \in Seq({"int", "str", "data"}) /\ Len(rest) = count + 1
      BY ONLY <3>1, SameSeq
    <3> QED
      BY <3>2
  <2> HIDE DEF rest
  <2>4. ASSUME NEW i \in 1 .. count + 1 PROVE disk[first + 1 + i - 1].str \in Text
    BY <1>2, <2>1, <2>3, ReadTypes
  <2>5. disk[first + 1].str \in Text
    <3>1. 1 \in 1 .. count + 1 /\ first + 1 + 1 - 1 = first + 1
      BY <2>1, <2>2
    <3> QED
      BY <2>4, <3>1
  <2>6. names \in Seq(Text)
    <3>1. ASSUME NEW i \in 1 .. count PROVE disk[first + 1 + i].str \in Text
      <4>1. i + 1 \in 1 .. count + 1 /\ first + 1 + (i + 1) - 1 = first + 1 + i
        BY <2>1, <2>2
      <4> QED
        BY <2>4, <4>1
    <3>2. names \in [1 .. count -> Text]
      BY <3>1
    <3> QED
      BY ONLY <2>2, <3>2, FunctionIsSeq
  <2>7. type \in Int
    BY <2>1
  <2>8. PICK p : p = [realm |-> disk[first + 1].str, type |-> type, names |-> names]
    OBVIOUS
  <2>9. p \in Principals
    BY <2>5, <2>6, <2>7, <2>8 DEF Principals
  <2>10. p.type = type
    BY <2>8
  <2>11. Stored(version, p) = p
    <3>1. CASE version = 1
      <4>1. [p EXCEPT !.type = 0] = p
        BY <2>9, <2>10, <3>1 DEF Principals
      <4> QED
        BY <3>1, <4>1 DEF Stored
    <3>2. CASE version # 1
      BY <3>2 DEF Stored
    <3> QED
      BY <3>1, <3>2
  <2>12. Principal_parse(disk, at, version) = Value(p, first + 2 + count)
    BY <1>2, <2>8 DEF Principal_parse, count, first, rest
  <2>13. first + 2 + count \in Nat \ {0}
    BY <2>1, <2>2
  <2> QED
    BY <2>9, <2>11, <2>12, <2>13 DEF Reads, StoredPrincipals
<1> QED
  BY <1>1, <1>2

\* read_pairs returns pairs.
LEMMA PairsTyped ==
    ASSUME NEW disk \in Seq(Cell), NEW at \in Nat \ {0}
    PROVE  Reads(read_pairs(disk, at), Seq(Int \X Int))
<1> DEFINE count == disk[at].int
<1>1. CASE ~ CanRead(disk, at, <<"int">>) \/ count < 0 \/ ~ CanRead(disk, at + 1, PairKinds(count))
  <2>1. read_pairs(disk, at) = Error
    BY <1>1 DEF read_pairs, PairKinds
  <2> QED
    BY <2>1 DEF Reads
<1>2. CASE CanRead(disk, at, <<"int">>) /\ ~ (count < 0) /\ CanRead(disk, at + 1, PairKinds(count))
  <2>1. count \in Nat
    <3>1. <<"int">> \in Seq({"int", "str", "data"}) /\ 1 \in 1 .. Len(<<"int">>) /\ <<"int">>[1] = "int"
          /\ at + 1 - 1 = at
      OBVIOUS
    <3>2. disk[at].int \in Int
      BY <1>2, <3>1, ReadTypes
    <3> QED
      BY <1>2, <3>2
  <2> HIDE DEF count
  <2>2. /\ PairKinds(count) \in Seq({"int", "str", "data"}) /\ Len(PairKinds(count)) = 2 * count
        /\ \A i \in 1 .. 2 * count : PairKinds(count)[i] = IF i % 2 = 1 THEN "int" ELSE "data"
    BY <2>1, PairKindsFacts
  <2>3. ASSUME NEW i \in 1 .. count
        PROVE  <<disk[at + 2 * i - 1].int, disk[at + 2 * i].data>> \in Int \X Int
    <3>1. /\ 2 * i - 1 \in 1 .. 2 * count /\ 2 * i \in 1 .. 2 * count
          /\ (2 * i - 1) % 2 = 1 /\ (2 * i) % 2 # 1
          /\ at + 1 + (2 * i - 1) - 1 = at + 2 * i - 1 /\ at + 1 + 2 * i - 1 = at + 2 * i
          /\ at + 1 \in Nat \ {0}
      BY <2>1
    <3>2. PairKinds(count)[2 * i - 1] = "int" /\ PairKinds(count)[2 * i] = "data"
      BY <2>2, <3>1
    <3>3. 2 * i - 1 \in 1 .. Len(PairKinds(count)) /\ 2 * i \in 1 .. Len(PairKinds(count))
      BY <2>2, <3>1
    <3>4. disk[at + 1 + (2 * i - 1) - 1].int \in Int
      BY <1>2, <2>2, <3>1, <3>2, <3>3, ReadTypes
    <3>5. disk[at + 1 + 2 * i - 1].data \in Int
      BY <1>2, <2>2, <3>1, <3>2, <3>3, ReadTypes
    <3> QED
      BY <3>1, <3>4, <3>5
  <2>4. PICK pairs : pairs = [i \in 1 .. count |-> <<disk[at + 2 * i - 1].int, disk[at + 2 * i].data>>]
    OBVIOUS
  <2>5. pairs \in Seq(Int \X Int)
    <3>1. pairs \in [1 .. count -> Int \X Int]
      BY <2>3, <2>4
    <3> QED
      BY ONLY <2>1, <3>1, FunctionIsSeq
  <2>6. read_pairs(disk, at) = Value(pairs, at + 1 + 2 * count)
    BY <1>2, <2>4 DEF read_pairs, PairKinds, count
  <2>7. at + 1 + 2 * count \in Nat \ {0}
    BY <2>1
  <2> QED
    BY <2>5, <2>6, <2>7 DEF Reads
<1> QED
  BY <1>1, <1>2

\* Credentials as a cache of some version keeps them.
StoredCredentials(version) ==
    {c \in CredentialRecords : c.client \in StoredPrincipals(version) /\ c.server \in StoredPrincipals(version)}

\* Credential_parse returns credentials as the version stores them.
LEMMA CredentialTyped ==
    ASSUME NEW disk \in Seq(Cell), NEW at \in Nat \ {0}, NEW version \in 1 .. 4
    PROVE  Reads(Credential_parse(disk, at, version), StoredCredentials(version))
<1>1. PICK client : client = Principal_parse(disk, at, version)
  OBVIOUS
<1>2. PICK server : server = Principal_parse(disk, client.next, version)
  OBVIOUS
<1>3. PICK etype : etype = IF version = 3 THEN server.next + 1 ELSE server.next
  OBVIOUS
<1>4. PICK addresses : addresses = read_pairs(disk, etype + 8)
  OBVIOUS
<1>5. PICK auth_data : auth_data = read_pairs(disk, addresses.next)
  OBVIOUS
<1>6. PICK last : last = auth_data.next
  OBVIOUS
<1>7. CASE ~ (/\ client.ok /\ server.ok /\ CanRead(disk, etype, CredentialFields)
              /\ addresses.ok /\ auth_data.ok /\ CanRead(disk, last, <<"data", "data">>))
  <2>1. Credential_parse(disk, at, version) = Error
    BY <1>1, <1>2, <1>3, <1>4, <1>5, <1>6, <1>7, Zenon DEF Credential_parse
  <2> QED
    BY <2>1 DEF Reads
<1>8. CASE /\ client.ok /\ server.ok /\ CanRead(disk, etype, CredentialFields)
           /\ addresses.ok /\ auth_data.ok /\ CanRead(disk, last, <<"data", "data">>)
  <2>1. client.value \in StoredPrincipals(version) /\ client.next \in Nat \ {0}
    BY <1>1, <1>8, PrincipalTyped, ReadsOk
  <2>2. server.value \in StoredPrincipals(version) /\ server.next \in Nat \ {0}
    BY <1>2, <1>8, <2>1, PrincipalTyped, ReadsOk
  <2>3. etype \in Nat \ {0} /\ etype + 8 \in Nat \ {0}
    BY <1>3, <2>2
  <2>4. addresses.value \in Seq(Int \X Int) /\ addresses.next \in Nat \ {0}
    BY <1>4, <1>8, <2>3, PairsTyped, ReadsOk
  <2>5. auth_data.value \in Seq(Int \X Int) /\ last \in Nat \ {0}
    BY <1>5, <1>6, <1>8, <2>4, PairsTyped, ReadsOk
  <2>6. ASSUME NEW i \in 1 .. 8
        PROVE  /\ CredentialFields[i] = "int" => disk[etype + i - 1].int \in Int
               /\ CredentialFields[i] = "data" => disk[etype + i - 1].data \in Int
    BY <1>8, <2>3, FieldKindFacts, ReadTypes
  <2>7. /\ etype + 1 - 1 = etype /\ etype + 2 - 1 = etype + 1 /\ etype + 3 - 1 = etype + 1 + 1
        /\ etype + 4 - 1 = etype + 1 + 2 /\ etype + 5 - 1 = etype + 1 + 3 /\ etype + 6 - 1 = etype + 1 + 4
        /\ etype + 7 - 1 = etype + 6 /\ etype + 8 - 1 = etype + 7
        /\ 1 \in 1 .. 8 /\ 2 \in 1 .. 8 /\ 3 \in 1 .. 8 /\ 4 \in 1 .. 8
        /\ 5 \in 1 .. 8 /\ 6 \in 1 .. 8 /\ 7 \in 1 .. 8 /\ 8 \in 1 .. 8
    BY <2>3
  <2>8. /\ disk[etype].int \in Int /\ disk[etype + 1].data \in Int
        /\ disk[etype + 6].int \in Int /\ disk[etype + 7].data \in Int
    BY <2>6, <2>7, FieldKindFacts
  <2>9. [i \in 1 .. 4 |-> disk[etype + 1 + i].int] \in [1 .. 4 -> Int]
    <3>1. /\ disk[etype + 1 + 1].int \in Int /\ disk[etype + 1 + 2].int \in Int
          /\ disk[etype + 1 + 3].int \in Int /\ disk[etype + 1 + 4].int \in Int
      BY <2>6, <2>7, FieldKindFacts
    <3>2. \A i \in 1 .. 4 : i \in {1, 2, 3, 4}
      OBVIOUS
    <3> QED
      BY <3>1, <3>2
  <2>10. disk[last].data \in Int /\ disk[last + 1].data \in Int
    <3>1. /\ <<"data", "data">> \in Seq({"int", "str", "data"})
          /\ 1 \in 1 .. Len(<<"data", "data">>) /\ 2 \in 1 .. Len(<<"data", "data">>)
          /\ <<"data", "data">>[1] = "data" /\ <<"data", "data">>[2] = "data"
          /\ last + 1 - 1 = last /\ last + 2 - 1 = last + 1
      BY <2>5
    <3>2. disk[last].data \in Int
      BY <1>8, <2>5, <3>1, ReadTypes
    <3>3. disk[last + 1].data \in Int
      BY <1>8, <2>5, <3>1, ReadTypes
    <3> QED
      BY <3>2, <3>3
  <2>11. PICK times : times = [i \in 1 .. 4 |-> disk[etype + 1 + i].int]
    OBVIOUS
  <2>12. PICK c : c = [client |-> client.value, server |-> server.value,
                       etype |-> disk[etype].int, key |-> disk[etype + 1].data, times |-> times,
                       skey |-> disk[etype + 6].int, flags |-> disk[etype + 7].data,
                       addresses |-> addresses.value, auth_data |-> auth_data.value,
                       ticket |-> disk[last].data, second |-> disk[last + 1].data]
    OBVIOUS
  <2>13. client.value \in Principals /\ server.value \in Principals /\ times \in [1 .. 4 -> Int]
    BY <2>1, <2>2, <2>9, <2>11 DEF StoredPrincipals
  <2>14. c \in CredentialRecords
    BY <2>4, <2>5, <2>8, <2>10, <2>12, <2>13 DEF CredentialRecords
  <2>15. c.client = client.value /\ c.server = server.value
    BY <2>12
  <2>16. c \in StoredCredentials(version)
    BY <2>1, <2>2, <2>14, <2>15 DEF StoredCredentials
  <2>17. Credential_parse(disk, at, version) = Value(c, last + 2)
    <3>1. Credential_parse(disk, at, version)
            = Value([client |-> client.value, server |-> server.value,
                     etype |-> disk[etype].int, key |-> disk[etype + 1].data,
                     times |-> [i \in 1 .. 4 |-> disk[etype + 1 + i].int],
                     skey |-> disk[etype + 6].int, flags |-> disk[etype + 7].data,
                     addresses |-> addresses.value, auth_data |-> auth_data.value,
                     ticket |-> disk[last].data, second |-> disk[last + 1].data], last + 2)
      BY <1>1, <1>2, <1>3, <1>4, <1>5, <1>6, <1>8, SMT DEF Credential_parse
    <3> QED
      BY <2>11, <2>12, <3>1, Zenon
  <2>18. last + 2 \in Nat \ {0}
    BY <2>5
  <2> QED
    BY <2>16, <2>17, <2>18 DEF Reads
<1> QED
  BY <1>7, <1>8

ReadResults(S) == {Error} \cup {Value(v, m) : v \in S, m \in Nat \ {0}}

\* Results of readers as a set.
LEMMA ReadsResults ==
    ASSUME NEW S, NEW r
    PROVE  r \in ReadResults(S) <=> Reads(r, S)
  BY DEF ReadResults, Reads

\* Errors and values are results.
LEMMA ResultIn ==
    ASSUME NEW S
    PROVE  /\ Error \in ReadResults(S)
           /\ \A v \in S, m \in Nat \ {0} : Value(v, m) \in ReadResults(S)
<1>1. Reads(Error, S) /\ \A v \in S, m \in Nat \ {0} : Reads(Value(v, m), S)
  BY DEF Reads
<1> QED
  BY <1>1, ReadsResults

\* The fields of a result.
LEMMA OkResult ==
    ASSUME NEW v, NEW m
    PROVE  Value(v, m).ok /\ Value(v, m).value = v /\ Value(v, m).next = m /\ ~ Error.ok
  BY DEF Value, Error

\* A turn of the loop over credentials keeps the type of its result.
LEMMA ReadCredentialTyped ==
    ASSUME NEW disk \in Seq(Cell), NEW version \in 1 .. 4, NEW r \in ReadResults(Seq(StoredCredentials(version)))
    PROVE  ReadCredential(disk, version, r) \in ReadResults(Seq(StoredCredentials(version)))
<1>1. PICK V : V = ReadResults(Seq(StoredCredentials(version)))
  OBVIOUS
<1>2. PICK read : read = Credential_parse(disk, r.next, version)
  OBVIOUS
<1>3. CASE ~ r.ok \/ r.next > Len(disk)
  BY <1>3 DEF ReadCredential, WithCredential
<1>4. CASE r.ok /\ ~ (r.next > Len(disk)) /\ ~ read.ok
  <2>1. ReadCredential(disk, version, r) = Error
    BY <1>2, <1>4 DEF ReadCredential, WithCredential
  <2> QED
    BY <2>1, ResultIn
<1>5. CASE r.ok /\ ~ (r.next > Len(disk)) /\ read.ok
  <2>1. ReadCredential(disk, version, r) = Value(Append(r.value, read.value), read.next)
    BY <1>2, <1>5 DEF ReadCredential, WithCredential
  <2>2. r.value \in Seq(StoredCredentials(version)) /\ r.next \in Nat \ {0}
    BY <1>5, ReadsResults, ReadsOk
  <2>3. read.value \in StoredCredentials(version) /\ read.next \in Nat \ {0}
    BY <1>2, <1>5, <2>2, CredentialTyped, ReadsOk
  <2>4. Append(r.value, read.value) \in Seq(StoredCredentials(version))
    BY <2>2, <2>3
  <2> QED
    BY <2>1, <2>3, <2>4, ResultIn
<1> QED
  BY <1>3, <1>4, <1>5

\* The results of the first i turns of that loop: the recursion it goes
\* through.
LEMMA CredentialsReadFacts ==
    ASSUME NEW disk \in Seq(Cell), NEW first \in Nat \ {0}, NEW version \in 1 .. 4
    PROVE  /\ CredentialsRead(disk, first, version) \in [0 .. Len(disk) -> ReadResults(Seq(StoredCredentials(version)))]
           /\ CredentialsRead(disk, first, version)[0] = Value(<<>>, first)
           /\ \A i \in 1 .. Len(disk) : CredentialsRead(disk, first, version)[i]
                = ReadCredential(disk, version, CredentialsRead(disk, first, version)[i - 1])
<1> DEFINE Step(i, v) == ReadCredential(disk, version, v)
           Is(h, m) == h = [i \in 0 .. m |-> IF i = 0 THEN Value(<<>>, first) ELSE Step(i, h[i - 1])]
<1>1. PICK n, V, none : n = Len(disk) /\ V = ReadResults(Seq(StoredCredentials(version))) /\ none = Value(<<>>, first)
  OBVIOUS
<1>2. n \in Nat /\ none \in V
  <2>1. <<>> \in Seq(StoredCredentials(version)) /\ first \in Nat \ {0} /\ n \in Nat
    BY <1>1
  <2> QED
    BY <1>1, <2>1, ResultIn
<1>3. ASSUME NEW i \in 1 .. n, NEW v \in V PROVE Step(i, v) \in V
  BY <1>1, ReadCredentialTyped
<1> HIDE DEF Step
<1>4. PICK G : G = [i \in 1 .. n |-> [v \in V |-> Step(i, v)]]
  OBVIOUS
<1>5. G \in [1 .. n -> [V -> V]] /\ \A i \in 1 .. n, v \in V : G[i][v] = Step(i, v)
  BY <1>3, <1>4
<1>6. PICK f : f \in [0 .. n -> V] /\ Recursive(f, n, none, G)
  BY ONLY <1>2, <1>5, Recursion
<1>7. Is(f, n)
  <2>1. ASSUME NEW i \in 0 .. n PROVE f[i] = IF i = 0 THEN Value(<<>>, first) ELSE Step(i, f[i - 1])
    <3>1. i # 0 => i \in 1 .. n /\ i - 1 \in 0 .. n
      BY <1>2
    <3> QED
      BY <1>1, <1>5, <1>6, <3>1 DEF Recursive
  <2> QED
    BY <1>6, <2>1
<1>8. PICK g : g = CredentialsRead(disk, first, version)
  OBVIOUS
<1>9. g = CHOOSE h : Is(h, n)
  BY <1>1, <1>8 DEF CredentialsRead, Step
<1>10. Is(g, n)
  BY <1>7, <1>9, Zenon
<1>11. g[0] = none /\ g = [i \in 0 .. n |-> g[i]] /\ \A i \in 1 .. n : g[i] = Step(i, g[i - 1])
  <2>1. 0 \in 0 .. n /\ \A i \in 1 .. n : i \in 0 .. n /\ i # 0
    BY <1>2
  <2>2. \A i \in 0 .. n : g[i] = IF i = 0 THEN Value(<<>>, first) ELSE Step(i, g[i - 1])
    BY <1>10
  <2>3. g = [i \in 0 .. n |-> g[i]]
    BY <1>10, <2>2
  <2> QED
    BY <1>1, <2>1, <2>2, <2>3
<1>12. g[0] \in V /\ \A i \in 1 .. n : g[i - 1] \in V => g[i] = G[i][g[i - 1]]
  BY <1>2, <1>5, <1>11
<1>13. g \in [0 .. n -> V]
  BY ONLY <1>2, <1>5, <1>11, <1>12, RecursionTyped
<1> QED
  BY <1>1, <1>8, <1>11, <1>13 DEF Step

\* The length of what is written.
LEMMA CredentialNotEmpty ==
    ASSUME NEW c \in CredentialRecords, NEW version \in 1 .. 4
    PROVE  Len(Credential_write_to(c, version)) \in Nat \ {0}
<1>1. <<>> \in Seq(Cell) /\ 1 \in Nat
  OBVIOUS
<1>2. PICK disk, at : disk \in Seq(Cell) /\ at \in Nat
  BY <1>1
<1>3. PICK p, q, r, s, t, u : Layout(disk, at, c, version, p, q, r, s, t, u)
  BY <1>2, CredentialLayout
<1>4. /\ Len(Principal_write_to(c.client, version)) \in Nat /\ Len(Principal_write_to(c.server, version)) \in Nat
      /\ Len(write_pairs(c.addresses)) \in Nat /\ Len(write_pairs(c.auth_data)) \in Nat
  BY CredentialTypes, PrincipalCells, PairCells
<1>5. Len(Credential_write_to(c, version)) \in Nat
  BY CredentialIsCells
<1>6. /\ p = at + Len(Principal_write_to(c.client, version)) /\ q = p + Len(Principal_write_to(c.server, version))
      /\ (r = IF version = 3 THEN q + 1 ELSE q) /\ s = r + 8
      /\ t = s + Len(write_pairs(c.addresses)) /\ u = t + Len(write_pairs(c.auth_data))
      /\ at + Len(Credential_write_to(c, version)) = u + 2
  BY <1>3 DEF Layout
<1>7. PICK a, b, d, e, l :
         /\ a = Len(Principal_write_to(c.client, version)) /\ b = Len(Principal_write_to(c.server, version))
         /\ d = Len(write_pairs(c.addresses)) /\ e = Len(write_pairs(c.auth_data))
         /\ l = Len(Credential_write_to(c, version))
  OBVIOUS
<1>8. /\ a \in Nat /\ b \in Nat /\ d \in Nat /\ e \in Nat /\ l \in Nat /\ at \in Nat
      /\ p = at + a /\ q = p + b /\ r \in {q, q + 1} /\ s = r + 8 /\ t = s + d /\ u = t + e /\ at + l = u + 2
  BY <1>2, <1>4, <1>5, <1>6, <1>7
<1>9. l \in Nat \ {0}
  BY ONLY <1>8
<1> QED
  BY <1>7, <1>9

-----------------------------------------------------------------------------
(* Lists of credentials read back.                                          *)

\* The cells of a list of credentials.
IsCells(CC, list, version, n) ==
    /\ n \in Nat /\ CC \in [0 .. n -> Seq(Cell)] /\ CC[0] = <<>>
    /\ \A i \in 1 .. n :
          /\ i \in 0 .. n /\ i - 1 \in 0 .. n /\ list[i] \in CredentialRecords
          /\ CC[i - 1] \in Seq(Cell) /\ Credential_write_to(list[i], version) \in Seq(Cell)
          /\ Len(Credential_write_to(list[i], version)) \in Nat \ {0}
          /\ CC[i] = CC[i - 1] \o Credential_write_to(list[i], version)
          /\ Len(CC[i]) = Len(CC[i - 1]) + Len(Credential_write_to(list[i], version))

\* The cells of a list, as facts about each prefix.
LEMMA CellsOfList ==
    ASSUME NEW list \in Seq(CredentialRecords), NEW version \in 1 .. 4
    PROVE  IsCells(CredentialCells(list, version), list, version, Len(list))
<1>1. PICK CC, n : CC = CredentialCells(list, version) /\ n = Len(list)
  OBVIOUS
<1>2. CC \in [0 .. n -> Seq(Cell)]
  BY <1>1, CredentialCellsFacts
<1>3. CC[0] = <<>>
  BY <1>1, CredentialCellsFacts
<1>4. \A i \in 1 .. n : CC[i] = CC[i - 1] \o Credential_write_to(list[i], version)
  BY <1>1, CredentialCellsFacts
<1>5. n \in Nat
  BY <1>1
<1>6. ASSUME NEW i \in 1 .. n
      PROVE  /\ i \in 0 .. n /\ i - 1 \in 0 .. n /\ list[i] \in CredentialRecords
             /\ CC[i - 1] \in Seq(Cell) /\ Credential_write_to(list[i], version) \in Seq(Cell)
             /\ Len(Credential_write_to(list[i], version)) \in Nat \ {0}
             /\ CC[i] = CC[i - 1] \o Credential_write_to(list[i], version)
             /\ Len(CC[i]) = Len(CC[i - 1]) + Len(Credential_write_to(list[i], version))
  <2>1. i \in 0 .. n /\ i - 1 \in 0 .. n
    BY <1>5
  <2>2. list[i] \in CredentialRecords
    BY <1>1
  <2>3. CC[i - 1] \in Seq(Cell)
    BY <1>2, <2>1
  <2>4. PICK w : w = Credential_write_to(list[i], version)
    OBVIOUS
  <2>5. w \in Seq(Cell) /\ Len(w) \in Nat \ {0}
    BY <2>2, <2>4, CredentialIsCells, CredentialNotEmpty
  <2>6. CC[i] = CC[i - 1] \o w
    BY <1>4, <2>4
  <2>7. Len(CC[i]) = Len(CC[i - 1]) + Len(w)
    BY <2>3, <2>5, <2>6
  <2> QED
    BY <2>1, <2>2, <2>3, <2>4, <2>5, <2>6, <2>7
<1> QED
  BY <1>1, <1>2, <1>3, <1>5, <1>6 DEF IsCells

\* A list with one more.
LEMMA AppendIs ==
    ASSUME NEW S, NEW l \in Seq(S), NEW x \in S, NEW i \in Nat, Len(l) = i - 1
    PROVE  Append(l, x) = [j \in 1 .. i |-> IF j = i THEN x ELSE l[j]]
<1>1. PICK m : m = Append(l, x)
  OBVIOUS
<1>2. m \in Seq(S) /\ Len(m) = i
  BY <1>1
<1>3. ASSUME NEW j \in 1 .. i PROVE m[j] = IF j = i THEN x ELSE l[j]
  BY <1>1
<1>4. m = [j \in 1 .. i |-> m[j]]
  BY <1>2, SeqIsFunction
<1> QED
  BY <1>1, <1>3, <1>4

\* A file that has the cells of a list has those of its prefixes.
LEMMA CellsHave ==
    ASSUME NEW list \in Seq(CredentialRecords), NEW version \in 1 .. 4, NEW disk \in Seq(Cell), NEW at \in Nat,
           NEW m \in 0 .. Len(list), HasAt(disk, at, CredentialCells(list, version)[m]), NEW j \in 0 .. m
    PROVE  HasAt(disk, at, CredentialCells(list, version)[j])
<1>1. PICK CC, n : CC = CredentialCells(list, version) /\ n = Len(list)
  OBVIOUS
<1>2. n \in Nat /\ m \in 0 .. n /\ HasAt(disk, at, CC[m])
  BY <1>1
<1>0. IsCells(CC, list, version, n)
  BY <1>1, CellsOfList
<1> DEFINE S == {i \in 0 .. m : HasAt(disk, at, CC[m - i])}
<1>3. 0 \in S
  BY <1>2
<1>4. ASSUME NEW i \in 1 .. m, i - 1 \in S PROVE i \in S
  <2>1. m - (i - 1) \in 1 .. n /\ m - (i - 1) - 1 = m - i /\ m - i \in 0 .. n /\ i \in 0 .. m
    BY <1>2
  <2>2. CC[m - (i - 1)] = CC[m - i] \o Credential_write_to(list[m - (i - 1)], version)
    BY <1>0, <2>1 DEF IsCells
  <2>3. HasAt(disk, at, CC[m - (i - 1)])
    BY <1>4
  <2>4. CC[m - i] \in Seq(Cell) /\ Credential_write_to(list[m - (i - 1)], version) \in Seq(Cell)
    BY <1>0, <2>1 DEF IsCells
  <2>5. HasAt(disk, at, CC[m - i])
    BY <2>2, <2>3, <2>4, HasAtConcat
  <2> QED
    BY <2>1, <2>5
<1>5. m \in Nat /\ m - j \in 0 .. m /\ m - (m - j) = j
  BY <1>2
<1>6. \A i \in 0 .. m : i \in S
  <2> HIDE DEF S
  <2> QED
    BY <1>3, <1>4, <1>5, Induct
<1> QED
  BY <1>1, <1>5, <1>6

\* Where a list is cut off, some prefix is whole and the next credential is cut
\* off.
LEMMA CellsStop ==
    ASSUME NEW list \in Seq(CredentialRecords), NEW version \in 1 .. 4, NEW disk \in Seq(Cell), NEW at \in Nat,
           StopsIn(disk, at, CredentialCells(list, version)[Len(list)])
    PROVE  \E k \in 0 .. Len(list) - 1 :
              /\ HasAt(disk, at, CredentialCells(list, version)[k])
              /\ StopsIn(disk, at + Len(CredentialCells(list, version)[k]),
                         Credential_write_to(list[k + 1], version))
<1>1. PICK CC, n : CC = CredentialCells(list, version) /\ n = Len(list)
  OBVIOUS
<1>2. IsCells(CC, list, version, n) /\ n \in Nat
  BY <1>1, CellsOfList DEF IsCells
<1> DEFINE Cut(i) == \E k \in 0 .. i - 1 :
                        /\ HasAt(disk, at, CC[k])
                        /\ StopsIn(disk, at + Len(CC[k]), Credential_write_to(list[k + 1], version))
           S == {i \in 0 .. n : StopsIn(disk, at, CC[i]) => Cut(i)}
<1>3. 0 \in S
  <2>1. ~ StopsIn(disk, at, <<>>)
    BY DEF StopsIn
  <2>2. CC[0] = <<>>
    BY <1>2 DEF IsCells
  <2> QED
    BY <1>2, <2>1, <2>2
<1>4. ASSUME NEW i \in 1 .. n, i - 1 \in S PROVE i \in S
  <2> HIDE DEF Cut
  <2>0. i \in 0 .. n
    BY <1>2
  <2>1. SUFFICES ASSUME StopsIn(disk, at, CC[i]) PROVE Cut(i)
    BY <2>0
  <2> USE DEF Cut
  <2>2. i - 1 \in 0 .. n /\ i - 1 + 1 = i /\ i - 1 \in 0 .. i - 1
    BY <1>2
  <2>3. /\ CC[i - 1] \in Seq(Cell) /\ Credential_write_to(list[i], version) \in Seq(Cell)
        /\ CC[i] = CC[i - 1] \o Credential_write_to(list[i], version)
    BY <1>2 DEF IsCells
  <2>4. StopsIn(disk, at, CC[i - 1] \o Credential_write_to(list[i], version))
    BY <2>1, <2>3
  <2>5. \/ StopsIn(disk, at, CC[i - 1])
        \/ /\ HasAt(disk, at, CC[i - 1])
           /\ StopsIn(disk, at + Len(CC[i - 1]), Credential_write_to(list[i], version))
    BY <2>3, <2>4, StopsInConcat
  <2>6. CASE StopsIn(disk, at, CC[i - 1])
    <3>1. Cut(i - 1)
      BY <1>4, <2>6
    <3>2. \A k \in 0 .. i - 1 - 1 : k \in 0 .. i - 1
      BY <1>2
    <3> QED
      BY <3>1, <3>2
  <2>7. CASE /\ HasAt(disk, at, CC[i - 1])
             /\ StopsIn(disk, at + Len(CC[i - 1]), Credential_write_to(list[i], version))
    BY <2>2, <2>7
  <2> QED
    BY <2>5, <2>6, <2>7
<1>5. \A i \in 0 .. n : i \in S
  <2> HIDE DEF S
  <2> QED
    BY <1>2, <1>3, <1>4, Induct
<1>6. n \in S
  BY <1>2, <1>5
<1> QED
  BY <1>1, <1>6

\* Every credential takes a cell at least, so the loop has turns enough.
LEMMA CellsLong ==
    ASSUME NEW list \in Seq(CredentialRecords), NEW version \in 1 .. 4, NEW j \in 0 .. Len(list)
    PROVE  Len(CredentialCells(list, version)[j]) \in Nat /\ Len(CredentialCells(list, version)[j]) >= j
<1>1. PICK CC, n : CC = CredentialCells(list, version) /\ n = Len(list)
  OBVIOUS
<1>2. IsCells(CC, list, version, n) /\ n \in Nat
  BY <1>1, CellsOfList DEF IsCells
<1> DEFINE S == {i \in 0 .. n : Len(CC[i]) \in Nat /\ Len(CC[i]) >= i}
<1>3. 0 \in S
  <2>1. CC[0] = <<>> /\ 0 \in 0 .. n
    BY <1>2 DEF IsCells
  <2>2. Len(CC[0]) = 0
    BY <2>1
  <2> QED
    BY <2>1, <2>2
<1>4. ASSUME NEW i \in 1 .. n, i - 1 \in S PROVE i \in S
  <2>1. PICK l : l = Len(Credential_write_to(list[i], version))
    OBVIOUS
  <2>2. i \in 0 .. n /\ l \in Nat \ {0} /\ Len(CC[i]) = Len(CC[i - 1]) + l
    BY <1>2, <2>1 DEF IsCells
  <2>3. Len(CC[i - 1]) \in Nat /\ Len(CC[i - 1]) >= i - 1
    BY <1>4
  <2> QED
    BY <2>2, <2>3
<1>5. \A i \in 0 .. n : i \in S
  <2> HIDE DEF S
  <2> QED
    BY <1>2, <1>3, <1>4, Induct
<1> QED
  BY <1>1, <1>5

\* The first k credentials as they are stored.
StoredList(version, list, k) == [i \in 1 .. k |-> StoredCredential(version, list[i])]

\* After k turns the first k credentials were read.
LEMMA ReadSoFar ==
    ASSUME NEW list \in Seq(CredentialRecords), NEW version \in 1 .. 4, NEW disk \in Seq(Cell),
           NEW at \in Nat \ {0}, NEW k \in 0 .. Len(list), HasAt(disk, at, CredentialCells(list, version)[k])
    PROVE  /\ k \in 0 .. Len(disk)
           /\ at + Len(CredentialCells(list, version)[k]) - 1 <= Len(disk)
           /\ CredentialsRead(disk, at, version)[k]
                = Value(StoredList(version, list, k), at + Len(CredentialCells(list, version)[k]))
<1>1. PICK CC, n, R : CC = CredentialCells(list, version) /\ n = Len(list) /\ R = CredentialsRead(disk, at, version)
  OBVIOUS
<1>2. n \in Nat /\ k \in 0 .. n /\ at \in Nat /\ Len(disk) \in Nat
  BY <1>1
<1>0. IsCells(CC, list, version, n)
  BY <1>1, CellsOfList
<1>3. R[0] = Value(<<>>, at) /\ \A i \in 1 .. Len(disk) : R[i] = ReadCredential(disk, version, R[i - 1])
  BY <1>1, CredentialsReadFacts
<1>4. \A j \in 0 .. k : HasAt(disk, at, CC[j])
  BY <1>1, <1>2, CellsHave
<1>5. \A j \in 0 .. k : Len(CC[j]) \in Nat /\ Len(CC[j]) >= j /\ at + Len(CC[j]) - 1 <= Len(disk) /\ j <= Len(disk)
  <2>1. ASSUME NEW j \in 0 .. k PROVE Len(CC[j]) \in Nat /\ Len(CC[j]) >= j /\ at + Len(CC[j]) - 1 <= Len(disk)
    <3>1. j \in 0 .. n
      BY <1>2
    <3> QED
      BY <1>1, <1>4, <3>1, CellsLong DEF HasAt
  <2>2. Len(disk) \in Nat
    OBVIOUS
  <2> QED
    BY <1>2, <2>1, <2>2
<1> DEFINE S == {i \in 0 .. k : R[i] = Value(StoredList(version, list, i), at + Len(CC[i]))}
<1>6. 0 \in S
  <2>1. StoredList(version, list, 0) = <<>>
    BY DEF StoredList
  <2>2. CC[0] = <<>>
    BY <1>0 DEF IsCells
  <2>3. at + Len(CC[0]) = at
    BY <1>2, <2>2
  <2> QED
    BY <1>2, <1>3, <2>1, <2>3
<1>7. ASSUME NEW i \in 1 .. k, i - 1 \in S PROVE i \in S
  <2>1. i - 1 \in 0 .. k /\ i \in 0 .. k /\ i \in 1 .. n /\ i \in 1 .. Len(disk) /\ i - 1 \in 0 .. n
    BY <1>2, <1>5
  <2>2. PICK w, next : w = Credential_write_to(list[i], version) /\ next = at + Len(CC[i - 1])
    OBVIOUS
  <2>3. list[i] \in CredentialRecords /\ w \in Seq(Cell) /\ Len(w) \in Nat \ {0} /\ CC[i - 1] \in Seq(Cell)
    BY <1>0, <2>1, <2>2 DEF IsCells
  <2>4. CC[i] = CC[i - 1] \o w /\ Len(CC[i]) = Len(CC[i - 1]) + Len(w)
    BY <1>0, <2>1, <2>2 DEF IsCells
  <2>5. HasAt(disk, next, w) /\ next \in Nat
    <3>1. HasAt(disk, at, CC[i - 1] \o w)
      BY <1>4, <2>1, <2>4
    <3>2. HasAt(disk, at + Len(CC[i - 1]), w)
      BY <1>2, <2>3, <3>1, HasAtConcat
    <3>3. Len(CC[i - 1]) \in Nat
      BY <1>5, <2>1
    <3> QED
      BY <1>2, <2>2, <3>2, <3>3
  <2>6. Credential_parse(disk, next, version) = Value(StoredCredential(version, list[i]), next + Len(w))
    BY <2>2, <2>3, <2>5, CredentialReadBack
  <2>7. R[i - 1] = Value(StoredList(version, list, i - 1), next)
    BY <1>7, <2>2
  <2>8. ~ (next > Len(disk))
    <3>1. Len(CC[i - 1]) \in Nat /\ at + (Len(CC[i - 1]) + Len(w)) - 1 <= Len(disk) /\ Len(disk) \in Nat
      <4>1. /\ \A j \in 0 .. k : Len(CC[j]) \in Nat /\ at + Len(CC[j]) - 1 <= Len(disk)
            /\ Len(disk) \in Nat
        BY <1>5
      <4>2. Len(CC[i - 1]) \in Nat /\ at + Len(CC[i]) - 1 <= Len(disk) /\ Len(disk) \in Nat
        BY ONLY <2>1, <4>1
      <4> QED
        BY ONLY <2>4, <4>2
    <3>2. PICK a, b, d : a = Len(CC[i - 1]) /\ b = Len(w) /\ d = Len(disk)
      OBVIOUS
    <3>3. a \in Nat /\ b \in Nat \ {0} /\ d \in Nat /\ at + (a + b) - 1 <= d /\ next = at + a /\ at \in Nat
      BY <1>2, <2>2, <2>3, <3>1, <3>2
    <3>4. ~ (next > d)
      BY ONLY <3>3
    <3> QED
      BY <3>2, <3>4
  <2>9. /\ R[i - 1].ok /\ R[i - 1].next = next /\ R[i - 1].value = StoredList(version, list, i - 1)
    BY <2>7, OkResult
  <2>10. PICK read : read = Credential_parse(disk, next, version)
    OBVIOUS
  <2>11. read.ok /\ read.value = StoredCredential(version, list[i]) /\ read.next = next + Len(w)
    BY <2>6, <2>10, OkResult
  <2>12. ReadCredential(disk, version, R[i - 1])
           = Value(Append(StoredList(version, list, i - 1), StoredCredential(version, list[i])), next + Len(w))
    BY <2>8, <2>9, <2>10, <2>11 DEF ReadCredential, WithCredential
  <2>13. Append(StoredList(version, list, i - 1), StoredCredential(version, list[i])) = StoredList(version, list, i)
    <3>1. i - 1 \in Nat /\ i - 1 + 1 = i
      BY <1>2
    <3>2. PICK T : T = {StoredCredential(version, list[j]) : j \in 1 .. i}
      OBVIOUS
    <3>3. \A j \in 1 .. i - 1 : j \in 1 .. i
      BY <3>1
    <3>4. StoredList(version, list, i - 1) \in [1 .. i - 1 -> T]
      BY <3>2, <3>3 DEF StoredList
    <3>5. PICK l, x : l = StoredList(version, list, i - 1) /\ x = StoredCredential(version, list[i])
      OBVIOUS
    <3>6. l \in Seq(T) /\ Len(l) = i - 1 /\ \A j \in 1 .. i - 1 : l[j] = StoredCredential(version, list[j])
      BY <3>1, <3>4, <3>5, FunctionIsSeq DEF StoredList
    <3>7. Append(l, x) = [j \in 1 .. i |-> IF j = i THEN x ELSE l[j]]
      <4>1. x \in T
        <5>1. i \in 1 .. i
          BY <3>1
        <5> QED
          BY <3>2, <3>5, <5>1
      <4> QED
        BY <3>1, <3>6, <4>1, AppendIs
    <3>8. \A j \in 1 .. i : (IF j = i THEN x ELSE l[j]) = StoredCredential(version, list[j])
      BY <3>1, <3>5, <3>6
    <3>9. Append(l, x) = [j \in 1 .. i |-> StoredCredential(version, list[j])]
      BY <3>7, <3>8
    <3> QED
      BY <3>5, <3>9 DEF StoredList
  <2>14. next + Len(w) = at + Len(CC[i])
    <3>1. Len(CC[i - 1]) \in Nat
      BY <1>5, <2>1
    <3>2. PICK a, b, d : a = Len(CC[i - 1]) /\ b = Len(w) /\ d = Len(CC[i])
      OBVIOUS
    <3>3. a \in Nat /\ b \in Nat /\ d = a + b /\ next = at + a /\ at \in Nat
      BY <1>2, <2>2, <2>3, <2>4, <3>1, <3>2
    <3>4. next + b = at + d
      BY ONLY <3>3
    <3> QED
      BY <3>2, <3>4
  <2>15. R[i] = Value(StoredList(version, list, i), at + Len(CC[i]))
    BY <1>3, <2>1, <2>12, <2>13, <2>14
  <2> QED
    BY <2>1, <2>15
<1>8. \A i \in 0 .. k : i \in S
  <2>1. k \in Nat
    BY <1>2
  <2> HIDE DEF S
  <2> QED
    BY ONLY <1>6, <1>7, <2>1, Induct
<1>9. k \in 0 .. k /\ k \in 0 .. Len(disk)
  BY <1>2, <1>5
<1>10. k \in S /\ at + Len(CC[k]) - 1 <= Len(disk)
  BY <1>5, <1>8, <1>9
<1> QED
  BY <1>1, <1>9, <1>10

\* The loop ends with its result, at an error or at the end of the file.
LEMMA StaysRead ==
    ASSUME NEW disk \in Seq(Cell), NEW at \in Nat \ {0}, NEW version \in 1 .. 4, NEW k \in 0 .. Len(disk),
           NEW r, r = CredentialsRead(disk, at, version)[k], ~ r.ok \/ r.next > Len(disk)
    PROVE  Credentials_parse(disk, at, version) = r
<1>1. PICK R, n : R = CredentialsRead(disk, at, version) /\ n = Len(disk)
  OBVIOUS
<1>2. n \in Nat /\ \A i \in 1 .. n : R[i] = ReadCredential(disk, version, R[i - 1])
  BY <1>1, CredentialsReadFacts
<1>3. ReadCredential(disk, version, r) = r
  BY DEF ReadCredential, WithCredential
<1> DEFINE S == {i \in 0 .. n : i >= k => R[i] = r}
<1>4. 0 \in S
  <2>1. 0 \in 0 .. n /\ (0 >= k => k = 0)
    BY <1>1, <1>2
  <2> QED
    BY <1>1, <2>1
<1>5. ASSUME NEW i \in 1 .. n, i - 1 \in S PROVE i \in S
  <2>1. SUFFICES ASSUME i >= k PROVE R[i] = r
    BY <1>2
  <2>2. CASE i = k
    BY <1>1, <2>2
  <2>3. CASE i # k
    <3>1. i - 1 >= k
      BY <1>1, <1>2, <2>1, <2>3
    <3>2. R[i - 1] = r
      BY <1>5, <3>1
    <3> QED
      BY <1>2, <1>3, <3>2
  <2> QED
    BY <2>2, <2>3
<1>6. \A i \in 0 .. n : i \in S
  <2> HIDE DEF S
  <2> QED
    BY <1>2, <1>4, <1>5, Induct
<1>7. n \in S /\ n >= k
  BY <1>1, <1>2, <1>6
<1> QED
  BY <1>1, <1>7 DEF Credentials_parse

\* The loop gives back the credentials that were written.
LEMMA CredentialsReadBack ==
    ASSUME NEW list \in Seq(CredentialRecords), NEW version \in 1 .. 4, NEW disk \in Seq(Cell),
           NEW at \in Nat \ {0}, HasAt(disk, at, CredentialCells(list, version)[Len(list)]),
           Len(disk) + 1 = at + Len(CredentialCells(list, version)[Len(list)])
    PROVE  Credentials_parse(disk, at, version) = Value(StoredList(version, list, Len(list)), Len(disk) + 1)
<1>1. Len(list) \in 0 .. Len(list) /\ Len(disk) \in Nat
  OBVIOUS
<1>2. PICK r : r = CredentialsRead(disk, at, version)[Len(list)]
  OBVIOUS
<1>3. Len(list) \in 0 .. Len(disk) /\ r = Value(StoredList(version, list, Len(list)), Len(disk) + 1)
  <2>1. PICK n : n = Len(list)
    OBVIOUS
  <2>2. n \in 0 .. Len(list) /\ HasAt(disk, at, CredentialCells(list, version)[n])
    BY <1>1, <2>1
  <2>3. /\ n \in 0 .. Len(disk)
        /\ CredentialsRead(disk, at, version)[n]
             = Value(StoredList(version, list, n), at + Len(CredentialCells(list, version)[n]))
    BY <2>2, ReadSoFar
  <2> QED
    BY <1>2, <2>1, <2>3
<1>4. r.next > Len(disk)
  BY <1>1, <1>3, OkResult
<1> QED
  BY <1>2, <1>3, <1>4, StaysRead

\* From a list that was cut off the loop fails or gives a prefix that ends
\* where the file does.
LEMMA CredentialsCutOff ==
    ASSUME NEW list \in Seq(CredentialRecords), NEW version \in 1 .. 4, NEW disk \in Seq(Cell),
           NEW at \in Nat \ {0}, StopsIn(disk, at, CredentialCells(list, version)[Len(list)]),
           Credentials_parse(disk, at, version).ok
    PROVE  \E k \in 0 .. Len(list) :
              /\ Credentials_parse(disk, at, version) = Value(StoredList(version, list, k), Len(disk) + 1)
              /\ HasAt(disk, at, CredentialCells(list, version)[k])
              /\ Len(disk) + 1 = at + Len(CredentialCells(list, version)[k])
<1>1. PICK CC, n, R : CC = CredentialCells(list, version) /\ n = Len(list) /\ R = CredentialsRead(disk, at, version)
  OBVIOUS
<1>2. n \in Nat /\ at \in Nat /\ Len(disk) \in Nat
  BY <1>1
<1>3. PICK k \in 0 .. n - 1 : /\ HasAt(disk, at, CC[k])
                              /\ StopsIn(disk, at + Len(CC[k]), Credential_write_to(list[k + 1], version))
  BY <1>1, <1>2, CellsStop
<1>4. k \in 0 .. n /\ k + 1 \in 1 .. n /\ list[k + 1] \in CredentialRecords
  BY <1>1, <1>2
<1>5. k \in 0 .. Len(disk) /\ at + Len(CC[k]) - 1 <= Len(disk) /\ R[k] = Value(StoredList(version, list, k), at + Len(CC[k]))
  BY <1>1, <1>3, <1>4, ReadSoFar
<1>6. PICK next : next = at + Len(CC[k])
  OBVIOUS
<1>7. next \in Nat \ {0} /\ next <= Len(disk) + 1
  <2>1. Len(CC[k]) \in Nat
    BY <1>1, <1>4, CellsLong
  <2> QED
    BY <1>2, <1>5, <1>6, <2>1
<1>8. PICK r : r = R[k]
  OBVIOUS
<1>9. r.ok /\ r.next = next
  BY <1>5, <1>6, <1>8, OkResult
<1>10. CASE next > Len(disk)
  <2>1. Len(disk) + 1 = next
    BY <1>2, <1>7, <1>10
  <2>2. Credentials_parse(disk, at, version) = r
    BY <1>1, <1>5, <1>8, <1>9, <1>10, StaysRead
  <2> QED
    BY <1>1, <1>3, <1>4, <1>5, <1>6, <1>8, <2>1, <2>2
<1>11. CASE ~ (next > Len(disk))
  <2>1. Credential_parse(disk, next, version) = Error
    BY <1>3, <1>4, <1>6, <1>7, CredentialCutOff
  <2>2. ReadCredential(disk, version, r) = Error
    BY <1>9, <1>11, <2>1, OkResult DEF ReadCredential, WithCredential
  <2>3. k + 1 \in 1 .. Len(disk) /\ k + 1 - 1 = k /\ k + 1 \in 0 .. Len(disk)
    <3>1. Len(CC[k]) \in Nat /\ Len(CC[k]) >= k
      BY <1>1, <1>4, CellsLong
    <3> QED
      BY <1>2, <1>4, <1>6, <1>11, <3>1
  <2>4. R[k + 1] = Error
    BY <1>1, <1>8, <2>2, <2>3, CredentialsReadFacts
  <2>5. Credentials_parse(disk, at, version) = Error
    <3>1. PICK e, j : e = Error /\ j = k + 1
      OBVIOUS
    <3>2. j \in 0 .. Len(disk) /\ e = CredentialsRead(disk, at, version)[j] /\ ~ e.ok
      BY <1>1, <2>3, <2>4, <3>1, OkResult
    <3>3. Credentials_parse(disk, at, version) = e
      BY <3>2, StaysRead
    <3> QED
      BY <3>1, <3>3
  <2> QED
    BY <2>5, OkResult
<1> QED
  BY <1>10, <1>11

-----------------------------------------------------------------------------
(* Caches read back.                                                        *)

\* Lists that are written alike have the same cells.
LEMMA CellsSame ==
    ASSUME NEW version \in 1 .. 4, NEW l1 \in Seq(CredentialRecords), NEW l2 \in Seq(CredentialRecords),
           NEW k \in Nat, k <= Len(l1), k <= Len(l2),
           \A i \in 1 .. k : Credential_write_to(l1[i], version) = Credential_write_to(l2[i], version)
    PROVE  CredentialCells(l1, version)[k] = CredentialCells(l2, version)[k]
<1>1. PICK C1, C2, n1, n2 :
        C1 = CredentialCells(l1, version) /\ C2 = CredentialCells(l2, version) /\ n1 = Len(l1) /\ n2 = Len(l2)
  OBVIOUS
<1>2. IsCells(C1, l1, version, n1) /\ IsCells(C2, l2, version, n2) /\ n1 \in Nat /\ n2 \in Nat
      /\ k <= n1 /\ k <= n2
  BY <1>1, CellsOfList
<1> DEFINE S == {i \in 0 .. k : C1[i] = C2[i]}
<1>3. 0 \in S
  BY <1>2 DEF IsCells
<1>4. ASSUME NEW i \in 1 .. k, i - 1 \in S PROVE i \in S
  <2>1. i \in 1 .. n1 /\ i \in 1 .. n2 /\ i \in 0 .. k
    BY <1>2
  <2>2. C1[i] = C1[i - 1] \o Credential_write_to(l1[i], version)
    BY <1>2, <2>1 DEF IsCells
  <2>3. C2[i] = C2[i - 1] \o Credential_write_to(l2[i], version)
    BY <1>2, <2>1 DEF IsCells
  <2>4. C1[i - 1] = C2[i - 1] /\ Credential_write_to(l1[i], version) = Credential_write_to(l2[i], version)
    BY <1>4
  <2>5. C1[i] = C2[i]
    BY <2>2, <2>3, <2>4
  <2> QED
    BY <2>1, <2>5
<1>5. \A i \in 0 .. k : i \in S
  <2> HIDE DEF S
  <2> QED
    BY ONLY <1>3, <1>4, k \in Nat, Induct
<1>6. k \in S
  BY <1>5
<1> QED
  BY <1>1, <1>6

HeadCells(version) == IntCell(CCACHE_FIRST_BYTE) \o IntCell(version)
FieldCells(cache) == IF cache.version = 4 THEN Header_write_to(cache.fields) ELSE <<>>
DefaultCells(cache) == Principal_write_to(cache.default, cache.version)
ListCells(cache) == CredentialCells(cache.credentials, cache.version)[Len(cache.credentials)]

\* The fields of a cache.
LEMMA CacheTypes ==
    ASSUME NEW cache \in Caches
    PROVE  /\ cache.version \in 1 .. 4 /\ cache.fields \in Seq(Int \X Int) /\ cache.default \in Principals
           /\ cache.credentials \in Seq(CredentialRecords)
  BY DEF Caches

\* The parts of a cache: version, header, default principal, credentials.
LEMMA CacheParts ==
    ASSUME NEW cache \in Caches
    PROVE  /\ HeadCells(cache.version) \in Seq(Cell) /\ Len(HeadCells(cache.version)) = 2
           /\ HeadCells(cache.version)[1] = [int |-> 5] /\ HeadCells(cache.version)[2] = [int |-> cache.version]
           /\ FieldCells(cache) \in Seq(Cell) /\ DefaultCells(cache) \in Seq(Cell) /\ ListCells(cache) \in Seq(Cell)
<1>1. [int |-> 5] \in Cell /\ [int |-> cache.version] \in Cell
  BY CacheTypes, CellKinds
<1>2. /\ HeadCells(cache.version) \in Seq(Cell) /\ Len(HeadCells(cache.version)) = 2
      /\ HeadCells(cache.version)[1] = [int |-> 5] /\ HeadCells(cache.version)[2] = [int |-> cache.version]
  <2>1. PICK a, b : a = [int |-> 5] /\ b = [int |-> cache.version]
    OBVIOUS
  <2>2. /\ <<a>> \o <<b>> \in Seq(Cell) /\ Len(<<a>> \o <<b>>) = 2
        /\ (<<a>> \o <<b>>)[1] = a /\ (<<a>> \o <<b>>)[2] = b
    BY <1>1, <2>1
  <2>3. HeadCells(cache.version) = <<a>> \o <<b>>
    BY <2>1 DEF HeadCells, IntCell, CCACHE_FIRST_BYTE
  <2> QED
    BY <2>1, <2>2, <2>3
<1>3. FieldCells(cache) \in Seq(Cell)
  <2>1. CASE cache.version = 4
    <3>1. Header_write_to(cache.fields) \in Seq(Cell)
      BY CacheTypes, HeaderCells
    <3> QED
      BY <2>1, <3>1 DEF FieldCells
  <2>2. CASE cache.version # 4
    BY <2>2 DEF FieldCells
  <2> QED
    BY <2>1, <2>2
<1>4. DefaultCells(cache) \in Seq(Cell)
  BY CacheTypes, PrincipalCells DEF DefaultCells
<1>5. ListCells(cache) \in Seq(Cell)
  <2>1. PICK list, version, n, CC : /\ list = cache.credentials /\ version = cache.version /\ n = Len(list)
                                    /\ CC = CredentialCells(list, version)
    OBVIOUS
  <2>2. IsCells(CC, list, version, n)
    BY <2>1, CacheTypes, CellsOfList
  <2>3. n \in 0 .. n /\ CC \in [0 .. n -> Seq(Cell)]
    BY <2>2 DEF IsCells
  <2>4. CC[n] \in Seq(Cell)
    BY <2>3
  <2> QED
    BY <2>1, <2>4 DEF ListCells
<1> QED
  BY <1>2, <1>3, <1>4, <1>5

\* to_bytes writes these parts.
LEMMA CacheIsParts ==
    ASSUME NEW cache \in Caches
    PROVE  to_bytes(cache) = ((HeadCells(cache.version) \o FieldCells(cache)) \o DefaultCells(cache)) \o ListCells(cache)
  BY DEF to_bytes, HeadCells, FieldCells, DefaultCells, ListCells

\* Four parts of a file.
Foured(disk, a, b, c, d, p, q, all) ==
    /\ all \in Seq(Cell) /\ p \in Nat \ {0} /\ q \in Nat \ {0}
    /\ p = 3 + Len(b) /\ q = p + Len(c) /\ 1 + Len(all) = q + Len(d)
    /\ HasAt(disk, 1, all) <=>
         HasAt(disk, 1, a) /\ HasAt(disk, 3, b) /\ HasAt(disk, p, c) /\ HasAt(disk, q, d)
    /\ StopsIn(disk, 1, all) =>
         \/ StopsIn(disk, 1, a)
         \/ HasAt(disk, 1, a) /\ StopsIn(disk, 3, b)
         \/ HasAt(disk, 1, a) /\ HasAt(disk, 3, b) /\ StopsIn(disk, p, c)
         \/ HasAt(disk, 1, a) /\ HasAt(disk, 3, b) /\ HasAt(disk, p, c) /\ StopsIn(disk, q, d)

\* Four parts one after the other, and where each begins.
LEMMA FourParts ==
    ASSUME NEW disk \in Seq(Cell), NEW a \in Seq(Cell), NEW b \in Seq(Cell), NEW c \in Seq(Cell), NEW d \in Seq(Cell),
           Len(a) = 2, NEW all, all = ((a \o b) \o c) \o d
    PROVE  \E p, q : Foured(disk, a, b, c, d, p, q, all)
<1>1. PICK v2, v3 : v2 = a \o b /\ v3 = v2 \o c
  OBVIOUS
<1>2. PICK p, q : p = 3 + Len(b) /\ q = p + Len(c)
  OBVIOUS
<1>3. Len(b) \in Nat /\ Len(c) \in Nat /\ Len(d) \in Nat
  OBVIOUS
<1>4. p \in Nat \ {0} /\ q \in Nat \ {0}
  BY <1>2, <1>3
<1>5. Parted(disk, 1, a, 3, b, v2) /\ v2 \in Seq(Cell) /\ 1 + Len(v2) = p
  <2>1. 1 \in Nat /\ v2 = a \o b /\ 3 = 1 + Len(a)
    BY <1>1
  <2>2. Parted(disk, 1, a, 3, b, v2)
    BY ONLY disk \in Seq(Cell), a \in Seq(Cell), b \in Seq(Cell), <2>1, NextPart
  <2> QED
    BY <1>2, <2>2 DEF Parted
<1>6. Parted(disk, 1, v2, p, c, v3) /\ v3 \in Seq(Cell) /\ 1 + Len(v3) = q
  <2>1. 1 \in Nat /\ v3 = v2 \o c /\ p = 1 + Len(v2) /\ v2 \in Seq(Cell)
    BY <1>1, <1>5
  <2>2. Parted(disk, 1, v2, p, c, v3)
    BY ONLY disk \in Seq(Cell), c \in Seq(Cell), <2>1, NextPart
  <2> QED
    BY <1>2, <2>2 DEF Parted
<1>7. Parted(disk, 1, v3, q, d, all) /\ all \in Seq(Cell) /\ 1 + Len(all) = q + Len(d)
  <2>1. 1 \in Nat /\ all = v3 \o d /\ q = 1 + Len(v3) /\ v3 \in Seq(Cell)
    BY <1>1, <1>6
  <2>2. Parted(disk, 1, v3, q, d, all)
    BY ONLY disk \in Seq(Cell), d \in Seq(Cell), <2>1, NextPart
  <2> QED
    BY <2>2 DEF Parted
<1>8. /\ HasAt(disk, 1, all) <=>
           HasAt(disk, 1, a) /\ HasAt(disk, 3, b) /\ HasAt(disk, p, c) /\ HasAt(disk, q, d)
      /\ StopsIn(disk, 1, all) =>
           \/ StopsIn(disk, 1, a)
           \/ HasAt(disk, 1, a) /\ StopsIn(disk, 3, b)
           \/ HasAt(disk, 1, a) /\ HasAt(disk, 3, b) /\ StopsIn(disk, p, c)
           \/ HasAt(disk, 1, a) /\ HasAt(disk, 3, b) /\ HasAt(disk, p, c) /\ StopsIn(disk, q, d)
  BY <1>5, <1>6, <1>7, Zenon DEF Parted
<1>9. Foured(disk, a, b, c, d, p, q, all)
  BY <1>2, <1>4, <1>7, <1>8 DEF Foured
<1> QED
  BY <1>9

\* Where the parts of a cache are.
LEMMA CacheLayout ==
    ASSUME NEW disk \in Seq(Cell), NEW cache \in Caches
    PROVE  \E p, q : Foured(disk, HeadCells(cache.version), FieldCells(cache), DefaultCells(cache), ListCells(cache),
                            p, q, to_bytes(cache))
<1>1. PICK a, b, c, d : /\ a = HeadCells(cache.version) /\ b = FieldCells(cache)
                        /\ c = DefaultCells(cache) /\ d = ListCells(cache)
  OBVIOUS
<1>2. a \in Seq(Cell) /\ b \in Seq(Cell) /\ c \in Seq(Cell) /\ d \in Seq(Cell) /\ Len(a) = 2
  BY <1>1, CacheParts
<1>3. to_bytes(cache) = ((a \o b) \o c) \o d
  BY <1>1, CacheIsParts
<1>4. \E p, q : Foured(disk, a, b, c, d, p, q, to_bytes(cache))
  BY <1>2, <1>3, FourParts
<1> QED
  BY <1>1, <1>4

\* to_bytes writes cells.
LEMMA CacheIsCells ==
    ASSUME NEW cache \in Caches
    PROVE  to_bytes(cache) \in Seq(Cell)
<1>1. <<>> \in Seq(Cell)
  OBVIOUS
<1>2. PICK disk : disk \in Seq(Cell)
  BY <1>1
<1> QED
  BY <1>2, CacheLayout DEF Foured

\* Caches as a file can hold them.
FieldsFit(cache) ==
    /\ cache.version # 4 => cache.fields = <<>>
    /\ \A i \in 1 .. Len(cache.fields) : ValidField(cache.fields[i])
NormalCaches ==
    {cache \in Caches : /\ FieldsFit(cache) /\ cache.default \in StoredPrincipals(cache.version)
                        /\ cache.credentials \in Seq(StoredCredentials(cache.version))}

\* The version is read as it was written.
LEMMA HeadReadBack ==
    ASSUME NEW cache \in Caches, NEW disk \in Seq(Cell), HasAt(disk, 1, HeadCells(cache.version))
    PROVE  CanRead(disk, 1, <<"int", "int">>) /\ disk[1].int = 5 /\ disk[2].int = cache.version
<1>1. /\ Len(HeadCells(cache.version)) = 2
      /\ HeadCells(cache.version)[1] = [int |-> 5] /\ HeadCells(cache.version)[2] = [int |-> cache.version]
  BY CacheParts
<1>2. 1 + 2 - 1 <= Len(disk) /\ \A i \in 1 .. 2 : disk[1 + i - 1] = HeadCells(cache.version)[i]
  BY <1>1 DEF HasAt
<1>3. 1 \in 1 .. 2 /\ 2 \in 1 .. 2 /\ 1 + 1 - 1 = 1 /\ 1 + 2 - 1 = 2
  OBVIOUS
<1>4. disk[1] = [int |-> 5] /\ disk[2] = [int |-> cache.version]
  BY <1>1, <1>2, <1>3
<1>5. "int" \in DOMAIN disk[1] /\ "int" \in DOMAIN disk[2]
  BY <1>4, CacheTypes, CellKinds
<1>6. CanRead(disk, 1, <<"int", "int">>)
  <2>1. Len(<<"int", "int">>) = 2 /\ <<"int", "int">>[1] = "int" /\ <<"int", "int">>[2] = "int"
    OBVIOUS
  <2>2. \A i \in 1 .. 2 : i \in {1, 2}
    OBVIOUS
  <2> QED
    BY <1>2, <1>3, <1>5, <2>1, <2>2 DEF CanRead
<1> QED
  BY <1>4, <1>6

\* It cannot be read when it was cut off.
LEMMA HeadCutOff ==
    ASSUME NEW cache \in Caches, NEW disk \in Seq(Cell), StopsIn(disk, 1, HeadCells(cache.version))
    PROVE  ~ CanRead(disk, 1, <<"int", "int">>)
<1>1. Len(HeadCells(cache.version)) = 2
  BY CacheParts
<1>2. PICK k \in 0 .. Len(HeadCells(cache.version)) - 1 : 1 + k <= Len(disk) => disk[1 + k] = [part |-> 0]
  BY DEF StopsIn
<1>3. k \in 0 .. 1
  BY <1>1, <1>2
<1>4. /\ <<"int", "int">> \in Seq({"int", "str", "data"}) /\ Len(<<"int", "int">>) = 2
      /\ k + 1 \in 1 .. 2 /\ 1 + (k + 1) - 1 = 1 + k /\ 1 \in Nat
  BY <1>3
<1> QED
  BY <1>2, <1>4, CannotRead

\* A credential as the version stores it is stored as it is.
LEMMA StoredIsSame ==
    ASSUME NEW version \in 1 .. 4, NEW c \in StoredCredentials(version)
    PROVE  StoredCredential(version, c) = c
<1>1. c \in CredentialRecords /\ Stored(version, c.client) = c.client /\ Stored(version, c.server) = c.server
  BY DEF StoredCredentials, StoredPrincipals
<1>2. StoredCredential(version, c) = [c EXCEPT !.client = c.client, !.server = c.server]
  BY <1>1 DEF StoredCredential
<1>3. [c EXCEPT !.client = c.client, !.server = c.server] = c
  BY <1>1 DEF CredentialRecords
<1> QED
  BY <1>2, <1>3

\* So is a list of them.
LEMMA StoredListIsSame ==
    ASSUME NEW version \in 1 .. 4, NEW list \in Seq(StoredCredentials(version)), NEW k \in 0 .. Len(list)
    PROVE  StoredList(version, list, k) = SubSeq(list, 1, k)
<1>1. Len(list) \in Nat
  OBVIOUS
<1>2. ASSUME NEW i \in 1 .. k PROVE StoredCredential(version, list[i]) = list[i]
  <2>1. i \in 1 .. Len(list)
    BY <1>1
  <2>2. list[i] \in StoredCredentials(version)
    BY <2>1
  <2> QED
    BY <2>2, StoredIsSame
<1>3. StoredList(version, list, k) = [i \in 1 .. k |-> list[i]]
  BY <1>2 DEF StoredList
<1>4. SubSeq(list, 1, k) = [i \in 1 .. k |-> list[i]]
  <2>1. SubSeq(list, 1, k) \in Seq(StoredCredentials(version)) /\ Len(SubSeq(list, 1, k)) = k
    BY <1>1
  <2>2. \A i \in 1 .. k : SubSeq(list, 1, k)[i] = list[i]
    BY <1>1
  <2>3. SubSeq(list, 1, k) = [i \in 1 .. k |-> SubSeq(list, 1, k)[i]]
    BY <2>1, SeqIsFunction
  <2> QED
    BY <2>2, <2>3
<1> QED
  BY <1>3, <1>4

\* The fields of a cache that is as its version stores it.
LEMMA NormalTypes ==
    ASSUME NEW cache \in NormalCaches
    PROVE  /\ cache \in Caches /\ FieldsFit(cache) /\ cache.version \in 1 .. 4
           /\ cache.default \in StoredPrincipals(cache.version)
           /\ cache.credentials \in Seq(StoredCredentials(cache.version))
           /\ cache = [version |-> cache.version, fields |-> cache.fields, default |-> cache.default,
                       credentials |-> cache.credentials]
  BY DEF NormalCaches, Caches

\* The parts of a file that come before the credentials are read back.
LEMMA FrontReadBack ==
    ASSUME NEW cache \in NormalCaches, NEW disk \in Seq(Cell), NEW p, NEW q,
           Foured(disk, HeadCells(cache.version), FieldCells(cache), DefaultCells(cache), ListCells(cache),
                  p, q, to_bytes(cache)),
           HasAt(disk, 1, HeadCells(cache.version)), HasAt(disk, 3, FieldCells(cache)),
           HasAt(disk, p, DefaultCells(cache)),
           NEW credentials, credentials = Credentials_parse(disk, q, cache.version)
    PROVE  parse(disk) = IF credentials.ok
                         THEN Value([version |-> cache.version, fields |-> cache.fields, default |-> cache.default,
                                     credentials |-> credentials.value], credentials.next)
                         ELSE Error
<1>1. PICK version : version = disk[2].int
  OBVIOUS
<1>2. /\ version = cache.version /\ version \in 1 .. 4 /\ CanRead(disk, 1, <<"int", "int">>)
      /\ disk[1].int = CCACHE_FIRST_BYTE
  BY <1>1, NormalTypes, HeadReadBack DEF CCACHE_FIRST_BYTE
<1>3. PICK header : header = IF version = 4 THEN Header_parse(disk, 3) ELSE Value(<<>>, 3)
  OBVIOUS
<1>4. p = 3 + Len(FieldCells(cache)) /\ q = p + Len(DefaultCells(cache)) /\ p \in Nat \ {0}
  BY DEF Foured
<1>5. header = Value(cache.fields, p)
  <2>1. CASE version = 4
    <3>1. FieldCells(cache) = Header_write_to(cache.fields)
      BY <1>2, <2>1 DEF FieldCells
    <3>2. /\ HasAt(disk, 3, Header_write_to(cache.fields)) /\ cache.fields \in Seq(Int \X Int)
          /\ \A i \in 1 .. Len(cache.fields) : ValidField(cache.fields[i])
      BY <3>1, NormalTypes, CacheTypes DEF FieldsFit
    <3>3. Header_parse(disk, 3) = Value(cache.fields, 3 + Len(Header_write_to(cache.fields)))
      BY <3>2, HeaderReadBack
    <3> QED
      BY <1>3, <1>4, <2>1, <3>1, <3>3
  <2>2. CASE version # 4
    <3>1. FieldCells(cache) = <<>> /\ cache.fields = <<>>
      BY <1>2, <2>2, NormalTypes DEF FieldCells, FieldsFit
    <3>2. p = 3
      BY <1>4, <3>1
    <3> QED
      BY <1>3, <2>2, <3>1, <3>2
  <2> QED
    BY <2>1, <2>2
<1>6. header.ok /\ header.value = cache.fields /\ header.next = p
  BY <1>5, OkResult
<1>7. PICK default : default = Principal_parse(disk, header.next, version)
  OBVIOUS
<1>8. default = Value(cache.default, q)
  <2>1. cache.default \in Principals /\ Stored(version, cache.default) = cache.default
    BY <1>2, NormalTypes DEF StoredPrincipals
  <2>2. HasAt(disk, p, Principal_write_to(cache.default, version)) /\ q = p + Len(Principal_write_to(cache.default, version))
    BY <1>2, <1>4 DEF DefaultCells
  <2>3. disk \in Seq(Cell) /\ p \in Nat /\ version \in 1 .. 4
    BY <1>2, <1>4
  <2>4. Principal_parse(disk, p, version) = Value(Stored(version, cache.default), q)
    BY ONLY <2>1, <2>2, <2>3, PrincipalReadBack
  <2> QED
    BY <1>6, <1>7, <2>1, <2>4
<1>9. default.ok /\ default.value = cache.default /\ default.next = q
  BY <1>8, OkResult
<1>10. credentials = Credentials_parse(disk, default.next, version)
  BY <1>2, <1>9
<1>11. parse(disk) = IF credentials.ok
                     THEN Value([version |-> version, fields |-> header.value, default |-> default.value,
                                 credentials |-> credentials.value], credentials.next)
                     ELSE Error
  BY <1>1, <1>2, <1>3, <1>6, <1>7, <1>9, <1>10, Zenon DEF parse, CacheOf
<1> QED
  BY <1>2, <1>6, <1>9, <1>11

\* Theorem: what is written is read back.
LEMMA CacheReadBack ==
    ASSUME NEW cache \in NormalCaches
    PROVE  /\ to_bytes(cache) \in Seq(Cell)
           /\ parse(to_bytes(cache)) = Value(cache, Len(to_bytes(cache)) + 1)
<1>1. PICK disk : disk = to_bytes(cache)
  OBVIOUS
<1>2. disk \in Seq(Cell)
  BY <1>1, NormalTypes, CacheIsCells
<1>3. PICK p, q : Foured(disk, HeadCells(cache.version), FieldCells(cache), DefaultCells(cache), ListCells(cache),
                         p, q, to_bytes(cache))
  BY <1>2, NormalTypes, CacheLayout
<1>4. HasAt(disk, 1, to_bytes(cache))
  <2>1. 1 + Len(disk) - 1 <= Len(disk) /\ \A i \in 1 .. Len(disk) : 1 + i - 1 = i
    BY <1>2
  <2> QED
    BY <1>1, <2>1 DEF HasAt
<1>5. /\ HasAt(disk, 1, HeadCells(cache.version)) /\ HasAt(disk, 3, FieldCells(cache))
      /\ HasAt(disk, p, DefaultCells(cache)) /\ HasAt(disk, q, ListCells(cache))
      /\ 1 + Len(disk) = q + Len(ListCells(cache)) /\ q \in Nat \ {0}
  BY <1>1, <1>3, <1>4, Zenon DEF Foured
<1>6. PICK credentials : credentials = Credentials_parse(disk, q, cache.version)
  OBVIOUS
<1>7. credentials = Value(cache.credentials, Len(disk) + 1)
  <2>1. PICK list, version, n : list = cache.credentials /\ version = cache.version /\ n = Len(list)
    OBVIOUS
  <2>2. version \in 1 .. 4 /\ list \in Seq(StoredCredentials(version)) /\ list \in Seq(CredentialRecords)
    BY <2>1, NormalTypes, CacheTypes
  <2>3. /\ HasAt(disk, q, CredentialCells(list, version)[Len(list)])
        /\ Len(disk) + 1 = q + Len(CredentialCells(list, version)[Len(list)])
    <3>1. ListCells(cache) = CredentialCells(list, version)[Len(list)]
      BY <2>1 DEF ListCells
    <3>2. 1 + Len(disk) = Len(disk) + 1
      BY <1>2
    <3> QED
      BY <1>5, <3>1, <3>2
  <2>4. Credentials_parse(disk, q, version) = Value(StoredList(version, list, Len(list)), Len(disk) + 1)
    BY <1>2, <1>5, <2>2, <2>3, CredentialsReadBack
  <2>5. StoredList(version, list, Len(list)) = SubSeq(list, 1, Len(list))
    <3>1. Len(list) \in 0 .. Len(list)
      BY <2>2
    <3> QED
      BY <2>2, <3>1, StoredListIsSame
  <2>6. SubSeq(list, 1, Len(list)) = list
    BY <2>2
  <2> QED
    BY <1>6, <2>1, <2>4, <2>5, <2>6
<1>8. credentials.ok /\ credentials.value = cache.credentials /\ credentials.next = Len(disk) + 1
  BY <1>7, OkResult
<1>9. parse(disk) = Value([version |-> cache.version, fields |-> cache.fields, default |-> cache.default,
                           credentials |-> cache.credentials], Len(disk) + 1)
  BY <1>2, <1>3, <1>5, <1>6, <1>8, FrontReadBack
<1> QED
  BY <1>1, <1>2, <1>9, NormalTypes

\* The first credentials of a cache.
FirstOf(cache, k) == [cache EXCEPT !.credentials = SubSeq(@, 1, k)]

\* A cache cut down to its first k credentials.
LEMMA FirstOfFacts ==
    ASSUME NEW cache \in NormalCaches, NEW k \in 0 .. Len(cache.credentials)
    PROVE  /\ FirstOf(cache, k) \in NormalCaches
           /\ FirstOf(cache, k) = [version |-> cache.version, fields |-> cache.fields, default |-> cache.default,
                                   credentials |-> SubSeq(cache.credentials, 1, k)]
           /\ ListCells(FirstOf(cache, k)) = CredentialCells(cache.credentials, cache.version)[k]
           /\ HeadCells(FirstOf(cache, k).version) = HeadCells(cache.version)
           /\ FieldCells(FirstOf(cache, k)) = FieldCells(cache)
           /\ DefaultCells(FirstOf(cache, k)) = DefaultCells(cache)
<1>1. PICK list, version, some, l : /\ list = cache.credentials /\ version = cache.version
                                    /\ some = FirstOf(cache, k) /\ l = SubSeq(list, 1, k)
  OBVIOUS
<1>2. /\ version \in 1 .. 4 /\ list \in Seq(StoredCredentials(version)) /\ list \in Seq(CredentialRecords)
      /\ k \in 0 .. Len(list) /\ Len(list) \in Nat
  BY <1>1, NormalTypes, CacheTypes
<1>3. l \in Seq(StoredCredentials(version)) /\ l \in Seq(CredentialRecords) /\ Len(l) = k
      /\ \A i \in 1 .. k : l[i] = list[i]
  BY <1>1, <1>2
<1>4. some = [version |-> version, fields |-> cache.fields, default |-> cache.default, credentials |-> l]
  <2>1. PICK f, d : f = cache.fields /\ d = cache.default
    OBVIOUS
  <2>2. cache = [version |-> version, fields |-> f, default |-> d, credentials |-> list]
    BY <1>1, <2>1, NormalTypes
  <2>3. some = [cache EXCEPT !.credentials = SubSeq(cache.credentials, 1, k)]
    BY <1>1 DEF FirstOf
  <2>4. some = [cache EXCEPT !.credentials = l]
    BY <1>1, <2>3
  <2>5. some = [version |-> version, fields |-> f, default |-> d, credentials |-> l]
    BY ONLY <2>2, <2>4
  <2> QED
    BY <2>1, <2>5
<1>5. some.version = version /\ some.fields = cache.fields /\ some.default = cache.default /\ some.credentials = l
  BY <1>4
<1>6. some \in Caches
  <2>1. cache.fields \in Seq(Int \X Int) /\ cache.default \in Principals
    BY NormalTypes, CacheTypes
  <2> QED
    BY <1>2, <1>3, <1>4, <2>1 DEF Caches
<1>7. some \in NormalCaches
  <2>1. FieldsFit(some)
    BY <1>1, <1>5, NormalTypes DEF FieldsFit
  <2> QED
    BY <1>1, <1>3, <1>5, <1>6, <2>1, NormalTypes DEF NormalCaches
<1>8. CredentialCells(l, version)[k] = CredentialCells(list, version)[k]
  <2>1. k \in Nat /\ k <= Len(l) /\ k <= Len(list)
    BY <1>2, <1>3
  <2>2. \A i \in 1 .. k : Credential_write_to(l[i], version) = Credential_write_to(list[i], version)
    BY <1>3
  <2> QED
    BY <1>2, <1>3, <2>1, <2>2, CellsSame
<1>9. ListCells(some) = CredentialCells(list, version)[k]
  BY <1>3, <1>5, <1>8 DEF ListCells
<1>10. HeadCells(some.version) = HeadCells(cache.version) /\ FieldCells(some) = FieldCells(cache)
       /\ DefaultCells(some) = DefaultCells(cache)
  BY <1>1, <1>5 DEF FieldCells, DefaultCells
<1> QED
  BY <1>1, <1>4, <1>7, <1>9, <1>10

\* A file that was cut short is refused, or holds the first credentials.
THEOREM CacheCutOff ==
    ASSUME NEW cache \in NormalCaches, NEW disk \in Seq(Cell), StopsIn(disk, 1, to_bytes(cache)), parse(disk).ok
    PROVE  \E k \in 0 .. Len(cache.credentials) :
              parse(disk).value = FirstOf(cache, k) /\ to_bytes(FirstOf(cache, k)) = disk
<1>1. PICK p, q : Foured(disk, HeadCells(cache.version), FieldCells(cache), DefaultCells(cache), ListCells(cache),
                         p, q, to_bytes(cache))
  BY NormalTypes, CacheLayout
<1>2. p = 3 + Len(FieldCells(cache)) /\ q = p + Len(DefaultCells(cache)) /\ p \in Nat \ {0} /\ q \in Nat \ {0}
  BY <1>1 DEF Foured
<1>3. PICK version, header, default :
        /\ version = disk[2].int
        /\ header = IF version = 4 THEN Header_parse(disk, 3) ELSE Value(<<>>, 3)
        /\ default = Principal_parse(disk, header.next, version)
  OBVIOUS
<1>4. CanRead(disk, 1, <<"int", "int">>) /\ header.ok /\ default.ok
  BY <1>3, OkResult DEF parse, CacheOf
<1>5. cache \in Caches
  BY NormalTypes
<1>6. ~ StopsIn(disk, 1, HeadCells(cache.version))
  BY <1>4, <1>5, HeadCutOff
<1>7. ASSUME HasAt(disk, 1, HeadCells(cache.version)) PROVE version = cache.version /\ version \in 1 .. 4
  BY <1>3, <1>5, <1>7, HeadReadBack, CacheTypes
<1>8. ASSUME HasAt(disk, 1, HeadCells(cache.version)), StopsIn(disk, 3, FieldCells(cache)) PROVE FALSE
  <2>1. ~ StopsIn(disk, 3, <<>>)
    BY DEF StopsIn
  <2>2. version = 4 /\ StopsIn(disk, 3, Header_write_to(cache.fields))
    BY <1>7, <1>8, <2>1 DEF FieldCells
  <2>3. Header_parse(disk, 3) = Error
    BY <1>5, <2>2, CacheTypes, HeaderCutOff
  <2> QED
    BY <1>3, <1>4, <2>2, <2>3, OkResult
<1>9. ASSUME HasAt(disk, 1, HeadCells(cache.version)), HasAt(disk, 3, FieldCells(cache)),
             StopsIn(disk, p, DefaultCells(cache))
      PROVE FALSE
  <2>1. header.next = p
    <3>1. CASE version = 4
      <4>1. FieldCells(cache) = Header_write_to(cache.fields)
        BY <1>7, <1>9, <3>1 DEF FieldCells
      <4>2. /\ HasAt(disk, 3, Header_write_to(cache.fields)) /\ cache.fields \in Seq(Int \X Int)
            /\ \A i \in 1 .. Len(cache.fields) : ValidField(cache.fields[i])
        BY <1>5, <1>9, <4>1, NormalTypes, CacheTypes DEF FieldsFit
      <4>3. Header_parse(disk, 3) = Value(cache.fields, 3 + Len(Header_write_to(cache.fields)))
        BY <4>2, HeaderReadBack
      <4> QED
        BY <1>2, <1>3, <3>1, <4>1, <4>3, OkResult
    <3>2. CASE version # 4
      <4>1. FieldCells(cache) = <<>>
        BY <1>7, <1>9, <3>2 DEF FieldCells
      <4>2. p = 3
        BY <1>2, <4>1
      <4> QED
        BY <1>3, <3>2, <4>2, OkResult
    <3> QED
      BY <3>1, <3>2
  <2>2. StopsIn(disk, p, Principal_write_to(cache.default, version))
    BY <1>7, <1>9 DEF DefaultCells
  <2>3. Principal_parse(disk, p, version) = Error
    BY <1>2, <1>5, <1>7, <1>9, <2>2, CacheTypes, PrincipalCutOff
  <2> QED
    BY <1>3, <1>4, <2>1, <2>3, OkResult
<1>10. /\ HasAt(disk, 1, HeadCells(cache.version)) /\ HasAt(disk, 3, FieldCells(cache))
       /\ HasAt(disk, p, DefaultCells(cache)) /\ StopsIn(disk, q, ListCells(cache))
  BY <1>1, <1>6, <1>8, <1>9, Zenon DEF Foured
<1>11. PICK credentials : credentials = Credentials_parse(disk, q, cache.version)
  OBVIOUS
<1>12. parse(disk) = IF credentials.ok
                     THEN Value([version |-> cache.version, fields |-> cache.fields, default |-> cache.default,
                                 credentials |-> credentials.value], credentials.next)
                     ELSE Error
  BY <1>1, <1>10, <1>11, FrontReadBack
<1>13. credentials.ok
  BY <1>12, OkResult
<1>14. PICK list : list = cache.credentials
  OBVIOUS
<1>15. /\ list \in Seq(StoredCredentials(cache.version)) /\ list \in Seq(CredentialRecords) /\ cache.version \in 1 .. 4
       /\ StopsIn(disk, q, CredentialCells(list, cache.version)[Len(list)])
  BY <1>5, <1>10, <1>14, NormalTypes, CacheTypes DEF ListCells
<1>16. PICK k \in 0 .. Len(list) :
              /\ credentials = Value(StoredList(cache.version, list, k), Len(disk) + 1)
              /\ HasAt(disk, q, CredentialCells(list, cache.version)[k])
              /\ Len(disk) + 1 = q + Len(CredentialCells(list, cache.version)[k])
  <2>1. PICK v : v = cache.version
    OBVIOUS
  <2>2. /\ list \in Seq(CredentialRecords) /\ v \in 1 .. 4 /\ disk \in Seq(Cell) /\ q \in Nat \ {0}
        /\ StopsIn(disk, q, CredentialCells(list, v)[Len(list)])
        /\ credentials = Credentials_parse(disk, q, v) /\ credentials.ok
    BY <1>2, <1>11, <1>13, <1>15, <2>1
  <2>3. \E k \in 0 .. Len(list) :
              /\ credentials = Value(StoredList(v, list, k), Len(disk) + 1)
              /\ HasAt(disk, q, CredentialCells(list, v)[k])
              /\ Len(disk) + 1 = q + Len(CredentialCells(list, v)[k])
    BY ONLY <2>2, CredentialsCutOff
  <2> QED
    BY ONLY <2>1, <2>3
<1>17. credentials.value = SubSeq(list, 1, k)
  <2>1. StoredList(cache.version, list, k) = SubSeq(list, 1, k)
    BY ONLY <1>15, <1>16, StoredListIsSame
  <2> QED
    BY ONLY <1>16, <2>1, OkResult
<1>18. PICK some : some = FirstOf(cache, k)
  OBVIOUS
<1>19. /\ some \in NormalCaches
       /\ some = [version |-> cache.version, fields |-> cache.fields, default |-> cache.default,
                  credentials |-> SubSeq(list, 1, k)]
       /\ ListCells(some) = CredentialCells(list, cache.version)[k]
       /\ HeadCells(some.version) = HeadCells(cache.version) /\ FieldCells(some) = FieldCells(cache)
       /\ DefaultCells(some) = DefaultCells(cache)
  BY <1>14, <1>16, <1>18, FirstOfFacts
<1>20. parse(disk).value = some
  <2>1. parse(disk) = Value(some, credentials.next)
    BY <1>12, <1>13, <1>17, <1>19
  <2> QED
    BY <2>1, OkResult
<1>21. to_bytes(some) = disk
  <2>1. some \in Caches
    BY <1>19, NormalTypes
  <2>2. PICK P, Q : Foured(disk, HeadCells(some.version), FieldCells(some), DefaultCells(some), ListCells(some),
                           P, Q, to_bytes(some))
    BY <2>1, CacheLayout
  <2>3. P = p /\ Q = q
    BY <1>2, <1>19, <2>2 DEF Foured
  <2>4. HasAt(disk, 1, to_bytes(some)) /\ to_bytes(some) \in Seq(Cell) /\ 1 + Len(to_bytes(some)) = Len(disk) + 1
    BY <1>10, <1>16, <1>19, <2>2, <2>3, Zenon DEF Foured
  <2>5. PICK b : b = to_bytes(some)
    OBVIOUS
  <2>6. b \in Seq(Cell) /\ Len(b) = Len(disk)
    BY <2>4, <2>5
  <2>7. \A i \in 1 .. Len(b) : disk[i] = b[i]
    <3>1. \A i \in 1 .. Len(b) : 1 + i - 1 = i
      BY <2>6
    <3> QED
      BY <2>4, <2>5, <3>1 DEF HasAt
  <2>8. b = [i \in 1 .. Len(b) |-> b[i]] /\ disk = [i \in 1 .. Len(disk) |-> disk[i]]
    BY <2>6, SeqIsFunction
  <2> QED
    BY <2>5, <2>6, <2>7, <2>8
<1> QED
  BY <1>14, <1>16, <1>18, <1>20, <1>21

\* Header_parse returns fields that it accepts.
LEMMA HeaderTyped ==
    ASSUME NEW disk \in Seq(Cell), NEW at \in Nat \ {0}
    PROVE  Reads(Header_parse(disk, at), {f \in Seq(Int \X Int) : \A i \in 1 .. Len(f) : ValidField(f[i])})
<1> DEFINE length == disk[at].int
           kinds == [i \in 1 .. length |-> "int"]
           fields == [i \in 1 .. length \div 2 |-> <<disk[at + 2 * i - 1].int, disk[at + 2 * i].int>>]
<1>1. CASE \/ ~ CanRead(disk, at, <<"int">>) \/ length < 0 \/ ~ CanRead(disk, at + 1, kinds)
           \/ length % 2 # 0 \/ \E i \in DOMAIN fields : ~ ValidField(fields[i])
  <2>1. Header_parse(disk, at) = Error
    BY <1>1 DEF Header_parse
  <2> QED
    BY <2>1 DEF Reads
<1>2. CASE /\ CanRead(disk, at, <<"int">>) /\ ~ (length < 0) /\ CanRead(disk, at + 1, kinds)
           /\ length % 2 = 0 /\ \A i \in DOMAIN fields : ValidField(fields[i])
  <2>1. length \in Nat
    <3>1. <<"int">> \in Seq({"int", "str", "data"}) /\ 1 \in 1 .. Len(<<"int">>) /\ <<"int">>[1] = "int"
          /\ at + 1 - 1 = at
      OBVIOUS
    <3>2. disk[at].int \in Int
      BY <1>2, <3>1, ReadTypes
    <3> QED
      BY <1>2, <3>2
  <2>2. Header_parse(disk, at) = Value(fields, at + 1 + length)
    BY <1>2 DEF Header_parse
  <2> HIDE DEF length
  <2>3. kinds \in Seq({"int", "str", "data"}) /\ Len(kinds) = length /\ \A i \in 1 .. length : kinds[i] = "int"
    <3>1. "int" \in {"int", "str", "data"}
      OBVIOUS
    <3>2. kinds \in Seq({"int", "str", "data"}) /\ Len(kinds) = length
      BY ONLY <2>1, <3>1, SameSeq
    <3> QED
      BY <3>2
  <2>4. PICK n : n = length \div 2
    OBVIOUS
  <2>5. n \in Nat /\ length = 2 * n
    BY <1>2, <2>1, <2>4
  <2>6. ASSUME NEW i \in 1 .. n
        PROVE  <<disk[at + 2 * i - 1].int, disk[at + 2 * i].int>> \in Int \X Int
    <3>1. /\ 2 * i - 1 \in 1 .. length /\ 2 * i \in 1 .. length /\ at + 1 \in Nat \ {0}
          /\ at + 1 + (2 * i - 1) - 1 = at + 2 * i - 1 /\ at + 1 + 2 * i - 1 = at + 2 * i
      BY <2>5
    <3>2. PICK ks : ks = kinds
      OBVIOUS
    <3>3. /\ ks \in Seq({"int", "str", "data"}) /\ CanRead(disk, at + 1, ks) /\ at + 1 \in Nat \ {0}
          /\ 2 * i - 1 \in 1 .. Len(ks) /\ 2 * i \in 1 .. Len(ks) /\ ks[2 * i - 1] = "int" /\ ks[2 * i] = "int"
      BY <1>2, <2>3, <3>1, <3>2
    <3>4. disk[at + 1 + (2 * i - 1) - 1].int \in Int
      BY <3>3, ReadTypes
    <3>5. disk[at + 1 + 2 * i - 1].int \in Int
      BY <3>3, ReadTypes
    <3> QED
      BY <3>1, <3>4, <3>5
  <2>7. PICK f : f = fields
    OBVIOUS
  <2>8. f \in [1 .. n -> Int \X Int]
    BY <2>4, <2>6, <2>7
  <2>9. f \in Seq(Int \X Int) /\ DOMAIN f = 1 .. Len(f)
    BY ONLY <2>5, <2>8, FunctionIsSeq
  <2>10. at + 1 + length \in Nat \ {0} /\ Header_parse(disk, at) = Value(f, at + 1 + length)
    BY <2>1, <2>2, <2>7
  <2>11. \A i \in 1 .. Len(f) : ValidField(f[i])
    BY <1>2, <2>7, <2>9
  <2> QED
    BY <2>9, <2>10, <2>11 DEF Reads
<1> QED
  BY <1>1, <1>2

\* What is read from a file, whatever is in it, is a cache that a file can hold.
LEMMA ParseTyped ==
    ASSUME NEW disk \in Seq(Cell), parse(disk).ok
    PROVE  parse(disk).value \in NormalCaches
<1>1. PICK version, header, default, credentials :
        /\ version = disk[2].int
        /\ header = IF version = 4 THEN Header_parse(disk, 3) ELSE Value(<<>>, 3)
        /\ default = Principal_parse(disk, header.next, version)
        /\ credentials = Credentials_parse(disk, default.next, version)
  OBVIOUS
<1>2. version \in 1 .. 4 /\ header.ok /\ default.ok /\ credentials.ok
  BY <1>1, OkResult DEF parse, CacheOf
<1>3. parse(disk) = Value([version |-> version, fields |-> header.value, default |-> default.value,
                           credentials |-> credentials.value], credentials.next)
  BY <1>1, OkResult DEF parse, CacheOf
<1>4. /\ header.value \in Seq(Int \X Int) /\ header.next \in Nat \ {0}
      /\ (version # 4 => header.value = <<>>) /\ \A i \in 1 .. Len(header.value) : ValidField(header.value[i])
  <2>1. CASE version = 4
    <3>1. header.value \in {f \in Seq(Int \X Int) : \A i \in 1 .. Len(f) : ValidField(f[i])}
          /\ header.next \in Nat \ {0}
      <4>1. Reads(header, {f \in Seq(Int \X Int) : \A i \in 1 .. Len(f) : ValidField(f[i])})
        BY <1>1, <2>1, HeaderTyped
      <4> QED
        BY <1>2, <4>1, ReadsOk
    <3> QED
      BY <2>1, <3>1
  <2>2. CASE version # 4
    <3>1. header.value = <<>> /\ header.next = 3
      BY <1>1, <2>2, OkResult
    <3> QED
      BY <3>1
  <2> QED
    BY <2>1, <2>2
<1>5. default.value \in StoredPrincipals(version) /\ default.next \in Nat \ {0}
  BY <1>1, <1>2, <1>4, PrincipalTyped, ReadsOk
<1>6. credentials.value \in Seq(StoredCredentials(version))
  <2>1. PICK V, R, n : V = ReadResults(Seq(StoredCredentials(version))) /\ n = Len(disk)
                       /\ R = CredentialsRead(disk, default.next, version)
    OBVIOUS
  <2>2. R \in [0 .. n -> V]
    BY <1>2, <1>5, <2>1, CredentialsReadFacts
  <2>3. n \in 0 .. n
    BY <2>1
  <2>4. R[n] \in V
    BY <2>2, <2>3
  <2>5. credentials \in ReadResults(Seq(StoredCredentials(version)))
    BY <1>1, <2>1, <2>4 DEF Credentials_parse
  <2> QED
    BY <1>2, <2>5, ReadsResults, ReadsOk
<1>7. PICK cache : cache = [version |-> version, fields |-> header.value, default |-> default.value,
                            credentials |-> credentials.value]
  OBVIOUS
<1>8. /\ cache.version = version /\ cache.fields = header.value /\ cache.default = default.value
      /\ cache.credentials = credentials.value
  BY <1>7
<1>9. cache \in Caches
  <2>1. default.value \in Principals
    BY <1>5 DEF StoredPrincipals
  <2>2. credentials.value \in Seq(CredentialRecords)
    <3>1. \A c \in StoredCredentials(version) : c \in CredentialRecords
      BY DEF StoredCredentials
    <3> QED
      BY <1>6, <3>1
  <2> QED
    BY <1>2, <1>4, <1>7, <2>1, <2>2 DEF Caches
<1>10. cache \in NormalCaches
  <2>1. FieldsFit(cache)
    BY <1>4, <1>8 DEF FieldsFit
  <2> QED
    BY <1>5, <1>6, <1>8, <1>9, <2>1 DEF NormalCaches
<1> QED
  BY <1>3, <1>7, <1>10, OkResult

\* What version 1 drops of a principal is its name type, which it does not
\* write.
LEMMA StoredPrincipal ==
    ASSUME NEW version \in 1 .. 4, NEW p \in Principals
    PROVE  /\ Stored(version, p) \in StoredPrincipals(version)
           /\ Stored(version, p).realm = p.realm /\ Stored(version, p).names = p.names
           /\ Principal_write_to(Stored(version, p), version) = Principal_write_to(p, version)
<1>1. CASE version # 1
  <2>1. Stored(version, p) = p
    BY <1>1 DEF Stored
  <2> QED
    BY <2>1 DEF StoredPrincipals
<1>2. CASE version = 1
  <2>1. PICK q : q = [p EXCEPT !.type = 0]
    OBVIOUS
  <2>2. q \in Principals /\ q.realm = p.realm /\ q.names = p.names /\ q.type = 0
    BY <2>1 DEF Principals
  <2>3. [q EXCEPT !.type = 0] = q
    BY <2>2 DEF Principals
  <2>4. Stored(version, p) = q /\ Stored(version, q) = q
    BY <1>2, <2>1, <2>3 DEF Stored
  <2>5. Principal_write_to(q, version) = Principal_write_to(p, version)
    BY <1>2, <2>2 DEF Principal_write_to
  <2> QED
    BY <2>2, <2>4, <2>5 DEF StoredPrincipals
<1> QED
  BY <1>1, <1>2

\* Likewise for the principals of a credential.
LEMMA StoredCredentialFacts ==
    ASSUME NEW version \in 1 .. 4, NEW c \in CredentialRecords
    PROVE  /\ StoredCredential(version, c) \in StoredCredentials(version)
           /\ StoredCredential(version, c).client = Stored(version, c.client)
           /\ StoredCredential(version, c).server = Stored(version, c.server)
           /\ StoredCredential(version, c).ticket = c.ticket
           /\ Credential_write_to(StoredCredential(version, c), version) = Credential_write_to(c, version)
<1>1. PICK x, y : x = Stored(version, c.client) /\ y = Stored(version, c.server)
  OBVIOUS
<1>2. /\ x \in StoredPrincipals(version) /\ y \in StoredPrincipals(version)
      /\ Principal_write_to(x, version) = Principal_write_to(c.client, version)
      /\ Principal_write_to(y, version) = Principal_write_to(c.server, version)
  BY <1>1, CredentialTypes, StoredPrincipal
<1>3. x \in Principals /\ y \in Principals
  BY <1>2 DEF StoredPrincipals
<1>4. PICK d : d = StoredCredential(version, c)
  OBVIOUS
<1>5. d = [c EXCEPT !.client = x, !.server = y]
  BY <1>1, <1>4 DEF StoredCredential
<1>6. PICK e : e = [c EXCEPT !.client = x]
  OBVIOUS
<1>7. d = [e EXCEPT !.server = y]
  BY ONLY <1>5, <1>6
<1>8. /\ e \in CredentialRecords /\ e.client = x /\ e.server = c.server /\ e.etype = c.etype /\ e.key = c.key
      /\ e.times = c.times /\ e.skey = c.skey /\ e.flags = c.flags /\ e.addresses = c.addresses
      /\ e.auth_data = c.auth_data /\ e.ticket = c.ticket /\ e.second = c.second
  BY <1>3, <1>6 DEF CredentialRecords
<1>9. /\ d \in CredentialRecords /\ d.client = x /\ d.server = y /\ d.etype = c.etype /\ d.key = c.key
      /\ d.times = c.times /\ d.skey = c.skey /\ d.flags = c.flags /\ d.addresses = c.addresses
      /\ d.auth_data = c.auth_data /\ d.ticket = c.ticket /\ d.second = c.second
  BY <1>3, <1>7, <1>8 DEF CredentialRecords
<1>10. Credential_write_to(d, version) = Credential_write_to(c, version)
  BY <1>2, <1>9 DEF Credential_write_to
<1>11. d \in StoredCredentials(version)
  BY <1>2, <1>9 DEF StoredCredentials
<1> QED
  BY <1>1, <1>4, <1>9, <1>10, <1>11

\* A cache as its file will hold it.
StoredCache(cache) ==
    [version |-> cache.version, fields |-> cache.fields, default |-> Stored(cache.version, cache.default),
     credentials |-> StoredList(cache.version, cache.credentials, Len(cache.credentials))]

\* A cache and what is stored of it are written alike.
LEMMA StoredCacheFacts ==
    ASSUME NEW cache \in Caches, FieldsFit(cache)
    PROVE  /\ StoredCache(cache) \in NormalCaches
           /\ to_bytes(StoredCache(cache)) = to_bytes(cache)
           /\ StoredCache(cache).version = cache.version
           /\ StoredCache(cache).default = Stored(cache.version, cache.default)
           /\ DOMAIN StoredCache(cache).credentials = DOMAIN cache.credentials
           /\ \A i \in DOMAIN cache.credentials :
                 StoredCache(cache).credentials[i] = StoredCredential(cache.version, cache.credentials[i])
<1>1. PICK version, list, n, l, new :
        /\ version = cache.version /\ list = cache.credentials /\ n = Len(list)
        /\ l = StoredList(version, list, n) /\ new = StoredCache(cache)
  OBVIOUS
<1>2. /\ version \in 1 .. 4 /\ list \in Seq(CredentialRecords) /\ n \in Nat /\ cache.default \in Principals
      /\ cache.fields \in Seq(Int \X Int) /\ DOMAIN list = 1 .. n /\ \A i \in 1 .. n : list[i] \in CredentialRecords
  BY <1>1, CacheTypes
<1>3. ASSUME NEW i \in 1 .. n
      PROVE  /\ StoredCredential(version, list[i]) \in StoredCredentials(version)
             /\ StoredCredential(version, list[i]) \in CredentialRecords
             /\ Credential_write_to(StoredCredential(version, list[i]), version) = Credential_write_to(list[i], version)
  BY <1>2, StoredCredentialFacts DEF StoredCredentials
<1>4. l \in [1 .. n -> StoredCredentials(version)] /\ l \in [1 .. n -> CredentialRecords]
      /\ \A i \in 1 .. n : l[i] = StoredCredential(version, list[i])
  BY <1>1, <1>3 DEF StoredList
<1>5. l \in Seq(StoredCredentials(version)) /\ l \in Seq(CredentialRecords) /\ Len(l) = n /\ DOMAIN l = 1 .. n
  BY <1>2, <1>4, FunctionIsSeq
<1>6. new = [version |-> version, fields |-> cache.fields, default |-> Stored(version, cache.default), credentials |-> l]
  BY <1>1 DEF StoredCache
<1>7. /\ new.version = version /\ new.fields = cache.fields /\ new.default = Stored(version, cache.default)
      /\ new.credentials = l
  BY <1>6
<1>8. /\ Stored(version, cache.default) \in StoredPrincipals(version) /\ Stored(version, cache.default) \in Principals
      /\ Principal_write_to(Stored(version, cache.default), version) = Principal_write_to(cache.default, version)
  BY <1>2, StoredPrincipal DEF StoredPrincipals
<1>9. new \in Caches
  BY <1>2, <1>5, <1>6, <1>8 DEF Caches
<1>10. new \in NormalCaches
  <2>1. FieldsFit(new)
    BY <1>1, <1>7 DEF FieldsFit
  <2> QED
    BY <1>5, <1>7, <1>8, <1>9, <2>1 DEF NormalCaches
<1>11. CredentialCells(l, version)[n] = CredentialCells(list, version)[n]
  <2>1. n <= Len(l) /\ n <= Len(list)
    BY <1>1, <1>2, <1>5
  <2>2. \A i \in 1 .. n : Credential_write_to(l[i], version) = Credential_write_to(list[i], version)
    BY <1>3, <1>4
  <2> QED
    BY <1>2, <1>5, <2>1, <2>2, CellsSame
<1>12. to_bytes(new) = to_bytes(cache)
  <2>1. ListCells(new) = ListCells(cache)
    BY <1>1, <1>5, <1>7, <1>11 DEF ListCells
  <2>2. FieldCells(new) = FieldCells(cache) /\ DefaultCells(new) = DefaultCells(cache)
    BY <1>1, <1>7, <1>8 DEF FieldCells, DefaultCells
  <2> QED
    BY <1>1, <1>7, <1>9, <2>1, <2>2, CacheIsParts
<1> QED
  BY <1>1, <1>2, <1>4, <1>5, <1>7, <1>10, <1>12

\* A cache of any version with any credentials, and a header that parse accepts,
\* is read back as its file holds it: parse of what to_bytes wrote is the cache
\* without the name types that version 1 does not write.
THEOREM WrittenIsRead ==
    ASSUME NEW cache \in Caches, FieldsFit(cache)
    PROVE  /\ to_bytes(cache) \in Seq(Cell)
           /\ parse(to_bytes(cache)) = Value(StoredCache(cache), Len(to_bytes(cache)) + 1)
<1>1. PICK stored : stored = StoredCache(cache)
  OBVIOUS
<1>2. stored \in NormalCaches /\ to_bytes(stored) = to_bytes(cache)
  BY <1>1, StoredCacheFacts
<1>3. /\ to_bytes(stored) \in Seq(Cell)
      /\ parse(to_bytes(stored)) = Value(stored, Len(to_bytes(stored)) + 1)
  BY ONLY <1>2, CacheReadBack
<1> QED
  BY ONLY <1>1, <1>2, <1>3

-----------------------------------------------------------------------------
(* Entries kept and added.                                                  *)

\* The entries kept among the first i: the recursion of Retained.
LEMMA KeptFacts ==
    ASSUME NEW S, NEW list \in Seq(S), NEW places
    PROVE  /\ KeptOf(list, places) \in [0 .. Len(list) -> Seq(S)]
           /\ KeptOf(list, places)[0] = <<>>
           /\ \A i \in 1 .. Len(list) : KeptOf(list, places)[i]
                = IF i \in places THEN Append(KeptOf(list, places)[i - 1], list[i]) ELSE KeptOf(list, places)[i - 1]
<1> DEFINE Step(i, v) == IF i \in places THEN Append(v, list[i]) ELSE v
           Is(h, m) == h = [i \in 0 .. m |-> IF i = 0 THEN <<>> ELSE Step(i, h[i - 1])]
<1>1. PICK n, V, none : n = Len(list) /\ V = Seq(S) /\ none = <<>>
  OBVIOUS
<1>2. n \in Nat /\ none \in V
  BY <1>1
<1>3. ASSUME NEW i \in 1 .. n, NEW v \in V PROVE Step(i, v) \in V
  <2>1. list[i] \in S /\ v \in Seq(S)
    BY <1>1
  <2>2. Append(v, list[i]) \in Seq(S)
    BY <2>1
  <2> QED
    BY <1>1, <2>1, <2>2
<1> HIDE DEF Step
<1>4. PICK G : G = [i \in 1 .. n |-> [v \in V |-> Step(i, v)]]
  OBVIOUS
<1>5. G \in [1 .. n -> [V -> V]] /\ \A i \in 1 .. n, v \in V : G[i][v] = Step(i, v)
  BY <1>3, <1>4
<1>6. PICK f : f \in [0 .. n -> V] /\ Recursive(f, n, none, G)
  BY ONLY <1>2, <1>5, Recursion
<1>7. Is(f, n)
  <2>1. ASSUME NEW i \in 0 .. n PROVE f[i] = IF i = 0 THEN <<>> ELSE Step(i, f[i - 1])
    <3>1. i # 0 => i \in 1 .. n /\ i - 1 \in 0 .. n
      BY <1>2
    <3> QED
      BY <1>1, <1>5, <1>6, <3>1 DEF Recursive
  <2> QED
    BY <1>6, <2>1
<1>8. PICK g : g = KeptOf(list, places)
  OBVIOUS
<1>9. g = CHOOSE h : Is(h, n)
  BY <1>1, <1>8 DEF KeptOf, Step
<1>10. Is(g, n)
  BY <1>7, <1>9, Zenon
<1>11. g[0] = none /\ g = [i \in 0 .. n |-> g[i]] /\ \A i \in 1 .. n : g[i] = Step(i, g[i - 1])
  <2>1. 0 \in 0 .. n /\ \A i \in 1 .. n : i \in 0 .. n /\ i # 0
    BY <1>2
  <2>2. \A i \in 0 .. n : g[i] = IF i = 0 THEN <<>> ELSE Step(i, g[i - 1])
    BY <1>10
  <2>3. g = [i \in 0 .. n |-> g[i]]
    BY <1>10, <2>2
  <2> QED
    BY <1>1, <2>1, <2>2, <2>3
<1>12. g[0] \in V /\ \A i \in 1 .. n : g[i - 1] \in V => g[i] = G[i][g[i - 1]]
  BY <1>2, <1>5, <1>11
<1>13. g \in [0 .. n -> V]
  BY ONLY <1>2, <1>5, <1>11, <1>12, RecursionTyped
<1> QED
  BY <1>1, <1>8, <1>11, <1>13 DEF Step

\* What was kept, h saying from which places.
KeptFrom(kept, list, places, m, h) ==
    /\ h \in [1 .. Len(kept) -> 1 .. m]
    /\ \A i \in 1 .. Len(kept) : h[i] \in places /\ kept[i] = list[h[i]]
    /\ \A i, j \in 1 .. Len(kept) : h[i] = h[j] => i = j
    /\ \A k \in 1 .. m : k \in places => \E i \in 1 .. Len(kept) : h[i] = k

\* Retained keeps the entries of the given places, in their order.
LEMMA KeptPlaces ==
    ASSUME NEW S, NEW list \in Seq(S), NEW places
    PROVE  /\ Retained(list, places) \in Seq(S)
           /\ \E h : KeptFrom(Retained(list, places), list, places, Len(list), h)
<1>1. PICK K, n : K = KeptOf(list, places) /\ n = Len(list)
  OBVIOUS
<1>2. n \in Nat /\ K \in [0 .. n -> Seq(S)]
  BY <1>1, KeptFacts
<1>3. K[0] = <<>>
  BY <1>1, KeptFacts
<1>4. \A i \in 1 .. n : K[i] = IF i \in places THEN Append(K[i - 1], list[i]) ELSE K[i - 1]
  BY <1>1, KeptFacts
<1> DEFINE T == {i \in 0 .. n : \E h : KeptFrom(K[i], list, places, i, h)}
<1>5. 0 \in T
  <2>1. PICK h : h = [i \in 1 .. 0 |-> 1]
    OBVIOUS
  <2>2. Len(K[0]) = 0
    BY <1>3
  <2>3. KeptFrom(K[0], list, places, 0, h)
    BY <2>1, <2>2 DEF KeptFrom
  <2> QED
    BY <1>2, <2>3
<1>6. ASSUME NEW i \in 1 .. n, i - 1 \in T PROVE i \in T
  <2>1. i \in 0 .. n /\ i - 1 \in 0 .. n /\ i \in Nat /\ list[i] \in S /\ \A k \in 1 .. i : k = i \/ k \in 1 .. i - 1
    BY <1>1, <1>2
  <2>2. PICK h : KeptFrom(K[i - 1], list, places, i - 1, h)
    BY <1>6
  <2>3. PICK a, m : a = K[i - 1] /\ m = Len(a)
    OBVIOUS
  <2>4. a \in Seq(S) /\ m \in Nat
    BY <1>2, <2>1, <2>3
  <2>5. KeptFrom(a, list, places, i - 1, h)
    BY <2>2, <2>3
  <2>6. \A k \in 1 .. m : h[k] \in 1 .. i - 1 /\ h[k] \in 1 .. i /\ h[k] # i
    <3>1. \A k \in 1 .. m : h[k] \in 1 .. i - 1
      BY <2>3, <2>5 DEF KeptFrom
    <3>2. \A x \in 1 .. i - 1 : x \in 1 .. i /\ x # i
      BY <2>1
    <3> QED
      BY <3>1, <3>2
  <2>7. CASE i \notin places
    <3>1. KeptFrom(a, list, places, i, h)
      <4>1. h \in [1 .. m -> 1 .. i]
        BY <2>3, <2>5, <2>6 DEF KeptFrom
      <4> QED
        BY <2>1, <2>3, <2>5, <2>7, <4>1 DEF KeptFrom
    <3> QED
      BY <1>4, <2>1, <2>3, <2>7, <3>1
  <2>8. CASE i \in places
    <3>1. PICK b : b = Append(a, list[i])
      OBVIOUS
    <3>2. /\ b \in Seq(S) /\ Len(b) = m + 1 /\ b[m + 1] = list[i] /\ \A k \in 1 .. m : b[k] = a[k]
      BY <2>1, <2>3, <2>4, <3>1
    <3>3. PICK g : g = [k \in 1 .. m + 1 |-> IF k = m + 1 THEN i ELSE h[k]]
      OBVIOUS
    <3>4. \A k \in 1 .. m + 1 : k = m + 1 \/ k \in 1 .. m
      BY <2>4
    <3>5. m + 1 \in 1 .. m + 1 /\ \A k \in 1 .. m : k \in 1 .. m + 1 /\ k # m + 1
      BY <2>4
    <3>6. g[m + 1] = i /\ \A k \in 1 .. m : g[k] = h[k]
      BY <3>3, <3>5
    <3>7. i \in 1 .. i
      BY <2>1
    <3>8. g \in [1 .. m + 1 -> 1 .. i]
      BY <2>6, <3>3, <3>4, <3>7
    <3>9. \A k \in 1 .. m + 1 : g[k] \in places /\ b[k] = list[g[k]]
      <4>1. \A k \in 1 .. m : h[k] \in places /\ a[k] = list[h[k]]
        BY ONLY <2>3, <2>5 DEF KeptFrom
      <4> QED
        BY ONLY <2>8, <3>2, <3>4, <3>6, <4>1
    <3>10. \A k, j \in 1 .. m + 1 : g[k] = g[j] => k = j
      <4>1. \A k, j \in 1 .. m : h[k] = h[j] => k = j
        BY ONLY <2>3, <2>5 DEF KeptFrom
      <4> QED
        BY ONLY <2>6, <3>4, <3>6, <4>1
    <3>11. ASSUME NEW k \in 1 .. i, k \in places PROVE \E j \in 1 .. m + 1 : g[j] = k
      <4>1. CASE k = i
        BY <3>5, <3>6, <4>1
      <4>2. CASE k \in 1 .. i - 1
        <5>1. PICK j \in 1 .. m : h[j] = k
          BY <2>3, <2>5, <3>11, <4>2 DEF KeptFrom
        <5> QED
          BY <3>5, <3>6, <5>1
      <4> QED
        BY <2>1, <4>1, <4>2
    <3>12. KeptFrom(b, list, places, i, g)
      BY <3>2, <3>8, <3>9, <3>10, <3>11 DEF KeptFrom
    <3>13. K[i] = b
      BY <1>4, <2>1, <2>3, <2>8, <3>1
    <3> QED
      BY <2>1, <3>12, <3>13
  <2> QED
    BY <2>7, <2>8
<1>7. \A i \in 0 .. n : i \in T
  <2>1. n \in Nat
    BY <1>2
  <2> HIDE DEF T
  <2> QED
    BY ONLY <1>5, <1>6, <2>1, Induct
<1>8. n \in T /\ n \in 0 .. n
  BY <1>2, <1>7
<1>9. K[n] \in Seq(S)
  BY <1>2, <1>8
<1> QED
  BY <1>1, <1>8, <1>9 DEF Retained

\* Finitely many sessions can be listed, and a list has all of them.
LEMMA SessionListExists ==
    ASSUME NEW sessions, IsFiniteSet(sessions)
    PROVE  SessionLists(sessions) # {}
<1> DEFINE Tgt(x) == is_tgt(x.service)
<1>1. PICK S, T, U, a, b : /\ S = sessions /\ T = {x \in S : Tgt(x)} /\ U = S \ T
                           /\ a = Cardinality(T) /\ b = Cardinality(U)
  OBVIOUS
<1>2. IsFiniteSet(S) /\ T \in SUBSET S /\ U \in SUBSET S /\ S \cap T = T
  BY <1>1
<1>3. IsFiniteSet(T) /\ IsFiniteSet(U)
  BY <1>2, FS_Subset
<1>4. /\ a \in Nat /\ ExistsBijection(1 .. a, T) /\ b \in Nat /\ ExistsBijection(1 .. b, U)
      /\ Cardinality(S) \in Nat
  BY <1>1, <1>2, <1>3, FS_CardinalityType
<1>5. Cardinality(S) = a + b
  <2>1. Cardinality(S \ T) = Cardinality(S) - Cardinality(S \cap T)
    BY ONLY <1>2, FS_Difference
  <2>2. b = Cardinality(S) - a
    BY ONLY <1>1, <1>2, <2>1
  <2> QED
    BY ONLY <1>4, <2>2
<1>6. PICK f : f \in Bijection(1 .. a, T)
  BY <1>4 DEF ExistsBijection
<1>7. PICK g : g \in Bijection(1 .. b, U)
  BY <1>4 DEF ExistsBijection
<1>8. f \in [1 .. a -> T] /\ \A i, j \in 1 .. a : f[i] = f[j] => i = j
  BY <1>6 DEF Bijection, Injection, IsInjective
<1>9. g \in [1 .. b -> U] /\ \A i, j \in 1 .. b : g[i] = g[j] => i = j
  BY <1>7 DEF Bijection, Injection, IsInjective
<1>10. PICK list : list = [i \in 1 .. a + b |-> IF i <= a THEN f[i] ELSE g[i - a]]
  OBVIOUS
<1>11. \A i \in 1 .. a + b : /\ i \in Int
                             /\ i <= a => i \in 1 .. a
                             /\ ~ (i <= a) => i - a \in 1 .. b
  BY <1>4
<1>12. \A i \in 1 .. a + b : /\ i <= a => list[i] = f[i] /\ list[i] \in T
                             /\ ~ (i <= a) => list[i] = g[i - a] /\ list[i] \in U
  BY <1>8, <1>9, <1>10, <1>11
<1>13. /\ \A x \in T : x \in S /\ Tgt(x)
       /\ \A x \in U : x \in S /\ ~ Tgt(x)
  BY <1>1
<1>14. list \in [1 .. a + b -> S]
  <2> HIDE DEF Tgt
  <2>1. \A i \in 1 .. a + b : list[i] \in S
    BY ONLY <1>12, <1>13
  <2> QED
    BY ONLY <1>10, <2>1
<1>15. ASSUME NEW i \in 1 .. a + b, NEW j \in 1 .. a + b, i < j
       PROVE  list[i] # list[j] /\ (Tgt(list[j]) => Tgt(list[i]))
  <2>1. i \in Int /\ j \in Int /\ i # j /\ i - a # j - a /\ (j <= a => i <= a)
    BY <1>4, <1>11, <1>15
  <2> HIDE DEF Tgt
  <2>2. CASE i <= a /\ j <= a
    BY <1>8, <1>11, <1>12, <1>13, <2>1, <2>2
  <2>3. CASE i <= a /\ ~ (j <= a)
    BY <1>12, <1>13, <2>1, <2>3
  <2>4. CASE ~ (i <= a) /\ ~ (j <= a)
    BY <1>9, <1>11, <1>12, <1>13, <2>1, <2>4
  <2> QED
    BY <2>1, <2>2, <2>3, <2>4
<1>16. list \in SessionLists(sessions)
  <2>1. DOMAIN list = 1 .. a + b
    BY <1>14
  <2> QED
    BY <1>1, <1>5, <1>14, <1>15, <2>1 DEF SessionLists
<1> QED
  BY <1>16

\* A list of all sessions has each of them once.
LEMMA SessionListAll ==
    ASSUME NEW sessions, IsFiniteSet(sessions), NEW list \in SessionLists(sessions)
    PROVE  /\ list \in Seq(sessions) /\ DOMAIN list = 1 .. Len(list)
           /\ sessions = {list[i] : i \in 1 .. Len(list)}
           /\ \A i, j \in 1 .. Len(list) : list[i] = list[j] => i = j
<1>1. PICK n : n = Cardinality(sessions)
  OBVIOUS
<1>2. n \in Nat
  BY <1>1, FS_CardinalityType
<1>3. list \in [1 .. n -> sessions] /\ \A i, j \in 1 .. n : i < j => list[i] # list[j]
  BY <1>1 DEF SessionLists
<1>4. \A i, j \in 1 .. n : list[i] = list[j] => i = j
  <2>1. \A i, j \in 1 .. n : i < j \/ j < i \/ i = j
    BY <1>2
  <2> QED
    BY <1>3, <2>1
<1>5. list \in Injection(1 .. n, sessions)
  BY <1>3, <1>4 DEF Injection, IsInjective
<1>6. Cardinality(1 .. n) = n
  <2>1. 1 \in Int /\ n \in Int
    BY <1>2
  <2>2. Cardinality(1 .. n) = IF 1 > n THEN 0 ELSE n - 1 + 1
    BY ONLY <2>1, FS_Interval
  <2> QED
    BY <1>2, <2>2
<1>7. list \in Surjection(1 .. n, sessions)
  <2>1. Cardinality(1 .. n) = Cardinality(sessions)
    BY <1>1, <1>6
  <2> QED
    BY ONLY <1>5, <2>1, IsFiniteSet(sessions), FS_Injection
<1>8. \A s \in sessions : \E i \in 1 .. n : list[i] = s
  BY <1>7 DEF Surjection
<1>9. list \in Seq(sessions) /\ Len(list) = n
  BY <1>2, <1>3
<1> QED
  BY <1>3, <1>4, <1>8, <1>9

SessionRecords ==
    [client : Principals, service : Principals, key : Int, ticket : Int, flags : Int,
     auth : Int, start : Int, end : Int, renew : Int \cup {Nil}]

\* The sessions of one client: one for each realm and service.
GoodSessions(sessions, client) ==
    /\ IsFiniteSet(sessions) /\ sessions \subseteq SessionRecords
    /\ \A s \in sessions : same_principal_identity(s.client, client) /\ ~ is_config_credential([server |-> s.service])
    /\ \A s, t \in sessions : SessionKey(s) = SessionKey(t) => s = t

\* Their credentials as they are written one by one.
NewList(list, client) ==
    /\ list \in Seq(CredentialRecords)
    /\ \A i \in 1 .. Len(list) : same_principal_identity(list[i].client, client) /\ ~ is_config_credential(list[i])
    /\ \A i, j \in 1 .. Len(list) : list[i].server = list[j].server => i = j

\* The credential of a session (to_ccache_credential).
LEMMA SessionCredential ==
    ASSUME NEW s \in SessionRecords
    PROVE  /\ to_ccache_credential(s) \in CredentialRecords
           /\ to_ccache_credential(s).client = s.client
           /\ to_ccache_credential(s).server = s.service
           /\ is_config_credential(to_ccache_credential(s)) <=> is_config_credential([server |-> s.service])
<1>1. PICK times : times = <<s.auth, s.start, s.end, IF s.renew = Nil THEN 0 ELSE s.renew>>
  OBVIOUS
<1>2. times \in [1 .. 4 -> Int]
  <2>1. s.auth \in Int /\ s.start \in Int /\ s.end \in Int /\ (IF s.renew = Nil THEN 0 ELSE s.renew) \in Int
    BY DEF SessionRecords
  <2> QED
    BY <1>1, <2>1
<1>3. PICK empty, pairs : empty = <<>> /\ pairs = Int \X Int /\ empty \in Seq(pairs)
  <2>1. \A x : <<>> \in Seq(x)
    OBVIOUS
  <2> QED
    BY <2>1
<1>4. PICK c : c = to_ccache_credential(s)
  OBVIOUS
<1>5. c = [client |-> s.client, server |-> s.service, etype |-> 18, key |-> s.key, times |-> times,
           skey |-> 0, flags |-> s.flags, addresses |-> empty, auth_data |-> empty,
           ticket |-> s.ticket, second |-> 0]
  BY <1>1, <1>3, <1>4 DEF to_ccache_credential
<1>6. /\ s.client \in Principals /\ s.service \in Principals /\ s.key \in Int /\ s.flags \in Int /\ s.ticket \in Int
      /\ 18 \in Int /\ 0 \in Int
  BY DEF SessionRecords
<1>7. c \in CredentialRecords
  <2>1. empty \in Seq(Int \X Int)
    BY <1>3
  <2> QED
    BY ONLY <1>2, <1>5, <1>6, <2>1 DEF CredentialRecords
<1>8. c.client = s.client /\ c.server = s.service
  BY ONLY <1>5
<1>9. is_config_credential(c) <=> is_config_credential([server |-> s.service])
  BY <1>8 DEF is_config_credential
<1> QED
  BY <1>4, <1>7, <1>8, <1>9

\* ccache_credentials lists the credentials of all sessions.
LEMMA CredentialList ==
    ASSUME NEW sessions, NEW client, GoodSessions(sessions, client)
    PROVE  /\ NewList(ccache_credentials(sessions), client)
           /\ {ccache_credentials(sessions)[i] : i \in 1 .. Len(ccache_credentials(sessions))}
                = {to_ccache_credential(s) : s \in sessions}
<1>1. /\ IsFiniteSet(sessions) /\ \A s \in sessions : s \in SessionRecords
      /\ \A s \in sessions : same_principal_identity(s.client, client) /\ ~ is_config_credential([server |-> s.service])
      /\ \A s, t \in sessions : SessionKey(s) = SessionKey(t) => s = t
  BY DEF GoodSessions
<1>2. PICK list : list \in SessionLists(sessions) /\ list = CHOOSE x \in SessionLists(sessions) : TRUE
  BY <1>1, SessionListExists
<1>3. PICK n : n = Len(list)
  OBVIOUS
<1>4. /\ list \in Seq(sessions) /\ DOMAIN list = 1 .. n
      /\ sessions = {list[i] : i \in 1 .. n}
      /\ \A i, j \in 1 .. n : list[i] = list[j] => i = j
  <2>1. IsFiniteSet(sessions) /\ list \in SessionLists(sessions)
    BY <1>1, <1>2
  <2>2. /\ list \in Seq(sessions) /\ DOMAIN list = 1 .. Len(list)
        /\ sessions = {list[i] : i \in 1 .. Len(list)}
        /\ \A i, j \in 1 .. Len(list) : list[i] = list[j] => i = j
    BY ONLY <2>1, SessionListAll
  <2> QED
    BY ONLY <1>3, <2>2
<1>5. n \in Nat /\ \A i \in 1 .. n : list[i] \in sessions /\ list[i] \in SessionRecords
  BY <1>1, <1>3, <1>4
<1>6. PICK new : new = ccache_credentials(sessions)
  OBVIOUS
<1>7. new = [i \in 1 .. n |-> to_ccache_credential(list[i])]
  BY <1>2, <1>4, <1>6 DEF ccache_credentials
<1>8. \A i \in 1 .. n : new[i] = to_ccache_credential(list[i]) /\ new[i] \in CredentialRecords
  BY <1>5, <1>7, SessionCredential
<1>9. new \in Seq(CredentialRecords) /\ Len(new) = n
  BY <1>5, <1>7, <1>8
<1>10. ASSUME NEW i \in 1 .. n
       PROVE  same_principal_identity(new[i].client, client) /\ ~ is_config_credential(new[i])
  <2>1. new[i].client = list[i].client /\ (is_config_credential(new[i]) <=> is_config_credential([server |-> list[i].service]))
    BY <1>5, <1>8, SessionCredential
  <2> QED
    BY <1>1, <1>5, <2>1
<1>11. ASSUME NEW i \in 1 .. n, NEW j \in 1 .. n, new[i].server = new[j].server
       PROVE  i = j
  <2>1. new[i].server = list[i].service /\ new[j].server = list[j].service
    BY <1>5, <1>8, SessionCredential
  <2>2. SessionKey(list[i]) = SessionKey(list[j])
    BY <1>11, <2>1 DEF SessionKey
  <2> QED
    BY <1>1, <1>4, <1>5, <2>2
<1>12. {new[i] : i \in 1 .. n} = {to_ccache_credential(s) : s \in sessions}
  BY <1>4, <1>8
<1>13. NewList(new, client)
  BY ONLY <1>9, <1>10, <1>11 DEF NewList
<1> QED
  BY ONLY <1>6, <1>9, <1>12, <1>13

\* upsert_credential replaces the credential at a place, or appends it.
Same(list, c) == {i \in DOMAIN list : list[i].client = c.client /\ list[i].server = c.server}
Put(list, c, new) ==
    \/ Same(list, c) = {} /\ new = Append(list, c)
    \/ \E i \in Same(list, c) : new = [list EXCEPT ![i] = c]

\* A list with an entry put into it is a list.
LEMMA PutTyped ==
    ASSUME NEW list \in Seq(CredentialRecords), NEW c \in CredentialRecords, NEW new, Put(list, c, new)
    PROVE  new \in Seq(CredentialRecords)
<1>1. CASE new = Append(list, c)
  BY <1>1
<1>2. ASSUME NEW i \in Same(list, c), new = [list EXCEPT ![i] = c]
      PROVE  new \in Seq(CredentialRecords)
  <2>1. i \in 1 .. Len(list)
    BY DEF Same
  <2> QED
    BY <1>2, <2>1
<1> QED
  BY <1>1, <1>2 DEF Put

\* upsert_credential replaces the entry of the same client and server or
\* appends one.
LEMMA UpsertFacts ==
    ASSUME NEW cache \in Caches, NEW c \in CredentialRecords
    PROVE  /\ upsert_credential(cache, c) \in Caches
           /\ \E new : /\ Put(cache.credentials, c, new)
                       /\ upsert_credential(cache, c) = [version |-> cache.version, fields |-> cache.fields,
                                                         default |-> cache.default, credentials |-> new]
<1>1. PICK list, same : list = cache.credentials /\ same = Same(list, c)
  OBVIOUS
<1>2. /\ cache = [version |-> cache.version, fields |-> cache.fields, default |-> cache.default, credentials |-> list]
      /\ cache.version \in 1 .. 4 /\ cache.fields \in Seq(Int \X Int) /\ cache.default \in Principals
      /\ list \in Seq(CredentialRecords)
  BY <1>1 DEF Caches
<1>3. PICK new : Put(list, c, new) /\ upsert_credential(cache, c) = [cache EXCEPT !.credentials = new]
  <2>1. CASE same = {}
    <3>1. upsert_credential(cache, c) = [cache EXCEPT !.credentials = Append(list, c)]
      BY <1>1, <2>1 DEF upsert_credential, Same
    <3>2. Put(list, c, Append(list, c))
      BY <1>1, <2>1 DEF Put
    <3> QED
      BY <3>1, <3>2
  <2>2. CASE same # {}
    <3>1. same \in SUBSET Nat
      BY <1>1, <1>2 DEF Same
    <3>2. \E i \in same : \A j \in same : i <= j
      BY ONLY <2>2, <3>1, Least
    <3>3. PICK first : first = CHOOSE i \in same : \A j \in same : i <= j
      OBVIOUS
    <3>4. first \in same
      BY <3>2, <3>3
    <3>5. upsert_credential(cache, c) = [cache EXCEPT !.credentials = [list EXCEPT ![first] = c]]
      BY <1>1, <2>2, <3>3 DEF upsert_credential, Same
    <3>6. Put(list, c, [list EXCEPT ![first] = c])
      BY <1>1, <3>4 DEF Put
    <3> QED
      BY <3>5, <3>6
  <2> QED
    BY <2>1, <2>2
<1>4. new \in Seq(CredentialRecords)
  BY ONLY <1>2, <1>3, c \in CredentialRecords, PutTyped
<1>5. [cache EXCEPT !.credentials = new] = [version |-> cache.version, fields |-> cache.fields,
                                            default |-> cache.default, credentials |-> new]
  <2>1. PICK a, b, d : a = cache.version /\ b = cache.fields /\ d = cache.default
    OBVIOUS
  <2>2. cache = [version |-> a, fields |-> b, default |-> d, credentials |-> list]
    BY <1>2, <2>1
  <2>3. [cache EXCEPT !.credentials = new] = [version |-> a, fields |-> b, default |-> d, credentials |-> new]
    BY ONLY <2>2
  <2> QED
    BY <2>1, <2>3
<1>6. upsert_credential(cache, c) \in Caches
  BY <1>2, <1>3, <1>4, <1>5 DEF Caches
<1> QED
  BY <1>1, <1>3, <1>5, <1>6

\* The cache after i upserts.
LEMMA UpsertsFacts ==
    ASSUME NEW cache \in Caches, NEW list \in Seq(CredentialRecords)
    PROVE  /\ Upserts(cache, list) \in [0 .. Len(list) -> Caches]
           /\ Upserts(cache, list)[0] = cache
           /\ \A i \in 1 .. Len(list) : Upserts(cache, list)[i]
                = upsert_credential(Upserts(cache, list)[i - 1], list[i])
<1> DEFINE Step(i, v) == upsert_credential(v, list[i])
           Is(h, m) == h = [i \in 0 .. m |-> IF i = 0 THEN cache ELSE Step(i, h[i - 1])]
<1>1. PICK n, V, none : n = Len(list) /\ V = Caches /\ none = cache
  OBVIOUS
<1>2. n \in Nat /\ none \in V
  BY <1>1
<1>3. ASSUME NEW i \in 1 .. n, NEW v \in V PROVE Step(i, v) \in V
  <2>1. list[i] \in CredentialRecords /\ v \in Caches
    BY <1>1
  <2>2. upsert_credential(v, list[i]) \in Caches
    BY ONLY <2>1, UpsertFacts
  <2> QED
    BY <1>1, <2>2
<1> HIDE DEF Step
<1>4. PICK G : G = [i \in 1 .. n |-> [v \in V |-> Step(i, v)]]
  OBVIOUS
<1>5. G \in [1 .. n -> [V -> V]] /\ \A i \in 1 .. n, v \in V : G[i][v] = Step(i, v)
  BY <1>3, <1>4
<1>6. PICK f : f \in [0 .. n -> V] /\ Recursive(f, n, none, G)
  BY ONLY <1>2, <1>5, Recursion
<1>7. Is(f, n)
  <2>1. ASSUME NEW i \in 0 .. n PROVE f[i] = IF i = 0 THEN cache ELSE Step(i, f[i - 1])
    <3>1. i # 0 => i \in 1 .. n /\ i - 1 \in 0 .. n
      BY <1>2
    <3> QED
      BY <1>1, <1>5, <1>6, <3>1 DEF Recursive
  <2> QED
    BY <1>6, <2>1
<1>8. PICK g : g = Upserts(cache, list)
  OBVIOUS
<1>9. g = CHOOSE h : Is(h, n)
  BY <1>1, <1>8 DEF Upserts, Step
<1>10. Is(g, n)
  BY <1>7, <1>9, Zenon
<1>11. g[0] = none /\ g = [i \in 0 .. n |-> g[i]] /\ \A i \in 1 .. n : g[i] = Step(i, g[i - 1])
  <2>1. 0 \in 0 .. n /\ \A i \in 1 .. n : i \in 0 .. n /\ i # 0
    BY <1>2
  <2>2. \A i \in 0 .. n : g[i] = IF i = 0 THEN cache ELSE Step(i, g[i - 1])
    BY <1>10
  <2>3. g = [i \in 0 .. n |-> g[i]]
    BY <1>10, <2>2
  <2> QED
    BY <1>1, <2>1, <2>2, <2>3
<1>12. g[0] \in V /\ \A i \in 1 .. n : g[i - 1] \in V => g[i] = G[i][g[i - 1]]
  BY <1>2, <1>5, <1>11
<1>13. g \in [0 .. n -> V]
  BY ONLY <1>2, <1>5, <1>11, <1>12, RecursionTyped
<1> QED
  BY <1>1, <1>8, <1>11, <1>13 DEF Step

\* A list with the first i of some others behind it.
Grown(new, base, list, i) ==
    /\ new \in Seq(CredentialRecords) /\ Len(new) = Len(base) + i
    /\ \A k \in 1 .. Len(base) : new[k] = base[k]
    /\ \A k \in 1 .. i : new[Len(base) + k] = list[k]

\* One more entry appended.
LEMMA GrowOne ==
    ASSUME NEW base \in Seq(CredentialRecords), NEW list \in Seq(CredentialRecords), NEW i \in 1 .. Len(list),
           NEW new, Grown(new, base, list, i - 1)
    PROVE  Grown(Append(new, list[i]), base, list, i)
<1>1. PICK b, c, after : b = Len(base) /\ c = list[i] /\ after = Append(new, c)
  OBVIOUS
<1>2. b \in Nat /\ i \in Nat /\ i - 1 \in Nat /\ c \in CredentialRecords
  BY <1>1
<1>3. /\ new \in Seq(CredentialRecords) /\ Len(new) = b + (i - 1)
      /\ \A k \in 1 .. b : new[k] = base[k]
      /\ \A k \in 1 .. i - 1 : new[b + k] = list[k]
  BY <1>1 DEF Grown
<1>4. after \in Seq(CredentialRecords) /\ Len(after) = b + i
  BY <1>1, <1>2, <1>3
<1>5. \A k \in 1 .. b + (i - 1) : after[k] = new[k]
  BY <1>1, <1>2, <1>3
<1>6. after[b + i] = c
  BY <1>1, <1>2, <1>3
<1>7. \A k \in 1 .. b : k \in 1 .. b + (i - 1)
  BY <1>2
<1>8. \A k \in 1 .. i : k = i \/ (k \in 1 .. i - 1 /\ b + k \in 1 .. b + (i - 1))
  BY <1>2
<1>9. \A k \in 1 .. i : after[b + k] = list[k]
  BY <1>1, <1>3, <1>5, <1>6, <1>8
<1> QED
  BY <1>1, <1>3, <1>4, <1>5, <1>7, <1>9 DEF Grown

\* Credentials of a client are only appended to a cache that has none of the
\* client's but settings.
LEMMA UpsertedAppends ==
    ASSUME NEW cache \in Caches, NEW list, NEW client, NewList(list, client),
           \A k \in 1 .. Len(cache.credentials) :
                \/ ~ same_principal_identity(cache.credentials[k].client, client)
                \/ is_config_credential(cache.credentials[k])
    PROVE  \E new : /\ Grown(new, cache.credentials, list, Len(list))
                    /\ Upserted(cache, list) = [version |-> cache.version, fields |-> cache.fields,
                                                default |-> cache.default, credentials |-> new]
<1> DEFINE Is(x, new) == x = [version |-> cache.version, fields |-> cache.fields,
                              default |-> cache.default, credentials |-> new]
<1>1. PICK base, b, n, U : base = cache.credentials /\ b = Len(base) /\ n = Len(list) /\ U = Upserts(cache, list)
  OBVIOUS
<1>2. /\ cache = [version |-> cache.version, fields |-> cache.fields, default |-> cache.default, credentials |-> base]
      /\ base \in Seq(CredentialRecords)
  BY <1>1 DEF Caches
<1>3. /\ list \in Seq(CredentialRecords)
      /\ \A i \in 1 .. n : same_principal_identity(list[i].client, client) /\ ~ is_config_credential(list[i])
      /\ \A i, j \in 1 .. n : list[i].server = list[j].server => i = j
  BY <1>1 DEF NewList
<1>4. n \in Nat /\ b \in Nat
  BY <1>1, <1>2, <1>3
<1>5. U \in [0 .. n -> Caches] /\ U[0] = cache
  BY ONLY <1>1, <1>3, cache \in Caches, UpsertsFacts
<1>6. \A i \in 1 .. n : U[i] = upsert_credential(U[i - 1], list[i])
  BY ONLY <1>1, <1>3, cache \in Caches, UpsertsFacts
<1> DEFINE T == {i \in 0 .. n : \E new : Grown(new, base, list, i) /\ Is(U[i], new)}
<1>7. 0 \in T
  <2>1. Grown(base, base, list, 0)
    BY <1>2, <1>4 DEF Grown
  <2>2. Is(U[0], base)
    BY <1>2, <1>5
  <2> QED
    BY <1>4, <2>1, <2>2
<1>8. ASSUME NEW i \in 1 .. n, i - 1 \in T PROVE i \in T
  <2>1. i \in 0 .. n /\ i - 1 \in 0 .. n /\ i \in Nat
    BY <1>4
  <2>2. PICK old : Grown(old, base, list, i - 1) /\ Is(U[i - 1], old)
    BY <1>8
  <2>3. PICK x, c, y : x = U[i - 1] /\ c = list[i] /\ y = upsert_credential(x, c)
    OBVIOUS
  <2>4. x \in Caches /\ c \in CredentialRecords /\ x.credentials = old
        /\ x.version = cache.version /\ x.fields = cache.fields /\ x.default = cache.default
    BY <1>1, <1>3, <1>5, <2>1, <2>2, <2>3
  <2>5. PICK new : Put(x.credentials, c, new)
                   /\ y = [version |-> x.version, fields |-> x.fields, default |-> x.default, credentials |-> new]
    BY ONLY <2>3, <2>4, UpsertFacts
  <2>6. Same(old, c) = {}
    <3>1. SUFFICES ASSUME NEW k \in Same(old, c) PROVE FALSE
      OBVIOUS
    <3>2. old \in Seq(CredentialRecords) /\ Len(old) = b + (i - 1)
      BY <1>1, <2>2 DEF Grown
    <3>3. k \in 1 .. b + (i - 1) /\ old[k].client = c.client /\ old[k].server = c.server
      BY <3>2 DEF Same
    <3>4. same_principal_identity(c.client, client) /\ ~ is_config_credential(c)
      BY <1>3, <2>3
    <3>5. CASE k \in 1 .. b
      <4>1. old[k] = base[k]
        BY <1>1, <2>2, <3>5 DEF Grown
      <4>2. \/ ~ same_principal_identity(base[k].client, client)
            \/ is_config_credential(base[k])
        BY <1>1, <3>5
      <4>3. same_principal_identity(base[k].client, client)
        BY <3>3, <3>4, <4>1
      <4>4. is_config_credential(base[k]) <=> is_config_credential(c)
        BY <3>3, <4>1 DEF is_config_credential
      <4> QED
        BY <3>4, <4>2, <4>3, <4>4
    <3>6. CASE k \notin 1 .. b
      <4>1. PICK j : j = k - b
        OBVIOUS
      <4>2. j \in 1 .. i - 1 /\ k = b + j /\ j \in 1 .. n /\ j # i
        BY <1>4, <2>1, <3>3, <3>6, <4>1
      <4>3. old[k] = list[j]
        BY <1>1, <2>2, <4>2 DEF Grown
      <4> QED
        BY <1>3, <2>3, <3>3, <4>2, <4>3
    <3> QED
      BY <3>5, <3>6
  <2>7. new = Append(old, c)
    BY <2>4, <2>5, <2>6 DEF Put
  <2>8. Grown(new, base, list, i)
    BY <1>1, <1>2, <1>3, <2>2, <2>3, <2>7, GrowOne
  <2>9. Is(U[i], new)
    BY <1>6, <2>3, <2>4, <2>5
  <2> QED
    BY <2>1, <2>8, <2>9
<1>9. \A i \in 0 .. n : i \in T
  <2>1. n \in Nat
    BY <1>4
  <2> HIDE DEF T
  <2> QED
    BY ONLY <1>7, <1>8, <2>1, Induct
<1>10. PICK new : Grown(new, base, list, n) /\ Is(U[n], new)
  BY <1>4, <1>9
<1> QED
  BY <1>1, <1>10 DEF Upserted

-----------------------------------------------------------------------------
(* What is in a cache.                                                      *)

\* The credentials of a cache, as a set.
FoundIn(cache) == {cache.credentials[i] : i \in DOMAIN cache.credentials}

\* A credential is a setting, or one that somebody had.
Known(version, c, known) ==
    is_config_credential(c) \/ c \in {StoredCredential(version, x) : x \in known}
AllKnown(cache, known) ==
    \A i \in DOMAIN cache.credentials : Known(cache.version, cache.credentials[i], known)

\* Cells of a cache with known credentials, and with some content.
Intact(cells, known) == \E cache \in NormalCaches : cells = to_bytes(cache) /\ AllKnown(cache, known)
Represents(cells, content) ==
    \E cache \in NormalCaches :
        cells = to_bytes(cache) /\ OneSetting(cache) /\ CacheContent(cache) = content

\* A configuration entry is stored as one.
LEMMA StoredConfig ==
    ASSUME NEW version \in 1 .. 4, NEW c \in CredentialRecords
    PROVE  is_config_credential(StoredCredential(version, c)) <=> is_config_credential(c)
<1>1. PICK d : d = StoredCredential(version, c)
  OBVIOUS
<1>2. c.server \in Principals
  BY DEF CredentialRecords
<1>3. d.server.realm = c.server.realm /\ d.server.names = c.server.names
  BY <1>1, <1>2, StoredCredentialFacts, StoredPrincipal
<1>4. is_config_credential(d) <=> is_config_credential(c)
  BY <1>3 DEF is_config_credential
<1> QED
  BY <1>1, <1>4

\* A cache without credentials of a client but settings, those of a client
\* behind them, as it is stored.
Added(cache, base, list) ==
    /\ cache \in NormalCaches /\ cache.version = base.version
    /\ cache.default = Stored(base.version, base.default)
    /\ Len(cache.credentials) = Len(base.credentials) + Len(list)
    /\ \A k \in 1 .. Len(base.credentials) : cache.credentials[k] = base.credentials[k]
    /\ \A k \in 1 .. Len(list) :
            cache.credentials[Len(base.credentials) + k] = StoredCredential(base.version, list[k])

\* Upserts of a client's sessions, into a cache without tickets of that client,
\* append them all.
LEMMA AddedFacts ==
    ASSUME NEW base \in Caches, FieldsFit(base), base.credentials \in Seq(StoredCredentials(base.version)),
           NEW list, NEW client, NewList(list, client),
           \A k \in 1 .. Len(base.credentials) :
                \/ ~ same_principal_identity(base.credentials[k].client, client)
                \/ is_config_credential(base.credentials[k])
    PROVE  /\ Added(StoredCache(Upserted(base, list)), base, list)
           /\ to_bytes(StoredCache(Upserted(base, list))) = to_bytes(Upserted(base, list))
<1>1. PICK new : /\ Grown(new, base.credentials, list, Len(list))
                 /\ Upserted(base, list) = [version |-> base.version, fields |-> base.fields,
                                            default |-> base.default, credentials |-> new]
  BY UpsertedAppends
<1>2. PICK r, s, v, b, n : /\ r = Upserted(base, list) /\ s = StoredCache(r) /\ v = base.version
                           /\ b = Len(base.credentials) /\ n = Len(list)
  OBVIOUS
<1>3. /\ r.version = v /\ r.fields = base.fields /\ r.default = base.default /\ r.credentials = new
  BY <1>1, <1>2
<1>4. /\ v \in 1 .. 4 /\ base.fields \in Seq(Int \X Int) /\ base.default \in Principals
      /\ base.credentials \in Seq(CredentialRecords)
  BY <1>2 DEF Caches
<1>5. list \in Seq(CredentialRecords)
  BY DEF NewList
<1>6. b \in Nat /\ n \in Nat
  BY <1>2, <1>4, <1>5
<1>7. /\ new \in Seq(CredentialRecords) /\ Len(new) = b + n
      /\ \A k \in 1 .. b : new[k] = base.credentials[k]
      /\ \A k \in 1 .. n : new[b + k] = list[k]
  BY <1>1, <1>2 DEF Grown
<1>8. r \in Caches
  BY <1>1, <1>2, <1>4, <1>7 DEF Caches
<1>9. FieldsFit(r)
  BY <1>2, <1>3 DEF FieldsFit
<1>10. /\ s \in NormalCaches /\ to_bytes(s) = to_bytes(r)
       /\ s.version = v /\ s.default = Stored(v, base.default)
       /\ DOMAIN s.credentials = DOMAIN new
       /\ \A i \in DOMAIN new : s.credentials[i] = StoredCredential(v, new[i])
  BY <1>2, <1>3, <1>8, <1>9, StoredCacheFacts
<1>11. s.credentials \in Seq(StoredCredentials(v))
  BY <1>10, NormalTypes
<1>12. Len(s.credentials) = b + n /\ DOMAIN new = 1 .. b + n
  <2>1. DOMAIN new = 1 .. b + n
    BY <1>7
  <2>2. PICK l : l = s.credentials
    OBVIOUS
  <2>3. l \in Seq(StoredCredentials(v)) /\ DOMAIN l = 1 .. b + n /\ b + n \in Nat
    BY <1>6, <1>10, <1>11, <2>1, <2>2
  <2>4. Len(l) = b + n
    BY ONLY <2>3
  <2> QED
    BY <2>1, <2>2, <2>4
<1>13. ASSUME NEW k \in 1 .. b PROVE s.credentials[k] = base.credentials[k]
  <2>1. k \in 1 .. b + n
    BY <1>6
  <2>2. base.credentials[k] \in StoredCredentials(v)
    BY <1>2
  <2>3. StoredCredential(v, base.credentials[k]) = base.credentials[k]
    BY ONLY <1>4, <2>2, StoredIsSame
  <2> QED
    BY <1>7, <1>10, <1>12, <2>1, <2>3
<1>14. ASSUME NEW k \in 1 .. n PROVE s.credentials[b + k] = StoredCredential(v, list[k])
  <2>1. b + k \in 1 .. b + n
    BY <1>6
  <2> QED
    BY <1>7, <1>10, <1>12, <2>1
<1>15. Added(s, base, list)
  BY <1>2, <1>10, <1>12, <1>13, <1>14 DEF Added
<1> QED
  BY <1>2, <1>10, <1>15

SettingsIn(cache) == {c \in FoundIn(cache) : is_config_credential(c)}
TicketsIn(cache) == {c \in FoundIn(cache) : ~ is_config_credential(c)}

\* The content of a cache: its tickets and its settings.
LEMMA ContentIs ==
    ASSUME NEW cache
    PROVE  CacheContent(cache) = [version |-> cache.version, default |-> cache.default,
                                  entries |-> TicketsIn(cache), conf |-> SettingsIn(cache)]
<1>1. FoundIn(cache) \ SettingsIn(cache) = TicketsIn(cache)
  BY DEF SettingsIn, TicketsIn
<1> QED
  BY <1>1 DEF CacheContent, SettingsIn, FoundIn

\* The places of a cache that credentials were added to.
LEMMA AddedPlaces ==
    ASSUME NEW base \in Caches, NEW list \in Seq(CredentialRecords), NEW cache, Added(cache, base, list)
    PROVE  \A i \in DOMAIN cache.credentials :
              \/ i \in DOMAIN base.credentials /\ cache.credentials[i] = base.credentials[i]
              \/ \E k \in 1 .. Len(list) : i = Len(base.credentials) + k
                                           /\ cache.credentials[i] = StoredCredential(base.version, list[k])
<1>1. PICK b, n, l : b = Len(base.credentials) /\ n = Len(list) /\ l = cache.credentials
  OBVIOUS
<1>2. b \in Nat /\ n \in Nat /\ DOMAIN base.credentials = 1 .. b
  BY <1>1 DEF Caches
<1>3. /\ cache \in NormalCaches /\ Len(l) = b + n
      /\ \A k \in 1 .. b : l[k] = base.credentials[k]
      /\ \A k \in 1 .. n : l[b + k] = StoredCredential(base.version, list[k])
  BY <1>1 DEF Added
<1>4. l \in Seq(StoredCredentials(cache.version))
  BY <1>1, <1>3, NormalTypes
<1>5. DOMAIN l = 1 .. b + n
  BY <1>3, <1>4
<1>6. ASSUME NEW i \in 1 .. b + n
      PROVE  \/ i \in 1 .. b /\ l[i] = base.credentials[i]
             \/ \E k \in 1 .. n : i = b + k /\ l[i] = StoredCredential(base.version, list[k])
  <2>1. CASE i \in 1 .. b
    BY <1>3, <2>1
  <2>2. CASE i \notin 1 .. b
    <3>1. PICK k : k = i - b
      OBVIOUS
    <3>2. k \in 1 .. n /\ i = b + k
      BY <1>2, <2>2, <3>1
    <3> QED
      BY <1>3, <3>2
  <2> QED
    BY <2>1, <2>2
<1> QED
  BY <1>1, <1>2, <1>5, <1>6

\* Added credentials are known ones.
LEMMA AddedKnown ==
    ASSUME NEW base \in Caches, NEW list \in Seq(CredentialRecords), NEW cache, Added(cache, base, list),
           NEW known, AllKnown(base, known), \A k \in 1 .. Len(list) : list[k] \in known
    PROVE  AllKnown(cache, known)
<1>1. PICK v : v = base.version
  OBVIOUS
<1>2. cache.version = v
  BY <1>1 DEF Added
<1>3. \A i \in DOMAIN base.credentials : Known(v, base.credentials[i], known)
  BY <1>1 DEF AllKnown
<1>4. \A k \in 1 .. Len(list) : Known(v, StoredCredential(v, list[k]), known)
  BY DEF Known
<1>5. ASSUME NEW i \in DOMAIN cache.credentials PROVE Known(v, cache.credentials[i], known)
  <2>1. \/ i \in DOMAIN base.credentials /\ cache.credentials[i] = base.credentials[i]
        \/ \E k \in 1 .. Len(list) : cache.credentials[i] = StoredCredential(v, list[k])
    BY <1>1, AddedPlaces
  <2> QED
    BY <1>3, <1>4, <2>1
<1> QED
  BY <1>2, <1>5 DEF AllKnown

\* Which credentials are in the cache after that.
LEMMA AddedFound ==
    ASSUME NEW base \in Caches, NEW list \in Seq(CredentialRecords), NEW cache, Added(cache, base, list)
    PROVE  FoundIn(cache) = FoundIn(base) \cup {StoredCredential(base.version, list[k]) : k \in 1 .. Len(list)}
<1>1. PICK b, n, l, v : b = Len(base.credentials) /\ n = Len(list) /\ l = cache.credentials /\ v = base.version
  OBVIOUS
<1>2. b \in Nat /\ n \in Nat /\ DOMAIN base.credentials = 1 .. b
  BY <1>1 DEF Caches
<1>3. /\ cache \in NormalCaches /\ Len(l) = b + n
      /\ \A k \in 1 .. b : l[k] = base.credentials[k]
      /\ \A k \in 1 .. n : l[b + k] = StoredCredential(v, list[k])
  BY <1>1 DEF Added
<1>4. l \in Seq(StoredCredentials(cache.version))
  BY <1>1, <1>3, NormalTypes
<1>5. DOMAIN l = 1 .. b + n
  BY <1>3, <1>4
<1>6. ASSUME NEW c \in FoundIn(cache)
      PROVE  c \in FoundIn(base) \/ c \in {StoredCredential(v, list[k]) : k \in 1 .. n}
  <2>1. PICK i \in DOMAIN cache.credentials : c = cache.credentials[i]
    BY DEF FoundIn
  <2>2. \/ i \in DOMAIN base.credentials /\ c = base.credentials[i]
        \/ \E k \in 1 .. n : c = StoredCredential(v, list[k])
    BY <1>1, <2>1, AddedPlaces
  <2> QED
    BY <2>2 DEF FoundIn
<1>7. ASSUME NEW c \in FoundIn(base) PROVE c \in FoundIn(cache)
  <2>1. PICK i \in 1 .. b : c = base.credentials[i]
    BY <1>2 DEF FoundIn
  <2>2. i \in 1 .. b + n
    BY <1>2
  <2> QED
    BY <1>1, <1>3, <1>5, <2>1, <2>2 DEF FoundIn
<1>8. ASSUME NEW k \in 1 .. n PROVE StoredCredential(v, list[k]) \in FoundIn(cache)
  <2>1. b + k \in 1 .. b + n
    BY <1>2
  <2> QED
    BY <1>1, <1>3, <1>5, <2>1 DEF FoundIn
<1> QED
  BY <1>1, <1>6, <1>7, <1>8

\* Tickets and settings after that: no setting is touched.
LEMMA AddedContent ==
    ASSUME NEW base \in Caches, NEW list, NEW client, NewList(list, client), NEW cache, Added(cache, base, list)
    PROVE  /\ SettingsIn(cache) = SettingsIn(base)
           /\ TicketsIn(cache) = TicketsIn(base)
                    \cup {StoredCredential(base.version, list[k]) : k \in 1 .. Len(list)}
           /\ OneSetting(base) => OneSetting(cache)
<1>1. PICK v, n, new : v = base.version /\ n = Len(list) /\ new = {StoredCredential(v, list[k]) : k \in 1 .. n}
  OBVIOUS
<1>2. list \in Seq(CredentialRecords) /\ v \in 1 .. 4
  BY <1>1 DEF NewList, Caches
<1>3. ASSUME NEW k \in 1 .. n PROVE ~ is_config_credential(StoredCredential(v, list[k]))
  <2>1. list[k] \in CredentialRecords /\ ~ is_config_credential(list[k])
    BY <1>1, <1>2 DEF NewList
  <2> QED
    BY <1>2, <2>1, StoredConfig
<1>4. \A c \in new : ~ is_config_credential(c)
  BY <1>1, <1>3
<1>5. FoundIn(cache) = FoundIn(base) \cup new
  BY <1>1, <1>2, AddedFound
<1>6. SettingsIn(cache) = SettingsIn(base) /\ TicketsIn(cache) = TicketsIn(base) \cup new
  BY <1>4, <1>5 DEF SettingsIn, TicketsIn
<1>7. ASSUME OneSetting(base) PROVE OneSetting(cache)
  <2>1. ASSUME NEW i \in DOMAIN cache.credentials, is_config_credential(cache.credentials[i])
        PROVE  i \in DOMAIN base.credentials /\ cache.credentials[i] = base.credentials[i]
    <3>1. \/ i \in DOMAIN base.credentials /\ cache.credentials[i] = base.credentials[i]
          \/ \E k \in 1 .. n : cache.credentials[i] = StoredCredential(v, list[k])
      BY <1>1, <1>2, AddedPlaces
    <3> QED
      BY <1>3, <2>1, <3>1
  <2>2. ASSUME NEW i \in DOMAIN cache.credentials, NEW j \in DOMAIN cache.credentials,
               is_config_credential(cache.credentials[i]),
               cache.credentials[i].client = cache.credentials[j].client,
               cache.credentials[i].server = cache.credentials[j].server
        PROVE  i = j
    <3>1. is_config_credential(cache.credentials[j])
      BY <2>2 DEF is_config_credential
    <3> QED
      BY <1>7, <2>1, <2>2, <3>1 DEF OneSetting
  <2> QED
    BY <2>2 DEF OneSetting
<1> QED
  BY <1>1, <1>6, <1>7

-----------------------------------------------------------------------------
(* The operations on a cache.                                               *)

\* A new cache is of version 4 and empty.
LEMMA NewCacheFacts ==
    ASSUME NEW client \in Principals
    PROVE  /\ NewCache(client) \in NormalCaches /\ NewCache(client).version = 4
           /\ NewCache(client).default = client /\ NewCache(client).credentials = <<>>
<1>1. PICK c, none : c = NewCache(client) /\ none = <<>>
  OBVIOUS
<1>2. c = [version |-> 4, fields |-> none, default |-> client, credentials |-> none]
  BY <1>1 DEF NewCache
<1>3. 4 \in 1 .. 4 /\ Len(none) = 0 /\ \A S : none \in Seq(S)
  BY <1>1
<1>4. /\ c.version = 4 /\ c.fields = none /\ c.default = client /\ c.credentials = none
  BY ONLY <1>2
<1>5. c \in Caches
  BY ONLY <1>2, <1>3, client \in Principals DEF Caches
<1>6. FieldsFit(c)
  BY <1>3, <1>4 DEF FieldsFit
<1>7. client \in StoredPrincipals(4)
  BY DEF StoredPrincipals, Stored
<1> QED
  BY <1>1, <1>3, <1>4, <1>5, <1>6, <1>7 DEF NormalCaches

\* Version 4 stores a credential as it is.
LEMMA StoredFour ==
    ASSUME NEW c \in CredentialRecords
    PROVE  StoredCredential(4, c) = c
<1>1. c.client \in StoredPrincipals(4) /\ c.server \in StoredPrincipals(4)
  BY DEF StoredPrincipals, Stored, CredentialRecords
<1>2. c \in StoredCredentials(4) /\ 4 \in 1 .. 4
  BY <1>1 DEF StoredCredentials
<1> QED
  BY ONLY <1>2, StoredIsSame

\* What save_ccache writes.
LEMMA SaveFacts ==
    ASSUME NEW client \in Principals, NEW sessions, GoodSessions(sessions, client),
           NEW credentials, credentials = {to_ccache_credential(s) : s \in sessions}
    PROVE  LET cells == to_bytes(to_ccache(client, sessions))
           IN  /\ Represents(cells, [version |-> 4, default |-> client, entries |-> credentials, conf |-> {}])
               /\ \A known : credentials \subseteq known => Intact(cells, known)
<1>1. PICK list, base, cache, n : /\ list = ccache_credentials(sessions) /\ base = NewCache(client)
                                  /\ cache = StoredCache(Upserted(base, list)) /\ n = Len(list)
  OBVIOUS
<1>2. NewList(list, client) /\ {list[i] : i \in 1 .. n} = credentials
  BY <1>1, CredentialList
<1>3. /\ base \in Caches /\ FieldsFit(base) /\ base.version = 4 /\ base.default = client
      /\ base.credentials = <<>> /\ base.credentials \in Seq(StoredCredentials(base.version))
  BY <1>1, NewCacheFacts, NormalTypes
<1>4. Len(base.credentials) = 0 /\ DOMAIN base.credentials = {}
  BY <1>3
<1>5. \A k \in 1 .. Len(base.credentials) :
         \/ ~ same_principal_identity(base.credentials[k].client, client)
         \/ is_config_credential(base.credentials[k])
  BY <1>4
<1>6. Added(cache, base, list) /\ to_bytes(cache) = to_bytes(to_ccache(client, sessions))
  BY <1>1, <1>2, <1>3, <1>5, AddedFacts DEF to_ccache
<1>7. list \in Seq(CredentialRecords)
  BY <1>2 DEF NewList
<1>8. /\ SettingsIn(cache) = SettingsIn(base)
      /\ TicketsIn(cache) = TicketsIn(base) \cup {StoredCredential(4, list[k]) : k \in 1 .. n}
      /\ OneSetting(base) => OneSetting(cache)
  BY <1>1, <1>2, <1>3, <1>6, AddedContent
<1>9. SettingsIn(base) = {} /\ TicketsIn(base) = {} /\ OneSetting(base) /\ \A known : AllKnown(base, known)
  BY <1>4 DEF SettingsIn, TicketsIn, FoundIn, OneSetting, AllKnown
<1>10. \A k \in 1 .. n : StoredCredential(4, list[k]) = list[k]
  BY <1>1, <1>7, StoredFour
<1>11. TicketsIn(cache) = credentials
  BY <1>2, <1>8, <1>9, <1>10
<1>12. cache \in NormalCaches /\ cache.version = 4 /\ cache.default = client
  <2>1. cache \in NormalCaches /\ cache.version = 4 /\ cache.default = Stored(4, client)
    BY <1>3, <1>6 DEF Added
  <2>2. Stored(4, client) = client
    BY DEF Stored
  <2> QED
    BY <2>1, <2>2
<1>13. CacheContent(cache) = [version |-> 4, default |-> client, entries |-> credentials, conf |-> {}]
  BY <1>8, <1>9, <1>11, <1>12, ContentIs
<1>14. Represents(to_bytes(cache), [version |-> 4, default |-> client, entries |-> credentials, conf |-> {}])
  BY <1>8, <1>9, <1>12, <1>13 DEF Represents
<1>15. ASSUME NEW known, credentials \subseteq known PROVE Intact(to_bytes(cache), known)
  <2>1. \A k \in 1 .. Len(list) : list[k] \in known
    BY <1>1, <1>2, <1>15
  <2>2. AllKnown(cache, known)
    BY <1>3, <1>6, <1>7, <1>9, <2>1, AddedKnown
  <2> QED
    BY <1>12, <2>2 DEF Intact
<1> QED
  BY <1>6, <1>14, <1>15

\* remove_entries_for_client keeps the tickets of others and the settings.
Without(base, cache, client) ==
    /\ base \in Caches /\ FieldsFit(base) /\ base.version = cache.version /\ base.default = client
    /\ base.credentials \in Seq(StoredCredentials(base.version))
    /\ \A k \in 1 .. Len(base.credentials) :
            \/ ~ same_principal_identity(base.credentials[k].client, client)
            \/ is_config_credential(base.credentials[k])
    /\ SettingsIn(base) = SettingsIn(cache)
    /\ TicketsIn(base) = {c \in TicketsIn(cache) : ~ same_principal_identity(c.client, client)}
    /\ OneSetting(cache) => OneSetting(base)
    /\ \A known : AllKnown(cache, known) => AllKnown(base, known)

\* remove_entries_for_client drops the tickets of the client, and nothing else.
LEMMA RemovedFacts ==
    ASSUME NEW cache \in NormalCaches, NEW client \in Principals
    PROVE  Without(remove_entries_for_client([cache EXCEPT !.default = client], client), cache, client)
<1> DEFINE Stays(c) == ~ same_principal_identity(c.client, client) \/ is_config_credential(c)
<1>1. PICK v, f, l, x, base : /\ v = cache.version /\ f = cache.fields /\ l = cache.credentials
                              /\ x = [cache EXCEPT !.default = client]
                              /\ base = remove_entries_for_client(x, client)
  OBVIOUS
<1>2. /\ cache = [version |-> v, fields |-> f, default |-> cache.default, credentials |-> l]
      /\ v \in 1 .. 4 /\ FieldsFit(cache) /\ l \in Seq(StoredCredentials(v)) /\ f \in Seq(Int \X Int)
  BY <1>1, NormalTypes DEF Caches
<1>3. x = [version |-> v, fields |-> f, default |-> client, credentials |-> l]
  <2>1. PICK d : d = cache.default
    OBVIOUS
  <2>2. cache = [version |-> v, fields |-> f, default |-> d, credentials |-> l]
    BY <1>2, <2>1
  <2> QED
    BY ONLY <1>1, <2>2
<1>4. PICK places, kept : places = {i \in DOMAIN l : Stays(l[i])} /\ kept = Retained(l, places)
  OBVIOUS
<1>5. base = [version |-> v, fields |-> f, default |-> client, credentials |-> kept]
  <2>1. x.credentials = l
    BY ONLY <1>3
  <2>2. base = [x EXCEPT !.credentials = kept]
    BY <1>1, <1>4, <2>1 DEF remove_entries_for_client
  <2> QED
    BY ONLY <1>3, <2>2
<1>6. kept \in Seq(StoredCredentials(v)) /\ \E h : KeptFrom(kept, l, places, Len(l), h)
  BY <1>2, <1>4, KeptPlaces
<1>7. PICK h : KeptFrom(kept, l, places, Len(l), h)
  BY <1>6
<1>8. PICK m, n : m = Len(kept) /\ n = Len(l)
  OBVIOUS
<1>9. DOMAIN kept = 1 .. m /\ DOMAIN l = 1 .. n
  BY <1>2, <1>6, <1>8
<1>10. /\ \A i \in 1 .. m : h[i] \in 1 .. n /\ Stays(l[h[i]]) /\ kept[i] = l[h[i]]
       /\ \A i, j \in 1 .. m : h[i] = h[j] => i = j
       /\ \A k \in 1 .. n : Stays(l[k]) => \E i \in 1 .. m : h[i] = k
  BY <1>4, <1>7, <1>8, <1>9 DEF KeptFrom
<1>11. /\ base.version = v /\ base.fields = f /\ base.default = client /\ base.credentials = kept
  BY ONLY <1>5
<1>12. base \in Caches
  <2>1. kept \in Seq(CredentialRecords)
    <3>1. \A S, T, s : S \subseteq T /\ s \in Seq(S) => s \in Seq(T)
      OBVIOUS
    <3>2. StoredCredentials(v) \subseteq CredentialRecords
      BY DEF StoredCredentials
    <3> QED
      BY ONLY <1>6, <3>1, <3>2
  <2> QED
    BY ONLY <1>2, <1>5, <2>1, client \in Principals DEF Caches
<1>13. FieldsFit(base)
  BY <1>1, <1>2, <1>11 DEF FieldsFit
<1>14. FoundIn(base) = {c \in FoundIn(cache) : Stays(c)}
  <2>1. ASSUME NEW c \in FoundIn(base) PROVE c \in FoundIn(cache) /\ Stays(c)
    <3>1. PICK i \in 1 .. m : c = kept[i]
      BY <1>9, <1>11 DEF FoundIn
    <3> QED
      BY <1>1, <1>9, <1>10, <3>1 DEF FoundIn
  <2>2. ASSUME NEW c \in FoundIn(cache), Stays(c) PROVE c \in FoundIn(base)
    <3>1. PICK k \in 1 .. n : c = l[k]
      BY <1>1, <1>9 DEF FoundIn
    <3>2. PICK i \in 1 .. m : h[i] = k
      BY <1>10, <2>2, <3>1
    <3> QED
      BY <1>9, <1>10, <1>11, <3>1, <3>2 DEF FoundIn
  <2> QED
    BY <2>1, <2>2
<1>15. ASSUME OneSetting(cache) PROVE OneSetting(base)
  <2>1. ASSUME NEW i \in 1 .. m, NEW j \in 1 .. m, is_config_credential(kept[i]),
               kept[i].client = kept[j].client, kept[i].server = kept[j].server
        PROVE  i = j
    <3>1. h[i] = h[j]
      BY <1>1, <1>9, <1>10, <1>15, <2>1 DEF OneSetting
    <3> QED
      BY <1>10, <3>1
  <2> QED
    BY <1>9, <1>11, <2>1 DEF OneSetting
<1>16. ASSUME NEW known, AllKnown(cache, known) PROVE AllKnown(base, known)
  <2>1. \A k \in 1 .. n : Known(v, l[k], known)
    BY <1>1, <1>9, <1>16 DEF AllKnown
  <2>2. \A i \in 1 .. m : Known(v, kept[i], known)
    BY <1>10, <2>1
  <2> QED
    BY <1>9, <1>11, <2>2 DEF AllKnown
<1>17. \A k \in 1 .. Len(kept) : Stays(kept[k])
  BY <1>8, <1>10
<1>18. /\ SettingsIn(base) = SettingsIn(cache)
       /\ TicketsIn(base) = {c \in TicketsIn(cache) : ~ same_principal_identity(c.client, client)}
  BY <1>14 DEF SettingsIn, TicketsIn
<1>19. Without(base, cache, client)
  BY <1>1, <1>6, <1>11, <1>12, <1>13, <1>15, <1>16, <1>17, <1>18 DEF Without
<1> QED
  BY <1>1, <1>19

\* What update_ccache_file writes.
LEMMA UpdateFacts ==
    ASSUME NEW cache \in NormalCaches, NEW client \in Principals, NEW sessions, GoodSessions(sessions, client),
           NEW credentials, credentials = {to_ccache_credential(s) : s \in sessions}
    PROVE  LET cells == to_bytes(update_ccache(cache, client, sessions))
           IN  /\ OneSetting(cache) =>
                     Represents(cells, [version |-> cache.version, default |-> Stored(cache.version, client),
                        entries |-> {c \in TicketsIn(cache) : ~ same_principal_identity(c.client, client)}
                                    \cup {StoredCredential(cache.version, c) : c \in credentials},
                        conf |-> SettingsIn(cache)])
               /\ \A known : credentials \subseteq known /\ AllKnown(cache, known) => Intact(cells, known)
<1>1. PICK list, base, new, n, v : /\ list = ccache_credentials(sessions)
                                   /\ base = remove_entries_for_client([cache EXCEPT !.default = client], client)
                                   /\ new = StoredCache(Upserted(base, list)) /\ n = Len(list) /\ v = cache.version
  OBVIOUS
<1>2. NewList(list, client) /\ {list[i] : i \in 1 .. n} = credentials
  BY <1>1, CredentialList
<1>3. Without(base, cache, client)
  BY <1>1, RemovedFacts
<1>4. /\ base \in Caches /\ FieldsFit(base) /\ base.version = v /\ base.default = client
      /\ base.credentials \in Seq(StoredCredentials(base.version))
      /\ \A k \in 1 .. Len(base.credentials) :
            \/ ~ same_principal_identity(base.credentials[k].client, client)
            \/ is_config_credential(base.credentials[k])
  BY <1>1, <1>3 DEF Without
<1>5. Added(new, base, list) /\ to_bytes(new) = to_bytes(update_ccache(cache, client, sessions))
  BY <1>1, <1>2, <1>4, AddedFacts DEF update_ccache
<1>6. list \in Seq(CredentialRecords)
  BY <1>2 DEF NewList
<1>7. /\ SettingsIn(new) = SettingsIn(base)
      /\ TicketsIn(new) = TicketsIn(base) \cup {StoredCredential(v, list[k]) : k \in 1 .. n}
      /\ OneSetting(base) => OneSetting(new)
  BY <1>1, <1>2, <1>4, <1>5, AddedContent
<1>8. {StoredCredential(v, list[k]) : k \in 1 .. n} = {StoredCredential(v, c) : c \in credentials}
  BY <1>2
<1>9. new \in NormalCaches /\ new.version = v /\ new.default = Stored(v, client)
  BY <1>4, <1>5 DEF Added
<1>10. ASSUME OneSetting(cache)
       PROVE  Represents(to_bytes(new), [version |-> v, default |-> Stored(v, client),
                        entries |-> {c \in TicketsIn(cache) : ~ same_principal_identity(c.client, client)}
                                    \cup {StoredCredential(v, c) : c \in credentials},
                        conf |-> SettingsIn(cache)])
  <2>1. OneSetting(new)
    BY <1>3, <1>7, <1>10 DEF Without
  <2>2. SettingsIn(new) = SettingsIn(cache)
    BY <1>3, <1>7 DEF Without
  <2>3. TicketsIn(new) = {c \in TicketsIn(cache) : ~ same_principal_identity(c.client, client)}
                         \cup {StoredCredential(v, c) : c \in credentials}
    BY <1>3, <1>7, <1>8 DEF Without
  <2>4. CacheContent(new) = [version |-> v, default |-> Stored(v, client),
                entries |-> {c \in TicketsIn(cache) : ~ same_principal_identity(c.client, client)}
                            \cup {StoredCredential(v, c) : c \in credentials},
                conf |-> SettingsIn(cache)]
    BY <1>9, <2>2, <2>3, ContentIs
  <2> QED
    BY <1>9, <2>1, <2>4 DEF Represents
<1>11. ASSUME NEW known, credentials \subseteq known, AllKnown(cache, known) PROVE Intact(to_bytes(new), known)
  <2>1. \A k \in 1 .. Len(list) : list[k] \in known
    BY <1>1, <1>2, <1>11
  <2>2. AllKnown(base, known)
    BY <1>3, <1>11 DEF Without
  <2>3. AllKnown(new, known)
    BY <1>4, <1>5, <1>6, <2>1, <2>2, AddedKnown
  <2> QED
    BY <1>9, <2>3 DEF Intact
<1> QED
  BY <1>1, <1>5, <1>10, <1>11

\* The credential that stands for a configuration entry.
LEMMA ConfigEntry ==
    ASSUME NEW version \in 1 .. 4, NEW client \in StoredPrincipals(version), NEW value \in Int
    PROVE  LET entry == config_entry(client, ConfigKey, <<>>, value)
           IN  /\ entry \in StoredCredentials(version) /\ is_config_credential(entry)
               /\ entry.client = client /\ entry.ticket = value
               /\ Tail(entry.server.names) = <<ConfigKey>>
<1>1. PICK names, none : /\ names = <<X_CACHECONF_COMPONENT, ConfigKey>> \o <<>> /\ none = <<>>
  OBVIOUS
<1>2. X_CACHECONF_REALM \in Text /\ X_CACHECONF_COMPONENT \in Text /\ ConfigKey \in Text
  BY InputAssumption DEF Text
<1>3. /\ names \in Seq(Text) /\ Len(names) = 2 /\ names[1] = X_CACHECONF_COMPONENT
      /\ Tail(names) = <<ConfigKey>>
  <2>1. names = <<X_CACHECONF_COMPONENT, ConfigKey>>
    BY <1>1
  <2> QED
    BY ONLY <1>2, <2>1
<1>4. PICK server : server = [realm |-> X_CACHECONF_REALM, type |-> 0, names |-> names]
  OBVIOUS
<1>5. server \in Principals
  BY <1>2, <1>3, <1>4 DEF Principals
<1>6. server \in StoredPrincipals(version)
  <2>1. [server EXCEPT !.type = 0] = server
    BY ONLY <1>4
  <2> QED
    BY <1>5, <2>1 DEF StoredPrincipals, Stored
<1>7. PICK entry, times : entry = config_entry(client, ConfigKey, <<>>, value) /\ times = <<0, 0, 0, 0>>
  OBVIOUS
<1>8. times \in [1 .. 4 -> Int] /\ \A S : none \in Seq(S)
  BY <1>1, <1>7
<1>9. entry = [client |-> client, server |-> server, etype |-> 0, key |-> 0, times |-> times, skey |-> 0,
               flags |-> 0, addresses |-> none, auth_data |-> none, ticket |-> value, second |-> 0]
  BY <1>1, <1>4, <1>7 DEF config_entry
<1>10. client \in Principals /\ 0 \in Int /\ value \in Int
  BY DEF StoredPrincipals
<1>11. entry \in CredentialRecords
  BY ONLY <1>5, <1>8, <1>9, <1>10 DEF CredentialRecords
<1>12. entry.client = client /\ entry.server = server /\ entry.ticket = value
  BY ONLY <1>9
<1>13. entry \in StoredCredentials(version)
  BY <1>6, <1>11, <1>12 DEF StoredCredentials
<1>14. server.realm = X_CACHECONF_REALM /\ server.names = names
  BY ONLY <1>4
<1>15. is_config_credential(entry)
  BY <1>3, <1>12, <1>14 DEF is_config_credential
<1> QED
  BY <1>3, <1>7, <1>12, <1>13, <1>14, <1>15

\* What a list has after a credential was put there.
PutAt(list, c, new, at) ==
    /\ at \in DOMAIN new /\ new[at] = c /\ DOMAIN new = DOMAIN list \cup {at}
    /\ \A i \in DOMAIN new : i # at => i \in DOMAIN list /\ new[i] = list[i]
    /\ at \in DOMAIN list => at \in Same(list, c)
    /\ at \notin DOMAIN list => Same(list, c) = {}

\* Where upsert_credential put the entry.
LEMMA PutFound ==
    ASSUME NEW S, NEW list \in Seq(S), NEW c \in S, NEW new, Put(list, c, new)
    PROVE  new \in Seq(S) /\ \E at : PutAt(list, c, new, at)
<1>1. CASE Same(list, c) = {} /\ new = Append(list, c)
  <2>1. PICK n : n = Len(list)
    OBVIOUS
  <2>2. n \in Nat /\ DOMAIN list = 1 .. n
    BY <2>1
  <2>3. new \in Seq(S) /\ DOMAIN new = 1 .. n + 1 /\ new[n + 1] = c /\ \A i \in 1 .. n : new[i] = list[i]
    BY <1>1, <2>1, <2>2
  <2>4. n + 1 \in 1 .. n + 1 /\ n + 1 \notin 1 .. n /\ 1 .. n + 1 = (1 .. n) \cup {n + 1}
    BY <2>2
  <2> QED
    BY <1>1, <2>2, <2>3, <2>4 DEF PutAt
<1>2. ASSUME NEW at \in Same(list, c), new = [list EXCEPT ![at] = c]
      PROVE  new \in Seq(S) /\ PutAt(list, c, new, at)
  <2>1. at \in DOMAIN list
    BY DEF Same
  <2>2. new \in Seq(S) /\ DOMAIN new = DOMAIN list
    BY <1>2, <2>1
  <2>3. DOMAIN list = DOMAIN list \cup {at}
    BY <2>1
  <2> QED
    BY <1>2, <2>1, <2>2, <2>3 DEF PutAt
<1> QED
  BY <1>1, <1>2 DEF Put

\* What is written after a value was set.
LEMMA ConfigFacts ==
    ASSUME NEW cache \in NormalCaches, NEW value \in Int,
           NEW entry, entry = config_entry(cache.default, ConfigKey, <<>>, value)
    PROVE  LET cells == to_bytes(upsert_config_entry(cache, ConfigKey, <<>>, value))
           IN  /\ OneSetting(cache) =>
                     Represents(cells, [version |-> cache.version, default |-> cache.default,
                        entries |-> TicketsIn(cache),
                        conf |-> {entry} \cup {x \in SettingsIn(cache) :
                                                  x.client # entry.client \/ x.server # entry.server}])
               /\ \A known : AllKnown(cache, known) => Intact(cells, known)
<1>1. PICK v, d, f, l : v = cache.version /\ d = cache.default /\ f = cache.fields /\ l = cache.credentials
  OBVIOUS
<1>2. /\ cache = [version |-> v, fields |-> f, default |-> d, credentials |-> l] /\ v \in 1 .. 4
      /\ cache \in Caches /\ FieldsFit(cache) /\ d \in StoredPrincipals(v) /\ l \in Seq(StoredCredentials(v))
  BY <1>1, NormalTypes
<1>3. f \in Seq(Int \X Int) /\ d \in Principals /\ l \in Seq(CredentialRecords)
  BY <1>1, <1>2 DEF Caches
<1>4. entry \in StoredCredentials(v) /\ is_config_credential(entry)
  <2>1. entry = config_entry(d, ConfigKey, <<>>, value)
    BY <1>1
  <2> QED
    BY ONLY <1>2, <2>1, value \in Int, ConfigEntry
<1>5. entry \in CredentialRecords
  BY <1>4 DEF StoredCredentials
<1>6. PICK new : new = upsert_credential(cache, entry)
  OBVIOUS
<1>7. new = upsert_config_entry(cache, ConfigKey, <<>>, value)
  BY <1>6 DEF upsert_config_entry
<1>8. PICK list : Put(l, entry, list) /\ new = [version |-> v, fields |-> f, default |-> d, credentials |-> list]
  BY <1>1, <1>2, <1>5, <1>6, UpsertFacts
<1>9. new \in Caches
  BY <1>2, <1>5, <1>6, UpsertFacts
<1>10. list \in Seq(StoredCredentials(v)) /\ \E at : PutAt(l, entry, list, at)
  BY ONLY <1>2, <1>4, <1>8, PutFound
<1>11. PICK at : PutAt(l, entry, list, at)
  BY <1>10
<1>12. new.version = v /\ new.fields = f /\ new.default = d /\ new.credentials = list
  BY ONLY <1>8
<1>13. new \in NormalCaches
  <2>1. FieldsFit(new)
    BY <1>1, <1>2, <1>12 DEF FieldsFit
  <2> QED
    BY <1>2, <1>9, <1>10, <1>12, <2>1 DEF NormalCaches
<1>14. ASSUME NEW known, AllKnown(cache, known) PROVE Intact(to_bytes(new), known)
  <2>1. \A i \in DOMAIN l : Known(v, l[i], known)
    BY <1>1, <1>14 DEF AllKnown
  <2>2. Known(v, entry, known)
    BY <1>4 DEF Known
  <2>3. \A i \in DOMAIN list : Known(v, list[i], known)
    BY <1>11, <2>1, <2>2 DEF PutAt
  <2>4. AllKnown(new, known)
    BY <1>12, <2>3 DEF AllKnown
  <2> QED
    BY <1>13, <2>4 DEF Intact
<1>15. ASSUME OneSetting(cache)
       PROVE  Represents(to_bytes(new), [version |-> v, default |-> d, entries |-> TicketsIn(cache),
                        conf |-> {entry} \cup {x \in SettingsIn(cache) :
                                                  x.client # entry.client \/ x.server # entry.server}])
  <2>1. \A i, j \in DOMAIN l : is_config_credential(l[i]) /\ l[i].client = l[j].client /\ l[i].server = l[j].server => i = j
    BY <1>1, <1>15 DEF OneSetting
  <2>2. ASSUME NEW i \in DOMAIN list, i # at
        PROVE  i \in DOMAIN l /\ list[i] = l[i] /\ ~ (l[i].client = entry.client /\ l[i].server = entry.server)
    <3>1. i \in DOMAIN l /\ list[i] = l[i]
      BY <1>11, <2>2 DEF PutAt
    <3>2. ASSUME l[i].client = entry.client, l[i].server = entry.server PROVE FALSE
      <4>1. i \in Same(l, entry)
        BY <3>1, <3>2 DEF Same
      <4>2. at \in DOMAIN l /\ l[at].client = entry.client /\ l[at].server = entry.server
        BY <1>11, <4>1 DEF Same, PutAt
      <4>3. is_config_credential(l[i])
        BY <1>4, <3>2 DEF is_config_credential
      <4> QED
        BY <2>1, <2>2, <3>1, <3>2, <4>2, <4>3
    <3> QED
      BY <3>1, <3>2
  <2>3. ASSUME NEW i \in DOMAIN list, NEW j \in DOMAIN list,
               list[i].client = list[j].client, list[i].server = list[j].server, is_config_credential(list[i])
        PROVE  i = j
    <3>1. CASE i = at
      BY <1>11, <2>2, <2>3, <3>1 DEF PutAt
    <3>2. CASE j = at
      BY <1>11, <2>2, <2>3, <3>2 DEF PutAt
    <3>3. CASE i # at /\ j # at
      BY <2>1, <2>2, <2>3, <3>3
    <3> QED
      BY <3>1, <3>2, <3>3
  <2>4. OneSetting(new)
    BY <1>12, <2>3 DEF OneSetting
  <2>6. FoundIn(new) = {entry} \cup {c \in FoundIn(cache) : c.client # entry.client \/ c.server # entry.server}
    <3>1. ASSUME NEW c \in FoundIn(new)
          PROVE  c = entry \/ (c \in FoundIn(cache) /\ (c.client # entry.client \/ c.server # entry.server))
      <4>1. PICK i \in DOMAIN list : c = list[i]
        BY <1>12 DEF FoundIn
      <4> QED
        BY <1>1, <1>11, <2>2, <4>1 DEF FoundIn, PutAt
    <3>2. entry \in FoundIn(new)
      BY <1>11, <1>12 DEF FoundIn, PutAt
    <3>3. ASSUME NEW c \in FoundIn(cache), c.client # entry.client \/ c.server # entry.server
          PROVE  c \in FoundIn(new)
      <4>1. PICK i \in DOMAIN l : c = l[i]
        BY <1>1 DEF FoundIn
      <4>2. i # at
        BY <1>11, <3>3, <4>1 DEF Same, PutAt
      <4>3. i \in DOMAIN list /\ list[i] = c
        BY <1>11, <4>1, <4>2 DEF PutAt
      <4> QED
        BY <1>12, <4>3 DEF FoundIn
    <3> QED
      BY <3>1, <3>2, <3>3
  <2>7. SettingsIn(new) = {entry} \cup {x \in SettingsIn(cache) : x.client # entry.client \/ x.server # entry.server}
    BY <1>4, <2>6 DEF SettingsIn
  <2>8. \A c \in TicketsIn(cache) : c.server # entry.server
    BY <1>4 DEF TicketsIn, is_config_credential
  <2>9. TicketsIn(new) = TicketsIn(cache)
    BY <1>4, <2>6, <2>8 DEF TicketsIn
  <2>10. CacheContent(new) = [version |-> v, default |-> d, entries |-> TicketsIn(cache),
                        conf |-> {entry} \cup {x \in SettingsIn(cache) :
                                                  x.client # entry.client \/ x.server # entry.server}]
    BY <1>12, <2>7, <2>9, ContentIs
  <2> QED
    BY <1>13, <2>4, <2>10 DEF Represents
<1> QED
  BY <1>1, <1>7, <1>14, <1>15

\* A setting that is the only one of its kind is found.
LEMMA SettingFound ==
    ASSUME NEW cache \in NormalCaches, NEW x,
           {y \in SettingsIn(cache) : Tail(y.server.names) = <<ConfigKey>>} = {x}
    PROVE  config_entry_value(cache, ConfigKey, <<>>, Nil) = x.ticket
<1>1. PICK l, key, places : /\ l = cache.credentials /\ key = <<ConfigKey>> \o <<>>
                            /\ places = {i \in DOMAIN l : is_config_credential(l[i]) /\ Tail(l[i].server.names) = key}
  OBVIOUS
<1>2. key = <<ConfigKey>> /\ l \in Seq(StoredCredentials(cache.version))
  BY <1>1, NormalTypes
<1>3. \A i \in places : l[i] = x
  BY <1>1, <1>2 DEF SettingsIn, FoundIn
<1>4. places # {}
  <2>1. x \in SettingsIn(cache) /\ Tail(x.server.names) = key
    BY <1>2
  <2>2. PICK i \in DOMAIN l : x = l[i]
    BY <1>1, <2>1 DEF SettingsIn, FoundIn
  <2> QED
    BY <1>1, <2>1, <2>2 DEF SettingsIn
<1>5. places \in SUBSET Nat
  BY <1>1, <1>2
<1>6. \E i \in places : \A j \in places : i <= j
  BY ONLY <1>4, <1>5, Least
<1>7. PICK first : first = CHOOSE i \in places : \A j \in places : i <= j
  OBVIOUS
<1>8. first \in places
  BY <1>6, <1>7
<1>9. config_entry_value(cache, ConfigKey, <<>>, Nil) = l[first].ticket
  BY <1>1, <1>4, <1>7 DEF config_entry_value
<1> QED
  BY <1>3, <1>8, <1>9

\* A file of some content is read as that content.
LEMMA RepresentsRead ==
    ASSUME NEW disk, NEW content, Represents(disk, content)
    PROVE  /\ disk \in Seq(Cell) /\ parse(disk).ok /\ CacheContent(parse(disk).value) = content
           /\ content \in Stores
           /\ \A x \in content.conf :
                 {y \in content.conf : Tail(y.server.names) = <<ConfigKey>>} = {x} =>
                 config_entry_value(parse(disk).value, ConfigKey, <<>>, Nil) = x.ticket
<1>1. PICK cache \in NormalCaches : disk = to_bytes(cache) /\ OneSetting(cache) /\ CacheContent(cache) = content
  BY DEF Represents
<1>2. disk \in Seq(Cell) /\ parse(disk) = Value(cache, Len(disk) + 1)
  BY <1>1, CacheReadBack
<1>3. parse(disk).ok /\ parse(disk).value = cache
  BY <1>2, OkResult
<1>4. content = [version |-> cache.version, default |-> cache.default,
                 entries |-> TicketsIn(cache), conf |-> SettingsIn(cache)]
  BY <1>1, ContentIs
<1>5. content.conf = SettingsIn(cache)
  BY <1>4
<1>6. /\ cache.version \in 1 .. 4 /\ cache.default \in Principals
      /\ TicketsIn(cache) \in SUBSET CredentialRecords /\ SettingsIn(cache) \in SUBSET CredentialRecords
  <2>1. cache.version \in 1 .. 4 /\ cache.default \in Principals /\ cache.credentials \in Seq(CredentialRecords)
    BY NormalTypes DEF Caches
  <2>2. \A i \in DOMAIN cache.credentials : cache.credentials[i] \in CredentialRecords
    BY <2>1
  <2> QED
    BY <2>1, <2>2 DEF TicketsIn, SettingsIn, FoundIn
<1>7. content \in Stores
  BY ONLY <1>4, <1>6 DEF Stores
<1> QED
  BY <1>1, <1>2, <1>3, <1>5, <1>7, SettingFound

\* An intact file, and one that was cut off, has known credentials only.
LEMMA IntactRead ==
    ASSUME NEW cells, NEW known, Intact(cells, known), NEW disk \in Seq(Cell),
           disk = cells \/ StopsIn(disk, 1, cells), parse(disk).ok
    PROVE  /\ to_bytes(parse(disk).value) = disk
           /\ parse(disk).value \in NormalCaches
           /\ AllKnown(parse(disk).value, known)
<1>1. PICK cache \in NormalCaches : cells = to_bytes(cache) /\ AllKnown(cache, known)
  BY DEF Intact
<1>2. CASE disk = cells
  <2>1. parse(disk) = Value(cache, Len(disk) + 1)
    BY <1>1, <1>2, CacheReadBack
  <2>2. parse(disk).value = cache
    BY <2>1, OkResult
  <2> QED
    BY <1>1, <1>2, <2>2
<1>3. CASE StopsIn(disk, 1, cells)
  <2>1. PICK k \in 0 .. Len(cache.credentials) :
              parse(disk).value = FirstOf(cache, k) /\ to_bytes(FirstOf(cache, k)) = disk
    BY <1>1, <1>3, CacheCutOff
  <2>2. PICK some, l : some = FirstOf(cache, k) /\ l = cache.credentials
    OBVIOUS
  <2>3. /\ some \in NormalCaches /\ some.version = cache.version /\ some.credentials = SubSeq(l, 1, k)
    BY <2>2, FirstOfFacts
  <2>4. l \in Seq(StoredCredentials(cache.version)) /\ k \in 0 .. Len(l) /\ Len(l) \in Nat
    BY <2>2, NormalTypes
  <2>5. DOMAIN some.credentials = 1 .. k /\ \A i \in 1 .. k : some.credentials[i] = l[i] /\ i \in DOMAIN l
    <3>1. PICK s : s = SubSeq(l, 1, k)
      OBVIOUS
    <3>2. s = [i \in 1 .. k |-> l[i]]
      BY ONLY <2>4, <3>1
    <3>3. \A i \in 1 .. k : i \in 1 .. Len(l)
      BY <2>4
    <3> QED
      BY <2>3, <2>4, <3>1, <3>2, <3>3
  <2>6. \A i \in DOMAIN l : Known(cache.version, l[i], known)
    BY <1>1, <2>2 DEF AllKnown
  <2>7. AllKnown(some, known)
    BY <2>3, <2>5, <2>6 DEF AllKnown
  <2> QED
    BY <2>1, <2>2, <2>3, <2>7
<1> QED
  BY <1>2, <1>3

-----------------------------------------------------------------------------
(* Sessions made from a cache.                                              *)

\* A session is as good as another one: valid if that one is, and no shorter.
Better(x, s) ==
    /\ session_valid(s) => session_valid(x)
    /\ session_valid(s) = session_valid(x) => s.end <= x.end

\* prefer_current decides by an order: valid before invalid, then later before
\* earlier.
LEMMA BetterFacts ==
    ASSUME NEW x \in SessionRecords, NEW s \in SessionRecords
    PROVE  /\ Better(s, s)
           /\ prefer_current(x, s) => Better(x, s)
           /\ ~ prefer_current(x, s) => Better(s, x)
           /\ \A t \in SessionRecords : Better(x, s) /\ Better(s, t) => Better(x, t)
<1>1. \A r \in SessionRecords : r.end \in Int /\ session_valid(r) \in BOOLEAN
  BY DEF SessionRecords, session_valid
<1>2. PICK a, b, v, w : a = x.end /\ b = s.end /\ v = session_valid(x) /\ w = session_valid(s)
  OBVIOUS
<1>3. a \in Int /\ b \in Int /\ v \in BOOLEAN /\ w \in BOOLEAN
  BY <1>1, <1>2
<1>4. Better(s, s)
  BY <1>1 DEF Better
<1>5. prefer_current(x, s) <=> IF v # w THEN v ELSE a >= b
  BY <1>2 DEF prefer_current
<1>6. Better(x, s) <=> (w => v) /\ (w = v => b <= a)
  BY <1>2 DEF Better
<1>7. Better(s, x) <=> (v => w) /\ (v = w => a <= b)
  BY <1>2 DEF Better
<1>8. CASE v = w
  <2>1. (a >= b <=> b <= a) /\ (~ (a >= b) => a <= b)
    BY <1>3
  <2>2. /\ prefer_current(x, s) => Better(x, s)
        /\ ~ prefer_current(x, s) => Better(s, x)
    BY <1>5, <1>6, <1>7, <1>8, <2>1
  <2>3. ASSUME NEW t \in SessionRecords, Better(x, s), Better(s, t) PROVE Better(x, t)
    <3>1. PICK c, u : c = t.end /\ u = session_valid(t)
      OBVIOUS
    <3>2. c \in Int /\ u \in BOOLEAN
      BY <1>1, <3>1
    <3>3. Better(s, t) <=> (u => w) /\ (u = w => c <= b)
      BY <1>2, <3>1 DEF Better
    <3>4. Better(x, t) <=> (u => v) /\ (u = v => c <= a)
      BY <1>2, <3>1 DEF Better
    <3>5. c <= b /\ b <= a => c <= a
      BY <1>3, <3>2
    <3> QED
      BY <1>6, <1>8, <2>3, <3>3, <3>4, <3>5
  <2> QED
    BY <1>4, <2>2, <2>3
<1>9. CASE v # w
  <2>1. v = ~ w
    BY <1>3, <1>9
  <2>2. /\ prefer_current(x, s) => Better(x, s)
        /\ ~ prefer_current(x, s) => Better(s, x)
    BY <1>3, <1>5, <1>6, <1>7, <1>9
  <2>3. ASSUME NEW t \in SessionRecords, Better(x, s), Better(s, t) PROVE Better(x, t)
    <3>1. PICK c, u : c = t.end /\ u = session_valid(t)
      OBVIOUS
    <3>2. c \in Int /\ u \in BOOLEAN
      BY <1>1, <3>1
    <3>3. Better(s, t) <=> (u => w) /\ (u = w => c <= b)
      BY <1>2, <3>1 DEF Better
    <3>4. Better(x, t) <=> (u => v) /\ (u = v => c <= a)
      BY <1>2, <3>1 DEF Better
    <3>5. v = TRUE /\ w = FALSE
      BY <1>3, <1>6, <2>1, <2>3
    <3>6. u = FALSE
      BY <2>3, <3>2, <3>3, <3>5
    <3> QED
      BY <3>4, <3>5, <3>6
  <2> QED
    BY <1>4, <2>2, <2>3
<1> QED
  BY <1>8, <1>9

\* cache_tgt_session_at and cache_service_ticket keep one session for each
\* realm and service, none worse than those before.
LEMMA CacheSessionFacts ==
    ASSUME NEW sessions, NEW client, GoodSessions(sessions, client), NEW s \in SessionRecords,
           same_principal_identity(s.client, client), ~ is_config_credential([server |-> s.service])
    PROVE  LET new == CacheSession(sessions, s)
           IN  /\ GoodSessions(new, client) /\ new \subseteq sessions \cup {s}
               /\ \A t \in sessions \cup {s} : \E x \in new : SessionKey(x) = SessionKey(t) /\ Better(x, t)
<1>1. PICK current, new : /\ current = {x \in sessions : SessionKey(x) = SessionKey(s)}
                          /\ new = CacheSession(sessions, s)
  OBVIOUS
<1>2. /\ IsFiniteSet(sessions) /\ \A x \in sessions : x \in SessionRecords
      /\ \A x \in sessions : same_principal_identity(x.client, client) /\ ~ is_config_credential([server |-> x.service])
      /\ \A x, t \in sessions : SessionKey(x) = SessionKey(t) => x = t
  BY DEF GoodSessions
<1>3. \A t \in sessions : Better(t, t)
  BY <1>2, BetterFacts
<1>4. CASE \E x \in current : prefer_current(x, s)
  <2>1. PICK x \in current : prefer_current(x, s)
    BY <1>4
  <2>2. new = sessions
    BY <1>1, <1>4 DEF CacheSession
  <2>3. x \in sessions /\ SessionKey(x) = SessionKey(s) /\ x \in SessionRecords
    BY <1>1, <1>2
  <2>4. Better(x, s)
    BY <2>1, <2>3, BetterFacts
  <2> QED
    BY <1>1, <1>3, <2>2, <2>3, <2>4
<1>5. CASE ~ \E x \in current : prefer_current(x, s)
  <2>1. new = (sessions \ current) \cup {s}
    BY <1>1, <1>5 DEF CacheSession
  <2>2. \A x \in new : x = s \/ (x \in sessions /\ SessionKey(x) # SessionKey(s))
    BY <1>1, <2>1
  <2>3. IsFiniteSet(new)
    <3>1. IsFiniteSet(sessions \ current)
      BY <1>2, FS_Difference
    <3> QED
      BY <2>1, <3>1, FS_AddElement
  <2>4. GoodSessions(new, client)
    BY <1>2, <2>2, <2>3 DEF GoodSessions
  <2>5. ASSUME NEW t \in sessions \cup {s} PROVE \E x \in new : SessionKey(x) = SessionKey(t) /\ Better(x, t)
    <3>1. CASE t = s
      BY <2>1, <3>1, BetterFacts
    <3>2. CASE t \in current
      <4>1. t \in SessionRecords /\ ~ prefer_current(t, s) /\ SessionKey(s) = SessionKey(t)
        BY <1>1, <1>2, <1>5, <3>2
      <4>2. Better(s, t)
        BY <4>1, BetterFacts
      <4> QED
        BY <2>1, <4>1, <4>2
    <3>3. CASE t \in sessions \ current
      BY <1>3, <2>1, <3>3
    <3> QED
      BY <3>1, <3>2, <3>3
  <2>6. new \subseteq sessions \cup {s}
    BY <2>2
  <2> QED
    BY <1>1, <2>4, <2>5, <2>6
<1> QED
  BY <1>4, <1>5

Tickets == {c \in CredentialRecords : ~ is_config_credential(c)}
SessionSets(client) == {sessions \in SUBSET SessionRecords : GoodSessions(sessions, client)}

\* The session of a credential (ccache_credential_session).
LEMMA CredentialSession ==
    ASSUME NEW c \in CredentialRecords
    PROVE  /\ ccache_credential_session(c) \in SessionRecords
           /\ ccache_credential_session(c).client = c.client
           /\ ccache_credential_session(c).service = c.server
<1>1. PICK s, a, b, e, r : /\ s = ccache_credential_session(c) /\ a = c.times[1]
                           /\ b = (IF c.times[2] = 0 THEN c.times[1] ELSE c.times[2])
                           /\ e = c.times[3] /\ r = (IF c.times[4] = 0 THEN Nil ELSE c.times[4])
  OBVIOUS
<1>2. c.times \in [1 .. 4 -> Int]
  BY DEF CredentialRecords
<1>3. c.times[1] \in Int /\ c.times[2] \in Int /\ c.times[3] \in Int /\ c.times[4] \in Int
  BY <1>2
<1>4. a \in Int /\ b \in Int /\ e \in Int /\ r \in Int \cup {Nil}
  BY <1>1, <1>3
<1>5. c.client \in Principals /\ c.server \in Principals /\ c.key \in Int /\ c.ticket \in Int /\ c.flags \in Int
  BY DEF CredentialRecords
<1>6. s = [client |-> c.client, service |-> c.server, key |-> c.key, ticket |-> c.ticket,
           flags |-> c.flags, auth |-> a, start |-> b, end |-> e, renew |-> r]
  BY <1>1 DEF ccache_credential_session
<1>7. s \in SessionRecords
  BY ONLY <1>4, <1>5, <1>6 DEF SessionRecords
<1>8. s.client = c.client /\ s.service = c.server
  BY ONLY <1>6
<1> QED
  BY <1>1, <1>7, <1>8

\* A turn of the loop of from_ccache.
LEMMA AddSessionFacts ==
    ASSUME NEW client, NEW sessions \in SessionSets(client), NEW c \in Tickets
    PROVE  LET new == AddSession(sessions, c, client)
               s == ccache_credential_session(c)
           IN  /\ new \in SessionSets(client)
               /\ \A x \in new : x \in sessions \/ (x = s /\ same_principal_identity(c.client, client))
               /\ \A t \in sessions : \E x \in new : SessionKey(x) = SessionKey(t) /\ Better(x, t)
               /\ same_principal_identity(c.client, client) =>
                     \E x \in new : SessionKey(x) = SessionKey(s) /\ Better(x, s)
<1>1. PICK new, s : new = AddSession(sessions, c, client) /\ s = ccache_credential_session(c)
  OBVIOUS
<1>2. c \in CredentialRecords /\ ~ is_config_credential(c) /\ GoodSessions(sessions, client)
  BY DEF Tickets, SessionSets
<1>3. s \in SessionRecords /\ s.client = c.client /\ s.service = c.server
  BY <1>1, <1>2, CredentialSession
<1>4. CASE same_principal_identity(c.client, client)
  <2>1. new = CacheSession(sessions, s)
    BY <1>1, <1>4 DEF AddSession
  <2>2. same_principal_identity(s.client, client) /\ ~ is_config_credential([server |-> s.service])
    <3>1. is_config_credential([server |-> s.service]) <=> is_config_credential(c)
      BY <1>3 DEF is_config_credential
    <3> QED
      BY <1>2, <1>3, <1>4, <3>1
  <2>3. /\ GoodSessions(new, client) /\ new \subseteq sessions \cup {s}
        /\ \A t \in sessions \cup {s} : \E x \in new : SessionKey(x) = SessionKey(t) /\ Better(x, t)
    BY <1>2, <1>3, <2>1, <2>2, CacheSessionFacts
  <2>4. new \in SessionSets(client)
    BY <2>3 DEF SessionSets, GoodSessions
  <2> QED
    BY <1>1, <1>4, <2>3, <2>4
<1>5. CASE ~ same_principal_identity(c.client, client)
  <2>1. new = sessions
    BY <1>1, <1>5 DEF AddSession
  <2>2. \A t \in sessions : Better(t, t)
    BY BetterFacts DEF SessionSets
  <2> QED
    BY <1>1, <1>5, <2>1, <2>2
<1> QED
  BY <1>4, <1>5

\* No sessions are good ones.
LEMMA NoSessions ==
    ASSUME NEW client
    PROVE  GoodSessions({}, client) /\ {} \in SessionSets(client)
<1>1. IsFiniteSet({})
  BY FS_EmptySet
<1> QED
  BY <1>1 DEF GoodSessions, SessionSets

\* The sessions after i turns of that loop.
LEMMA SessionsOfFacts ==
    ASSUME NEW list \in Seq(Tickets), NEW client
    PROVE  /\ SessionsOf(list, client) \in [0 .. Len(list) -> SessionSets(client)]
           /\ SessionsOf(list, client)[0] = {}
           /\ \A i \in 1 .. Len(list) : SessionsOf(list, client)[i]
                = AddSession(SessionsOf(list, client)[i - 1], list[i], client)
<1> DEFINE Step(i, v) == AddSession(v, list[i], client)
           Is(h, m) == h = [i \in 0 .. m |-> IF i = 0 THEN {} ELSE Step(i, h[i - 1])]
<1>1. PICK n, V, none : n = Len(list) /\ V = SessionSets(client) /\ none = {}
  OBVIOUS
<1>2. n \in Nat /\ none \in V
  BY <1>1, NoSessions
<1>3. ASSUME NEW i \in 1 .. n, NEW v \in V PROVE Step(i, v) \in V
  <2>1. list[i] \in Tickets /\ v \in SessionSets(client)
    BY <1>1
  <2>2. AddSession(v, list[i], client) \in SessionSets(client)
    BY ONLY <2>1, AddSessionFacts
  <2> QED
    BY <1>1, <2>2
<1> HIDE DEF Step
<1>4. PICK G : G = [i \in 1 .. n |-> [v \in V |-> Step(i, v)]]
  OBVIOUS
<1>5. G \in [1 .. n -> [V -> V]] /\ \A i \in 1 .. n, v \in V : G[i][v] = Step(i, v)
  BY <1>3, <1>4
<1>6. PICK f : f \in [0 .. n -> V] /\ Recursive(f, n, none, G)
  BY ONLY <1>2, <1>5, Recursion
<1>7. Is(f, n)
  <2>1. ASSUME NEW i \in 0 .. n PROVE f[i] = IF i = 0 THEN {} ELSE Step(i, f[i - 1])
    <3>1. i # 0 => i \in 1 .. n /\ i - 1 \in 0 .. n
      BY <1>2
    <3> QED
      BY <1>1, <1>5, <1>6, <3>1 DEF Recursive
  <2> QED
    BY <1>6, <2>1
<1>8. PICK g : g = SessionsOf(list, client)
  OBVIOUS
<1>9. g = CHOOSE h : Is(h, n)
  BY <1>1, <1>8 DEF SessionsOf, Step
<1>10. Is(g, n)
  BY <1>7, <1>9, Zenon
<1>11. g[0] = none /\ g = [i \in 0 .. n |-> g[i]] /\ \A i \in 1 .. n : g[i] = Step(i, g[i - 1])
  <2>1. 0 \in 0 .. n /\ \A i \in 1 .. n : i \in 0 .. n /\ i # 0
    BY <1>2
  <2>2. \A i \in 0 .. n : g[i] = IF i = 0 THEN {} ELSE Step(i, g[i - 1])
    BY <1>10
  <2>3. g = [i \in 0 .. n |-> g[i]]
    BY <1>10, <2>2
  <2> QED
    BY <1>1, <2>1, <2>2, <2>3
<1>12. g[0] \in V /\ \A i \in 1 .. n : g[i - 1] \in V => g[i] = G[i][g[i - 1]]
  BY <1>2, <1>5, <1>11
<1>13. g \in [0 .. n -> V]
  BY ONLY <1>2, <1>5, <1>11, <1>12, RecursionTyped
<1> QED
  BY <1>1, <1>8, <1>11, <1>13 DEF Step

\* The sessions of a list: one for each realm and service, the best one.
SessionsFrom(sessions, list, client) ==
    /\ GoodSessions(sessions, client)
    /\ \A x \in sessions : \E k \in 1 .. Len(list) :
          same_principal_identity(list[k].client, client) /\ x = ccache_credential_session(list[k])
    /\ \A k \in 1 .. Len(list) : same_principal_identity(list[k].client, client) =>
          \E x \in sessions : LET s == ccache_credential_session(list[k])
                              IN  SessionKey(x) = SessionKey(s) /\ Better(x, s)

\* After all turns there is a session for each key, none worse than any ticket
\* for it.
LEMMA SessionsAre ==
    ASSUME NEW list \in Seq(Tickets), NEW client
    PROVE  SessionsFrom(SessionsOf(list, client)[Len(list)], list, client)
<1>0. PICK sessions : sessions = SessionsOf(list, client)[Len(list)]
  OBVIOUS
<1> DEFINE Own(k) == same_principal_identity(list[k].client, client)
           S(k) == ccache_credential_session(list[k])
           From(x, i) == \E k \in 1 .. i : Own(k) /\ x = S(k)
           Serves(set, s) == \E x \in set : SessionKey(x) = SessionKey(s) /\ Better(x, s)
<1>1. PICK n, U : n = Len(list) /\ U = SessionsOf(list, client)
  OBVIOUS
<1>2. n \in Nat /\ \A i \in 1 .. n : list[i] \in Tickets
  BY <1>1
<1>3. U \in [0 .. n -> SessionSets(client)] /\ U[0] = {}
  BY <1>1, SessionsOfFacts
<1>4. \A i \in 1 .. n : U[i] = AddSession(U[i - 1], list[i], client)
  BY <1>1, SessionsOfFacts
<1> DEFINE T == {i \in 0 .. n : /\ \A x \in U[i] : From(x, i)
                                /\ \A k \in 1 .. i : Own(k) => Serves(U[i], S(k))}
<1>5. 0 \in T
  BY <1>2, <1>3
<1>6. ASSUME NEW i \in 1 .. n, i - 1 \in T PROVE i \in T
  <2>1. /\ i \in 0 .. n /\ i - 1 \in 0 .. n /\ i \in 1 .. i
        /\ \A k \in 1 .. i : k = i \/ k \in 1 .. i - 1
        /\ \A k \in 1 .. i - 1 : k \in 1 .. i /\ k \in 1 .. n
    BY <1>2
  <2>2. PICK old, new : old = U[i - 1] /\ new = U[i]
    OBVIOUS
  <2>3. old \in SessionSets(client) /\ new = AddSession(old, list[i], client) /\ list[i] \in Tickets
    BY <1>2, <1>3, <1>4, <2>1, <2>2
  <2>4. /\ new \in SessionSets(client)
        /\ \A x \in new : x \in old \/ (x = S(i) /\ Own(i))
        /\ \A t \in old : Serves(new, t)
        /\ Own(i) => Serves(new, S(i))
    BY <2>3, AddSessionFacts
  <2>5. /\ \A x \in old : From(x, i - 1)
        /\ \A k \in 1 .. i - 1 : Own(k) => Serves(old, S(k))
    BY <1>6, <2>2
  <2>6. ASSUME NEW x \in new PROVE From(x, i)
    BY <2>1, <2>4, <2>5
  <2>7. ASSUME NEW k \in 1 .. i, Own(k) PROVE Serves(new, S(k))
    <3>1. CASE k = i
      BY <2>4, <2>7, <3>1
    <3>2. CASE k \in 1 .. i - 1
      <4>1. PICK t \in old : SessionKey(t) = SessionKey(S(k)) /\ Better(t, S(k))
        BY <2>5, <2>7, <3>2
      <4>2. PICK x \in new : SessionKey(x) = SessionKey(t) /\ Better(x, t)
        BY <2>4
      <4>3. list[k] \in CredentialRecords
        BY <1>2, <2>1, <3>2 DEF Tickets
      <4>4. S(k) \in SessionRecords
        BY <4>3, CredentialSession
      <4>5. t \in SessionRecords /\ x \in SessionRecords
        BY <2>3, <2>4 DEF SessionSets
      <4>6. Better(x, S(k))
        BY ONLY <4>1, <4>2, <4>4, <4>5, BetterFacts
      <4> QED
        BY <4>1, <4>2, <4>6
    <3> QED
      BY <2>1, <3>1, <3>2
  <2> QED
    BY <2>1, <2>2, <2>6, <2>7
<1>7. \A i \in 0 .. n : i \in T
  <2>1. n \in Nat
    BY <1>2
  <2> HIDE DEF T
  <2> QED
    BY ONLY <1>5, <1>6, <2>1, Induct
<1>8. n \in T /\ sessions = U[n] /\ U[n] \in SessionSets(client)
  BY <1>0, <1>1, <1>2, <1>3, <1>7
<1>9. GoodSessions(sessions, client)
  BY <1>8 DEF SessionSets
<1> QED
  BY <1>0, <1>1, <1>8, <1>9 DEF SessionsFrom

\* entries lists the tickets of a cache.
LEMMA EntriesAre ==
    ASSUME NEW cache \in NormalCaches
    PROVE  /\ entries(cache) \in Seq(Tickets)
           /\ TicketsIn(cache) = {entries(cache)[k] : k \in 1 .. Len(entries(cache))}
<1>1. PICK l, places, kept, n, m : /\ l = cache.credentials /\ kept = entries(cache) /\ n = Len(l) /\ m = Len(kept)
                                   /\ places = {i \in DOMAIN l : ~ is_config_credential(l[i])}
  OBVIOUS
<1>2. l \in Seq(CredentialRecords) /\ DOMAIN l = 1 .. n
  BY <1>1, NormalTypes DEF Caches
<1>3. kept = Retained(l, places)
  BY <1>1 DEF entries
<1>4. kept \in Seq(CredentialRecords) /\ \E h : KeptFrom(kept, l, places, n, h)
  BY <1>1, <1>2, <1>3, KeptPlaces
<1>5. PICK h : KeptFrom(kept, l, places, n, h)
  BY <1>4
<1>6. /\ \A i \in 1 .. m : h[i] \in places /\ kept[i] = l[h[i]]
      /\ \A k \in 1 .. n : k \in places => \E i \in 1 .. m : h[i] = k
  BY <1>1, <1>5 DEF KeptFrom
<1>7. \A i \in 1 .. m : kept[i] \in Tickets /\ kept[i] \in TicketsIn(cache)
  BY <1>1, <1>2, <1>6 DEF Tickets, TicketsIn, FoundIn
<1>8. kept \in Seq(Tickets)
  <2>1. m \in Nat /\ kept = [i \in 1 .. m |-> kept[i]]
    BY <1>1, <1>4
  <2> QED
    BY ONLY <1>7, <2>1
<1>9. ASSUME NEW c \in TicketsIn(cache) PROVE \E i \in 1 .. m : c = kept[i]
  <2>1. PICK k \in 1 .. n : c = l[k] /\ ~ is_config_credential(c)
    BY <1>1, <1>2 DEF TicketsIn, FoundIn
  <2>2. k \in places
    BY <1>1, <1>2, <2>1
  <2> QED
    BY <1>6, <2>1, <2>2
<1> QED
  BY <1>1, <1>7, <1>8, <1>9

\* The sessions of a client that is made from a cache.
LEMMA ReloadFacts ==
    ASSUME NEW cache \in NormalCaches, NEW own,
           own = {ccache_credential_session(c) :
                    c \in {x \in TicketsIn(cache) : same_principal_identity(x.client, cache.default)}}
    PROVE  LET sessions == from_ccache(cache)
           IN  /\ GoodSessions(sessions, cache.default) /\ sessions \subseteq own
               /\ \A s \in own : \E x \in sessions : SessionKey(x) = SessionKey(s) /\ Better(x, s)
<1>1. PICK list, client, sessions, n :
          list = entries(cache) /\ client = cache.default /\ sessions = from_ccache(cache) /\ n = Len(list)
  OBVIOUS
<1>2. list \in Seq(Tickets) /\ TicketsIn(cache) = {list[k] : k \in 1 .. n}
  BY <1>1, EntriesAre
<1>3. sessions = SessionsOf(list, client)[Len(list)]
  BY <1>1 DEF from_ccache
<1>4. /\ GoodSessions(sessions, client)
      /\ \A x \in sessions : \E k \in 1 .. n :
            same_principal_identity(list[k].client, client) /\ x = ccache_credential_session(list[k])
      /\ \A k \in 1 .. n : same_principal_identity(list[k].client, client) =>
            \E x \in sessions : LET s == ccache_credential_session(list[k])
                                IN  SessionKey(x) = SessionKey(s) /\ Better(x, s)
  <2>1. list \in Seq(Tickets)
    BY <1>2
  <2>2. SessionsFrom(sessions, list, client)
    BY <1>3, <2>1, SessionsAre
  <2> QED
    BY <1>1, <2>2 DEF SessionsFrom
<1>5. \A x \in sessions : x \in own
  BY <1>1, <1>2, <1>4
<1>6. ASSUME NEW s \in own PROVE \E x \in sessions : SessionKey(x) = SessionKey(s) /\ Better(x, s)
  <2>1. PICK k \in 1 .. n : same_principal_identity(list[k].client, client) /\ s = ccache_credential_session(list[k])
    BY <1>1, <1>2
  <2> QED
    BY <1>4, <2>1
<1> QED
  BY <1>1, <1>4, <1>5, <1>6

=============================================================================
