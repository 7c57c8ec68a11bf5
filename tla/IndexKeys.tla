----------------------------- MODULE IndexKeys ------------------------------
(***************************************************************************)
(* Index keys of src/src/index/: their serialised form, the order of the   *)
(* serialised bytes, by which the nodes of the tree are searched, and the  *)
(* order of the values, by which IndexComparator compares.  A key is a     *)
(* sequence of column values; a value is a number or Null.  A "byte" is a  *)
(* digit below Radix (256 in the code) and an integer has two of them      *)
(* (four in the code), least significant first; the 32-bit count and       *)
(* length fields are single numbers here, since they compare alike.        *)
(***************************************************************************)
EXTENDS Integers, SequencesExt

CONSTANTS Radix, Null

ASSUME RadixAssumption == Radix \in Nat \ {0, 1}

ValueSize == 2
NullLength == Radix * Radix + 1     \* 0xFFFFFFFF: above every length

\* TypeSerializer::serialize of an integer: little endian.
IntegerBytes(v) == <<v % Radix, v \div Radix>>

IntegerValue(b) == b[1] + Radix * b[2]

\* One column of IndexKey::serialize: the length and the bytes, or the NULL mark.
ColumnBytes(v) ==
    IF v = Null THEN <<NullLength>> ELSE <<ValueSize>> \o IntegerBytes(v)

Serialize(key) ==
    FoldLeft(LAMBDA raw, v : raw \o ColumnBytes(v), <<Len(key)>>, key)

\* IndexKey::deserialize, column by column.  "at" is the offset of the next one.
DeserializeColumn(raw, d) ==
    IF raw[d.at] = NullLength
    THEN [at |-> d.at + 1, key |-> Append(d.key, Null)]
    ELSE [at |-> d.at + 1 + raw[d.at],
          key |-> Append(d.key, IntegerValue(SubSeq(raw, d.at + 1, d.at + raw[d.at])))]

Deserialize(raw) ==
    FoldLeft(LAMBDA d, i : DeserializeColumn(raw, d),
             [at |-> 2, key |-> <<>>], [i \in 1 .. raw[1] |-> i]).key

-----------------------------------------------------------------------------
Sign(n) == IF n < 0 THEN -1 ELSE IF n > 0 THEN 1 ELSE 0

\* The byte loops of find_lower_bound, find_child and insert: the first byte that
\* differs decides, then the length.
CompareBytes(a, b) ==
    LET differ == {i \in DOMAIN a \cap DOMAIN b : a[i] # b[i]}
    IN  IF differ = {} THEN Sign(Len(a) - Len(b))
                       ELSE Sign(a[Min(differ)] - b[Min(differ)])

\* A NULL is below every value.
CompareColumn(l, r) ==
    CASE l = Null /\ r = Null -> 0
      [] l = Null /\ r # Null -> -1
      [] l # Null /\ r = Null -> 1
      [] OTHER -> Sign(l - r)

\* IndexComparator::compare.
Compare(l, r) ==
    LET differ == {i \in DOMAIN l \cap DOMAIN r : CompareColumn(l[i], r[i]) # 0}
    IN  IF differ = {} THEN Sign(Len(l) - Len(r))
                       ELSE CompareColumn(l[Min(differ)], r[Min(differ)])
=============================================================================
