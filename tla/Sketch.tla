------------------------------- MODULE Sketch -------------------------------
(***************************************************************************)
(* The count-min sketch of internal/sketch/cms.go: rows of 4-bit counters, *)
(* two to a byte, with conservative update.  A key reaches one column of   *)
(* each row; MixUint64 under the row's seed is the constant Column.        *)
(***************************************************************************)
EXTENDS Integers, Sequences

CONSTANTS
    Rows,     \* the rows (4 in the code)
    Width,    \* columns per row, an even number
    Column    \* Column[r][k]: the column of key k in row r, from 0

MaxCount == 15

NewSketch == [r \in Rows |-> [i \in 0..(Width \div 2 - 1) |-> 0]]

(* read: even columns are the low halves of the bytes.                     *)
Read(s, r, col) ==
    LET b == s[r][col \div 2] IN IF col % 2 = 0 THEN b % 16 ELSE b \div 16

(* write: the byte b with the counter of column col set to v.              *)
Byte(b, col, v) == IF col % 2 = 0 THEN ((b \div 16) * 16) + v ELSE (b % 16) + (v * 16)

Counters(s, k) == {Read(s, r, Column[r][k]) : r \in Rows}

(* Estimate: the smallest of the key's counters.                           *)
Estimate(s, k) == CHOOSE v \in Counters(s, k) : \A w \in Counters(s, k) : v <= w

(* Increment: the counters equal to the smallest go up, unless it is 15.   *)
Increment(s, k) ==
    LET v == Estimate(s, k)
    IN  IF v >= MaxCount THEN s
        ELSE [r \in Rows |->
                LET col == Column[r][k]
                IN  IF Read(s, r, col) = v
                    THEN [s[r] EXCEPT ![col \div 2] = Byte(@, col, v + 1)]
                    ELSE s[r]]

(* Mutant of HalvedByte: the high counter's low bit falls into the other.  *)
HalvedByteLeaky(b) == b \div 2

(* Reset: both counters of a byte are halved, each in its own half.        *)
HalvedByte(b) == ((b \div 32) * 16) + ((b % 16) \div 2)
Halve(s) == [r \in Rows |-> [i \in DOMAIN s[r] |-> HalvedByte(s[r][i])]]
=============================================================================
