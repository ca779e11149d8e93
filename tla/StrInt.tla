------------------------------- MODULE StrInt -------------------------------
(***************************************************************************)
(* The natural number StrInt that HashBuckets makes of a hash, to take its   *)
(* remainder.  The number z is built in the cells b: each byte is multiplied *)
(* by its power of two in a cell of its own, and the cells are added in      *)
(* pairs until the sum is in b[0].  Cells are counted from 0, as in the code.*)
(***************************************************************************)
EXTENDS Naturals, Sequences, Sums

CONSTANTS
  Length,    \* length, the number of cells
  ByteBase,  \* the number of values of a byte (256)
  LongMax,   \* the largest unsigned long
  Addends,   \* unsigned long arguments of set() and add()
  MaxBytes,  \* bound: bytes given to set()
  MaxNumber  \* bound: the number

ASSUME SizeAssumption ==
  /\ Length \in Nat \ {0}
  /\ ByteBase \in Nat /\ ByteBase >= 2
  /\ LongMax \in Nat \ {0}
ASSUME ArgumentAssumption == Addends \subseteq 0..LongMax /\ MaxBytes \in Nat

\* The provers know no more of a power than this.
ASSUME PowerAssumption == \A i \in 0..(Length - 1) : ByteBase ^ i \in Nat

VARIABLES
  b,       \* the cells
  z,       \* the number
  outcome  \* "running", "exit" (the process ended) or "undefined"

vars == <<b, z, outcome>>

Cells == 0..(Length - 1)
ByteStrings == UNION {[1..n -> 0..(ByteBase - 1)] : n \in 0..MaxBytes}

-----------------------------------------------------------------------------
(* set(bytes, len) *)

\* The bytes that are read: those there is no cell for are dropped.
Dim(bytes) == IF Len(bytes) > Length THEN Length ELSE Len(bytes)

\* Each byte in its cell; the other cells keep what they had.
Spread(bytes) ==
  [i \in Cells |-> IF i < Dim(bytes) THEN bytes[i + 1] * ByteBase ^ i ELSE b[i]]

\* Variant of Halved: the last cell of an odd number of them is left behind.
HalvedEven(cells, j) ==
  [i \in DOMAIN cells |-> IF i < j \div 2 THEN cells[i] + cells[j \div 2 + i] ELSE cells[i]]

\* One round: of the first j cells, the second half is added to the first, and
\* the last one moves behind them when j is odd.
Halved(cells, j) ==
  [i \in DOMAIN cells |->
     IF i < j \div 2 THEN cells[i] + cells[j \div 2 + i]
     ELSE IF i = j \div 2 /\ j % 2 = 1 THEN cells[j - 1]
     ELSE cells[i]]

\* The cells when one is left to add.  Each round halves j, so that there are
\* fewer rounds than cells.
Summed(bytes) ==
  LET round[n \in Nat] ==
        IF n = 0 THEN [j |-> Dim(bytes), cells |-> Spread(bytes)]
        ELSE LET r == round[n - 1]
             IN IF r.j <= 1 THEN r
                ELSE [j |-> (r.j + 1) \div 2, cells |-> Halved(r.cells, r.j)]
  IN round[Length].cells

Running == outcome = "running"

SetBytes(bytes) ==
  /\ Running
  /\ b' = Summed(bytes)
  /\ z' = b'[0]
  /\ UNCHANGED outcome

-----------------------------------------------------------------------------
(* The other operations *)

SetLong(n) == Running /\ z' = n /\ UNCHANGED <<b, outcome>>

\* inc() adds pow2[0].
Inc == Running /\ z < MaxNumber /\ z' = z + 1 /\ UNCHANGED <<b, outcome>>

\* add() borrows the first cell for its argument.
Add(n) ==
  /\ Running
  /\ z + n <= MaxNumber
  /\ b' = [b EXCEPT ![0] = n]
  /\ z' = z + n
  /\ UNCHANGED outcome

\* mpz_sizeinbase(z, 2), divided by sizeof(byte), which is 1: bits.
GetByteSize == CHOOSE k \in 1..(MaxNumber + 1) : z < 2 ^ k /\ (k = 1 \/ z >= 2 ^ (k - 1))

\* The bytes mpz_export writes.
Exported == CHOOSE k \in 0..MaxNumber : z < ByteBase ^ k /\ (k = 0 \/ z >= ByteBase ^ (k - 1))

\* toBytes() ends the process when the bytes written are not as many as
\* getByteSize() says.  For 0 it writes a byte itself, into no buffer if it was
\* given none.
ToBytes(hasBuffer) ==
  /\ Running
  /\ outcome' = IF z = 0 THEN (IF hasBuffer THEN outcome ELSE "undefined")
                ELSE IF Exported = GetByteSize THEN outcome ELSE "exit"
  /\ UNCHANGED <<b, z>>

Init ==
  /\ b = [i \in Cells |-> 0]
  /\ z = 0
  /\ outcome = "running"

Next ==
  \/ \E bytes \in ByteStrings : SetBytes(bytes)
  \/ \E n \in Addends : SetLong(n) \/ Add(n)
  \/ Inc
  \/ \E hasBuffer \in BOOLEAN : ToBytes(hasBuffer)

Spec == Init /\ [][Next]_vars

-----------------------------------------------------------------------------
(* Properties *)

\* The number a string of bytes stands for, the first one the least significant.
Number(bytes) ==
  SumTo([n \in 1..Dim(bytes) |-> bytes[n] * ByteBase ^ (n - 1)], Dim(bytes))

\* Whatever the cells hold from before, and for even and odd numbers of bytes,
\* set() makes of a string that is not empty the number it stands for.
SetIsNumber == \A bytes \in ByteStrings \ {<<>>} : Summed(bytes)[0] = Number(bytes)
=============================================================================
