------------------------------ MODULE LinWord ------------------------------
(***************************************************************************)
(* The i64 arithmetic of LinVM (lin_common.h, lin_vm.c) on words of Bits   *)
(* bits in two's complement, and the read-only input regions of            *)
(* lin_region.c, whose cells are such words.                               *)
(*                                                                         *)
(* A binary operator is a relation: Results is the set of words the code   *)
(* may compute, one word when the C expression is defined and none when    *)
(* the operation fails (a division by zero) or is undefined.               *)
(***************************************************************************)
EXTENDS Integers, Sequences

CONSTANTS
    Bits,       \* width of a word: 64
    Half,       \* 2^(Bits - 1)
    CellBytes,  \* LIN_REGION_CELL_BYTES
    ByteBits,   \* width of a byte: 8
    MaxCells,   \* LIN_REGION_MAX_CELLS
    MaxInput    \* LIN_ETH_MAX_INPUT_BYTES

\* The powers of two.
Pow2[n \in 0..Bits] == IF n = 0 THEN 1 ELSE 2 * Pow2[n - 1]

ASSUME WordAssumption ==
    /\ Bits \in Nat /\ Bits >= 2
    /\ Half \in Nat \ {0} /\ Half = Pow2[Bits - 1]
    /\ CellBytes \in Nat \ {0}
    /\ ByteBits \in Nat \ {0}
    /\ ByteBits * CellBytes = Bits
    /\ MaxCells \in Nat
    /\ MaxInput \in Nat

Word == -Half .. Half - 1

\* A machine integer holds n modulo 2^Bits.
Wrap(n) == ((n + Half) % (2 * Half)) - Half

\* The positions of the bits that are set.
Ones(x) == {i \in 0..Bits - 1 : (x \div Pow2[i]) % 2 = 1}

Magnitude(x) == IF x < 0 THEN -x ELSE x

\* C99 division rounds toward zero.
Quotient(x, y) ==
    LET q == Magnitude(x) \div Magnitude(y)
    IN  IF (x < 0) <=> (y < 0) THEN q ELSE -q

\* Mutant: no case for the smallest word divided by -1.
WdivUnguarded(x, y) == Quotient(x, y)

lin_wdiv(x, y) == IF x = -Half /\ y = -1 THEN -Half ELSE Quotient(x, y)

lin_wrem(x, y) == IF x = -Half /\ y = -1 THEN 0 ELSE x - y * Quotient(x, y)

Truth(b) == IF b THEN 1 ELSE 0

\* Shift counts outside the word give 0.
vm_shift(x, y, left) ==
    CASE y \notin 0..Bits - 1 -> 0
      [] y \in 0..Bits - 1 /\ left -> Wrap(x * Pow2[y])
      [] OTHER -> x \div Pow2[y]

vm_ushr(x, y) ==
    IF y \notin 0..Bits - 1 THEN 0 ELSE Wrap((x % (2 * Half)) \div Pow2[y])

BinaryOps == {"add", "sub", "mul", "div", "mod", "and", "or", "xor",
              "shl", "shr", "ushr", "eq", "ne", "lt", "gt", "le", "ge"}

\* r is what op computes from x and y.
Computes(op, x, y, r) ==
    CASE op = "add" -> r = Wrap(x + y)
      [] op = "sub" -> r = Wrap(x - y)
      [] op = "mul" -> r = Wrap(x * y)
      [] op = "div" -> y # 0 /\ r = lin_wdiv(x, y)
      [] op = "mod" -> y # 0 /\ r = lin_wrem(x, y)
      [] op = "and" -> Ones(r) = Ones(x) \cap Ones(y)
      [] op = "or" -> Ones(r) = Ones(x) \cup Ones(y)
      [] op = "xor" -> Ones(r) = (Ones(x) \ Ones(y)) \cup (Ones(y) \ Ones(x))
      [] op = "shl" -> r = vm_shift(x, y, TRUE)
      [] op = "shr" -> r = vm_shift(x, y, FALSE)
      [] op = "ushr" -> r = vm_ushr(x, y)
      [] op = "eq" -> r = Truth(x = y)
      [] op = "ne" -> r = Truth(x # y)
      [] op = "lt" -> r = Truth(x < y)
      [] op = "gt" -> r = Truth(x > y)
      [] op = "le" -> r = Truth(x <= y)
      [] op = "ge" -> r = Truth(x >= y)

Results(op, x, y) == {r \in Word : Computes(op, x, y, r)}

UnaryOps == {"not", "neg", "lognot"}

Negates(op, x, r) ==
    CASE op = "not" -> Ones(r) = (0..Bits - 1) \ Ones(x)
      [] op = "neg" -> r = Wrap(-x)
      [] op = "lognot" -> r = Truth(x = 0)

UnaryResults(op, x) == {r \in Word : Negates(op, x, r)}

-----------------------------------------------------------------------------
(***************************************************************************)
(* Regions.  A LinRegionSet is a sequence of regions; region ids count     *)
(* from 0.  cells[c] is a word that holds CellBytes bytes, the first one   *)
(* in its low end.                                                         *)
(***************************************************************************)
RegionOK == 0
RegionTruncated == 3

CapacityBytes(region) == region.capacity * CellBytes

StructValid(region) ==
    /\ region.capacity <= MaxCells
    /\ region.payload <= CapacityBytes(region)
    /\ region.payload <= MaxInput

\* lin_region_get succeeds.
Gets(regions, id) ==
    /\ id \in 0..Len(regions) - 1
    /\ regions[id + 1].id = id
    /\ StructValid(regions[id + 1])

CheckRange(region, offset, len) ==
    IF offset <= region.payload /\ len <= region.payload - offset
    THEN RegionOK ELSE RegionTruncated

\* Byte k of a cell, from the low end.
ByteOf(cell, k) == (cell \div Pow2[ByteBits * k]) % Pow2[ByteBits]

\* Byte i of the region, when it is part of the payload.
Loads(region, i, byte) ==
    /\ i < CapacityBytes(region)
    /\ i < region.payload
    /\ byte = ByteOf(region.cells[i \div CellBytes], i % CellBytes)
=============================================================================
