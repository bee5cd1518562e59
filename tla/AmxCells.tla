------------------------------ MODULE AmxCells ------------------------------
(***************************************************************************)
(* The arithmetic of the abstract machine's cells: signed integers of      *)
(* CellBits bits that wrap round, with C's division, which truncates.      *)
(*                                                                         *)
(* A signed overflow, undefined in C, is what the processor does: it       *)
(* wraps; and a shift counts modulo the width.                             *)
(***************************************************************************)
EXTENDS Integers, FiniteSets, FiniteSetsExt

CONSTANTS
  CellBits,  \* width of a cell (32 in the build)
  ByteBits   \* width of a byte within it, for the sign extension (8 in the build)

ASSUME CellAssumption ==
  /\ CellBits \in Nat \ {0}
  /\ ByteBits \in 1..CellBits

Half == 2^(CellBits - 1)

\* What every width gives; a prover knows nothing of powers
ASSUME HalfAssumption == Half \in Nat \ {0}

Cells == -Half..(Half - 1)
Wrap(n) == ((n + Half) % (2 * Half)) - Half
Unsigned(c) == c % (2 * Half)          \* (ucell)c
Truth(b) == IF b THEN 1 ELSE 0

\* C's / and %, for d # 0
Magnitude(n) == IF n < 0 THEN -n ELSE n
Quotient(n, d) ==
  LET q == Magnitude(n) \div Magnitude(d) IN IF (n < 0) = (d < 0) THEN q ELSE -q
Remainder(n, d) == n - d * Quotient(n, d)

Bits(c) == {i \in 0..(CellBits - 1) : (Unsigned(c) \div 2^i) % 2 = 1}
OfBits(S) == Wrap(MapThenSumSet(LAMBDA i : 2^i, S))

-----------------------------------------------------------------------------
(* What the opcodes compute.                                               *)

Shift(op, c, by) ==
  LET factor == 2^(Unsigned(by) % CellBits) IN
  CASE op = "shl"  -> Wrap(c * factor)
    [] op = "shr"  -> Wrap(Unsigned(c) \div factor)
    [] op = "sshr" -> c \div factor

\* SMUL and UMUL give the same cell; the last two have a parameter for alt
Multiplications == {"smul", "umul", "smul_c"}
Arithmetic(op, pri, alt) ==
  CASE op \in Multiplications  -> Wrap(pri * alt)
    [] op \in {"add", "add_c"} -> Wrap(pri + alt)
    [] op = "sub"     -> Wrap(pri - alt)
    [] op = "sub_alt" -> Wrap(alt - pri)
    [] op = "and"     -> OfBits(Bits(pri) \cap Bits(alt))
    [] op = "or"      -> OfBits(Bits(pri) \cup Bits(alt))
    [] op = "xor"     -> OfBits(SymDiff(Bits(pri), Bits(alt)))
    [] op = "not"     -> Truth(pri = 0)
    [] op = "neg"     -> Wrap(-pri)
    [] op = "invert"  -> -1 - pri

Relations == {"eq", "neq", "less", "leq", "grtr", "geq", "sless", "sleq", "sgrtr", "sgeq"}
Compare(op, pri, alt) ==
  CASE op = "eq"    -> pri = alt
    [] op = "neq"   -> pri # alt
    [] op = "less"  -> Unsigned(pri) < Unsigned(alt)
    [] op = "leq"   -> Unsigned(pri) <= Unsigned(alt)
    [] op = "grtr"  -> Unsigned(pri) > Unsigned(alt)
    [] op = "geq"   -> Unsigned(pri) >= Unsigned(alt)
    [] op = "sless" -> pri < alt
    [] op = "sleq"  -> pri <= alt
    [] op = "sgrtr" -> pri > alt
    [] op = "sgeq"  -> pri >= alt

\* SIGN: extends the sign of the lowest byte
SignExtend(c) ==
  IF c % 2^ByteBits >= 2^(ByteBits - 1)
  THEN OfBits(Bits(c) \cup ByteBits..(CellBits - 1))
  ELSE c

\* Mutant: no correction for operands of different signs
ModulusTruncated(n, d) == Remainder(n, d)

\* SDIV: the "true modulus" and the quotient that goes with it
Modulus(n, d) == Remainder(Wrap(Remainder(n, d) + d), d)
DividedDown(n, d) == Quotient(Wrap(n - Modulus(n, d)), d)

\* There is a divisor, and neither of SDIV's two additions overflows
DivisionFits(n, d) ==
  /\ d # 0
  /\ Remainder(n, d) + d \in Cells
  /\ n - Modulus(n, d) \in Cells
=============================================================================
