------------------------------ MODULE SafeCast ------------------------------
(***************************************************************************)
(* The casts of SafeCast.js between integer types, and the contract of     *)
(* SafeCastMock.js that offers them. A number is handed from one cast to   *)
(* the next, in any order, and widened to a whole word where a cast takes  *)
(* one, as the compiler does. A cast that reverts is not a step.           *)
(* Faulty variants of a definition precede it; no specification uses them. *)
(***************************************************************************)
EXTENDS Integers

CONSTANTS
  Word,      \* bits of a word: 256
  LENGTHS    \* the lengths shorter than a word

\* No type is empty or longer than a word. The rest is what is known of the
\* powers of two: each doubles the last, and they grow.
ASSUME CastAssumption ==
  /\ Word \in Nat \ {0}
  /\ LENGTHS \subseteq 1 .. Word
  /\ \A n \in 1 .. Word : 2 ^ n = 2 * 2 ^ (n - 1)
  /\ \A n \in 0 .. Word : /\ 2 ^ n \in Nat \ {0}
                        /\ \A m \in 0 .. n : 2 ^ m <= 2 ^ n

\* The values of uint and int types of so many bits.
Uint(bits) == 0 .. 2 ^ bits - 1
Int_(bits) == -(2 ^ (bits - 1)) .. 2 ^ (bits - 1) - 1

VARIABLES
  signedness,   \* "uint" or "int"
  bitLength,    \* of the type it has now
  integer,
  given         \* the number at the start

castVars == <<signedness, bitLength, integer, given>>

CastInit ==
  /\ signedness \in {"uint", "int"}
  /\ bitLength = Word
  /\ integer \in IF signedness = "uint" THEN Uint(Word) ELSE Int_(Word)
  /\ given = integer

\* What a conversion without a check does: it keeps the low bits.
AsUint(bits, v) == v % (2 ^ bits)
AsInt(bits, v) == ((v + 2 ^ (bits - 1)) % (2 ^ bits)) - 2 ^ (bits - 1)

FitsUintLoosely(bits, v) == v <= 2 ^ bits
FitsUint(bits, v) == v <= 2 ^ bits - 1

toUintDownCast(bits) ==
  /\ signedness = "uint"
  /\ FitsUint(bits, integer)
  /\ integer' = AsUint(bits, integer)
  /\ bitLength' = bits
  /\ UNCHANGED <<signedness, given>>

FitsIntBySize(bits, v) == v <= 2 ^ (bits - 1) - 1
FitsInt(bits, v) == AsInt(bits, v) = v

toIntDownCast(bits) ==
  /\ signedness = "int"
  /\ FitsInt(bits, integer)
  /\ integer' = AsInt(bits, integer)
  /\ bitLength' = bits
  /\ UNCHANGED <<signedness, given>>

FitsWordInt(v) == v <= 2 ^ (Word - 1) - 1

toInt ==
  /\ signedness = "uint"
  /\ FitsWordInt(integer)
  /\ integer' = AsInt(Word, integer)
  /\ signedness' = "int" /\ bitLength' = Word
  /\ UNCHANGED given

FitsWordUint(v) == v >= 0

toUint ==
  /\ signedness = "int"
  /\ FitsWordUint(integer)
  /\ integer' = AsUint(Word, integer)
  /\ signedness' = "uint" /\ bitLength' = Word
  /\ UNCHANGED given

CastNext ==
  \/ \E bits \in LENGTHS : toUintDownCast(bits) \/ toIntDownCast(bits)
  \/ toInt
  \/ toUint

CastSpec == CastInit /\ [][CastNext]_castVars

-----------------------------------------------------------------------------
(* Properties *)

(* Through any sequence of casts that do not revert, a number stays what it *)
(* was, and is a value of the type it was cast to.                          *)
CastsKeepValue ==
  /\ integer = given
  /\ integer \in IF signedness = "uint" THEN Uint(bitLength) ELSE Int_(bitLength)

(* A cast reverts only when the number is no value of the type: the check   *)
(* of the signed casts, made on the result, refuses no number that fits, nor *)
(* do the casts between signed and unsigned words.                          *)
CastsRefuseNoFit ==
  /\ \A bits \in LENGTHS :
       /\ signedness = "uint" => (FitsUint(bits, integer) <=> integer \in Uint(bits))
       /\ signedness = "int" => (FitsInt(bits, integer) <=> integer \in Int_(bits))
  /\ signedness = "uint" => (FitsWordInt(integer) <=> integer \in Int_(Word))
  /\ signedness = "int" => (FitsWordUint(integer) <=> integer \in Uint(Word))

=============================================================================
