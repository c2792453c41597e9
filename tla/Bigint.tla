------------------------------- MODULE Bigint -------------------------------
(***************************************************************************)
(* Arithmetic on the `bigint` columns of the wallet tables.                *)
(*                                                                         *)
(* The entities declare them `number`, but the Postgres driver returns a   *)
(* bigint as a string (no type parser is installed, parseInt8 is not set): *)
(* `x -= n` converts, `x += n` appends the digits of n.  The SQLite driver *)
(* of the development fallback returns numbers.  BigintStrings says which  *)
(* of the two backends is modelled.                                        *)
(***************************************************************************)
EXTENDS Integers

CONSTANT BigintStrings   \* TRUE: Postgres (strings), FALSE: SQLite (numbers)

ASSUME BigintStringsAssumption == BigintStrings \in BOOLEAN

(* Amounts, in cents, that the models use: at most four digits. *)
MaxAmount == 9999

AmountRange == 1..MaxAmount

(* 10 ^ (number of decimal digits of n), for n in 0..MaxAmount. *)
Shift(n) ==
  IF n < 10 THEN 10 ELSE IF n < 100 THEN 100 ELSE IF n < 1000 THEN 1000 ELSE 10000

(* `column += n` where column was read from the database: an appended      *)
(* decimal string, re-parsed when the row is written ("0" + 500 is 500,    *)
(* "500" + 100 is 500100), or an addition.                                 *)
PlusEq(stored, n) ==
  IF BigintStrings THEN stored * Shift(n) + n ELSE stored + n
=============================================================================
