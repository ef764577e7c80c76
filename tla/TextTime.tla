------------------------------ MODULE TextTime ------------------------------
(***************************************************************************)
(* How the tables order time.  A timestamp is stored as text, written with *)
(* time.RFC3339Nano, which drops the zeros at the end of the fraction, and *)
(* is compared as text: "12:00:00Z" comes after "12:00:00.5Z", because Z   *)
(* comes after the point, and "...00.5Z" after "...00.55Z".  Time is       *)
(* counted in ticks, Base * Base to a second: a fraction of two digits     *)
(* where the code has nine.                                                *)
(***************************************************************************)
EXTENDS Integers

CONSTANT Base  \* values a digit has

ASSUME BaseAssumption == Base \in Nat \ {0}

Sec(t) == t \div (Base * Base)

\* The place of the text of t among the texts of all times.  The end of the
\* text, Z, weighs more than any digit, and than the point.
Text(t) ==
  LET tenths     == (t \div Base) % Base
      hundredths == t % Base
      first      == IF t % (Base * Base) = 0 THEN Base ELSE tenths
      second     == IF hundredths = 0 THEN Base ELSE hundredths
  IN  (Sec(t) * (Base + 1) + first) * (Base + 1) + second
=============================================================================
