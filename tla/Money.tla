------------------------------- MODULE Money --------------------------------
(***************************************************************************)
(* A price on its way from what a person types to amount_minor and back    *)
(* (internal/platform/money.go, with its callers: the price columns of     *)
(* importer.sheet, validateDocument and UpdateVariantInTx).                *)
(*                                                                         *)
(* A client's text is a sign, a whole part and the digits after the point; *)
(* what is not of that form is refused and left out.  A workbook's cell is *)
(* the fraction that big.Rat reads, in whatever form it was written.       *)
(* int64 is -MaxInt - 1 .. MaxInt.  Add, Sub and MulRatio are left out:    *)
(* only their tests call them.                                             *)
(***************************************************************************)
EXTENDS Integers, Sequences

CONSTANTS
    MaxInt,    \* math.MaxInt64
    Texts,     \* bound: amounts that clients send
    Fractions, \* bound: amounts in cells
    NoAmount

ASSUME MoneyAssumption ==
    /\ MaxInt \in Nat /\ MaxInt >= 99
    /\ Texts \subseteq [neg : BOOLEAN, whole : Nat, frac : Seq(0..9)]
    /\ Fractions \subseteq [num : Int, den : Nat \ {0}]

VARIABLES
    price,   \* amount_minor of the price now in force
    typed,   \* history: what it was typed as, and whether rounding was shown
    staged   \* the text a cell was staged as, and what it was read from

moneyVars == <<price, typed, staged>>

Abs(n) == IF n < 0 THEN -n ELSE n
Signed(neg, n) == IF neg THEN -n ELSE n

\* int64 arithmetic.
Int64(n) == ((n + MaxInt + 1) % (2 * (MaxInt + 1))) - MaxInt - 1

\* Two digits, as zeroes fill the fraction up.
Hundredths(frac) ==
    (IF Len(frac) > 0 THEN 10 * frac[1] ELSE 0) + (IF Len(frac) > 1 THEN frac[2] ELSE 0)

\* Mutant of WholeFits: the hundredths are forgotten.
WholeFitsAlone(whole) == whole <= MaxInt \div 100

\* Leaves room for 99 hundredths.
WholeFits(whole) == whole <= (MaxInt - 99) \div 100

\* parseDecimalToMinor, and so ParseMoney: the amount, if the text is one.
ParseMoney(text) ==
    IF WholeFits(text.whole) /\ Len(text.frac) <= 2
    THEN {Int64(Signed(text.neg, Int64(Int64(text.whole * 100) + Hundredths(text.frac))))}
    ELSE {}

\* ParseMoneyRounded: half away from zero, if int64 has it.
ParseMoneyRounded(f) ==
    LET cents == Abs(100 * f.num)
        up    == IF 2 * (cents % f.den) >= f.den THEN 1 ELSE 0
        minor == Signed(f.num < 0, (cents \div f.den) + up)
    IN IF minor \in (-MaxInt - 1)..MaxInt
       THEN {[amount |-> minor, rounded |-> cents % f.den # 0]} ELSE {}

\* Money.Decimal: always two digits after the point.
Decimal(minor) ==
    LET m == Abs(minor)
    IN [neg |-> minor < 0, whole |-> m \div 100, frac |-> <<(m % 100) \div 10, m % 10>>]

-----------------------------------------------------------------------------
\* A client saves a document or a variant with this amount.
Save ==
    \E text \in Texts : \E m \in ParseMoney(text) :
        /\ m >= 0
        /\ price' = m
        /\ typed' = [num |-> Signed(text.neg, text.whole * 100 + Hundredths(text.frac)), den |-> 100,
                     rounded |-> FALSE]
        /\ UNCHANGED staged

\* A client saves the document as it reads it.
SaveAsRead ==
    /\ price # NoAmount
    /\ \E m \in ParseMoney(Decimal(price)) : price' = m
    /\ UNCHANGED <<typed, staged>>

\* A cell of a price column is staged, as text.
Stage ==
    \E f \in Fractions : \E read \in ParseMoneyRounded(f) :
        /\ read.amount >= 0
        /\ staged' = [text |-> Decimal(read.amount), num |-> f.num, den |-> f.den, rounded |-> read.rounded]
        /\ UNCHANGED <<price, typed>>

\* The row is imported: its text is an input like a client's.
Import ==
    /\ staged # NoAmount
    /\ \E m \in ParseMoney(staged.text) : m >= 0 /\ price' = m
    /\ typed' = [num |-> staged.num, den |-> staged.den, rounded |-> staged.rounded]
    /\ staged' = NoAmount

MoneyInit == price = NoAmount /\ typed = NoAmount /\ staged = NoAmount

MoneyNext == Save \/ SaveAsRead \/ Stage \/ Import

MoneySpec == MoneyInit /\ [][MoneyNext]_moneyVars

-----------------------------------------------------------------------------
\* The amount is the nearest to the fraction; it is the fraction unless rounding
\* was shown.
Nearest(minor, of) ==
    /\ 2 * Abs(minor * of.den - 100 * of.num) <= of.den
    /\ ~ of.rounded => minor * of.den = 100 * of.num

(* A price is the amount that was typed, to the nearest hundredth and only rounded
   where the review says so; and it can be saved as it is read, however often,
   without a change: "a silently rounded price is a bug" (money.go). *)
AmountsAreExact ==
    price # NoAmount => Nearest(price, typed) /\ ParseMoney(Decimal(price)) = {price}
=============================================================================
