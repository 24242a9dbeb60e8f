------------------------------ MODULE MoneyText ------------------------------
(***************************************************************************)
(* Amounts as the API writes and reads them: String and Parse of           *)
(* money.Money.  A text is its sign, its whole part as a number and the    *)
(* digits of its fraction; e is the currency's exponent, the number of     *)
(* minor-unit digits.                                                      *)
(***************************************************************************)
EXTENDS Money, Sequences, Functions

(* The loop that computes String's factor.                                 *)
Factor[e \in Nat] == IF e = 0 THEN 1 ELSE 10 * Factor[e - 1]

(* Mutant of Padded: "%d" instead of "%0*d".                               *)
PaddedNot(n, e) ==
    LET m == CHOOSE k \in 0..e : /\ n < Factor[k] /\ (k = 0 => e = 0)
                                 /\ \A j \in 1..(k - 1) : n >= Factor[j]
    IN  [i \in 1..m |-> (n \div Factor[m - i]) % 10]

(* "%0*d": the e digits of a number below Factor[e].                       *)
Padded(n, e) == [i \in 1..e |-> (n \div Factor[e - i]) % 10]

String(amount, e) ==
    LET a == AbsOf(amount)
    IN  [neg |-> amount < 0, whole |-> a \div Factor[e], frac |-> Padded(a % Factor[e], e)]

(* A fraction that is too short is filled up with zeros on the right.      *)
Filled(frac, e) == [i \in 1..e |-> IF i <= Len(frac) THEN frac[i] ELSE 0]

(* strconv.ParseInt on e digits.                                           *)
Value(digits, e) == SumFunction([i \in 1..e |-> digits[i] * Factor[e - i]])

ParseFails(text, e) == Len(text.frac) > e

Parse(text, e) ==
    LET amount == text.whole * Factor[e] + Value(Filled(text.frac, e), e)
    IN  IF text.neg THEN -amount ELSE amount

(* What String writes reads as the same amount, also when a client leaves  *)
(* out the last zeros of the fraction, and one digit more is refused.      *)
ReadsBack(amount, e) ==
    LET text == String(amount, e)
    IN  /\ Parse(text, e) = amount
        /\ \A k \in 0..Len(text.frac) :
              LET short == [text EXCEPT !.frac = SubSeq(@, 1, k)]
              IN  (\A i \in (k + 1)..Len(text.frac) : text.frac[i] = 0)
                      => Parse(short, e) = amount
        /\ ParseFails([text EXCEPT !.frac = Append(@, 0)], e)

=============================================================================
