-------------------------------- MODULE Fees --------------------------------
(***************************************************************************)
(* The terms that the DFSP puts before the user: what the payee receives    *)
(* and what the transfer costs, from the quote (shared/feeCalculator.ts,    *)
(* called by onRequestAuthorization of models/dfspTransaction.model.ts).    *)
(*                                                                         *)
(* Amounts are decimal strings of up to four decimals that the code turns   *)
(* into binary floating point numbers, adds, and cuts to two decimals with  *)
(* toFixed(2).  Here they are integers, in units of a hundredth of a cent.  *)
(* For amounts far below 2^53 units the error of a sum is smaller than a    *)
(* unit: it decides only which way an amount half way between two cents is  *)
(* rounded, and both ways are possible.                                     *)
(***************************************************************************)
EXTENDS Integers

CONSTANTS
  Amounts,     \* of transfers, fees and commissions
  Currencies

ASSUME FeesAssumption == Amounts \subseteq Nat

Cent == 100
HalfCent == 50

Money == [amount : Amounts, currency : Currencies]

\* A fee or commission that the quote does not have.
Absent == [amount |-> 0, currency |-> "absent"]

\* What toFixed(2) may make of x.
ToFixed(x) ==
  LET below == (x \div Cent) * Cent
  IN {c \in {below, below + Cent} : x - c <= HalfCent /\ c - x <= HalfCent}

Mismatch(money, transfer) == money # Absent /\ money.currency # transfer.currency

\* A slip: the commission is taken from the payee as well.
PayeeReceives_Subtracted(transfer, fee, commission) ==
  ToFixed(transfer.amount - fee.amount - commission.amount)

\* payeeReceiveAmountForQuoteAndFees(), its amount.
PayeeReceives(transfer, fee, commission) ==
  IF fee = Absent /\ commission = Absent THEN {transfer.amount}
  ELSE ToFixed(transfer.amount - fee.amount + commission.amount)

\* feeForTransferAndPayeeReceiveAmount() throws.
Refused(transfer, receive) == transfer.amount - receive < 0

\* Otherwise the fee it returns.
Fee(transfer, receive) == ToFixed(transfer.amount - receive)

\* The terms of an authorization request, in every way they may come out: an error, or
\* what the payee receives and what the transfer costs.
Terms(transfer, fee, commission) ==
  IF Mismatch(fee, transfer) \/ Mismatch(commission, transfer) THEN {<<"error">>}
  ELSE UNION {IF Refused(transfer, r) THEN {<<"error">>}
              ELSE {<<r, f>> : f \in Fee(transfer, r)}
              : r \in PayeeReceives(transfer, fee, commission)}

Quotes == Money \X (Money \union {Absent}) \X (Money \union {Absent})

-----------------------------------------------------------------------------
(* Properties.                                                             *)

WholeCents(x) == x % Cent = 0

\* What the payee receives and the fee add up to what is transferred: exactly when the
\* transfer is in whole cents, within half a cent otherwise; and the fee is not negative.
\* The user of the PISP is shown all three, computed one from another with rounding
\* (dfspTransaction.model.ts:243-252).
TermsAddUp ==
  \A q \in Quotes : \A t \in Terms(q[1], q[2], q[3]) : t # <<"error">> =>
    LET rest == q[1].amount - (t[1] + t[2])
    IN /\ t[2] >= 0
       /\ -HalfCent <= rest /\ rest <= HalfCent
       /\ WholeCents(q[1].amount) => rest = 0

\* The fee that is shown is the payee's DFSP's fee less its commission: exactly when the
\* quote is in whole cents, within a cent otherwise.  It is computed as the difference of
\* two amounts, not from the two (dfspTransaction.model.ts:249-251).
FeeIsNet ==
  \A q \in Quotes : \A t \in Terms(q[1], q[2], q[3]) : t # <<"error">> =>
    LET net == q[2].amount - q[3].amount
    IN /\ -Cent <= t[2] - net /\ t[2] - net <= Cent
       /\ (\A i \in 1 .. 3 : WholeCents(q[i].amount)) => t[2] = net

\* A quote in one currency and in whole cents gets an error exactly when its commission
\* exceeds its fee; with fractions of a cent one whose fee is larger by less than half a cent
\* may be refused as well.  A quote in two currencies is always an error
\* (feeCalculator.ts:19-28, 69-72).
ErrorsAreDeserved ==
  \A q \in Quotes :
    LET net == q[2].amount - q[3].amount
        error == <<"error">> \in Terms(q[1], q[2], q[3])
        mixed == \E i \in 2 .. 3 : Mismatch(q[i], q[1])
    IN /\ mixed => Terms(q[1], q[2], q[3]) = {<<"error">>}
       /\ error /\ ~mixed => net < HalfCent
       /\ ~mixed /\ (\A i \in 1 .. 3 : WholeCents(q[i].amount)) => (error <=> net < 0)
=============================================================================
