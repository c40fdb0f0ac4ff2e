-------------------------- MODULE PayrollCalculator --------------------------
(***************************************************************************)
(* finance/domain/payroll-calculator.ts: what an employee of a payroll     *)
(* period is paid.  Amounts are whole cents and rates are whole numbers of *)
(* which Whole is one, so roundMoney is exact here where the code rounds   *)
(* binary fractions.                                                       *)
(***************************************************************************)
EXTENDS Integers, Sequences, Functions

CONSTANTS
    Whole,      \* the rate 1: 100 where rates are in percent
    NoLimit     \* upTo of the last, open bracket: null

ASSUME WholeAssumption == Whole \in Nat \ {0}

\* roundMoney of n parts of a cent, Whole to the cent: half a cent goes up.
RoundMoney(n) == (2 * n + Whole) \div (2 * Whole)

Positive(n) == IF n < 0 THEN 0 ELSE n

IsOpen(bracket) == bracket.upTo = NoLimit

\* Ordered upper bounds, the last bracket and no other open.
ValidBrackets(brackets) ==
    /\ brackets # <<>>
    /\ \A i \in DOMAIN brackets :
        /\ brackets[i].rate \in 0 .. Whole
        /\ IsOpen(brackets[i]) <=> i = Len(brackets)
        /\ ~IsOpen(brackets[i]) =>
            brackets[i].upTo > (IF i = 1 THEN 0 ELSE brackets[i - 1].upTo)

\* What POST /payroll/tax-profiles accepts.
ValidProfile(profile) ==
    /\ profile.employee \in 0 .. Whole /\ profile.employer \in 0 .. Whole
    /\ profile.cap \in Int /\ profile.deduction \in Int
    /\ profile.brackets \in Seq([upTo : Nat \cup {NoLimit}, rate : Nat])
    /\ ValidBrackets(profile.brackets)

\* The part of an income that falls into bracket i.
Slice(income, brackets, i) ==
    LET lower == IF i = 1 THEN 0 ELSE brackets[i - 1].upTo
        upper == IF IsOpen(brackets[i]) \/ income < brackets[i].upTo
                 THEN income ELSE brackets[i].upTo
    IN  Positive(upper - lower)

\* Each bracket is rounded on its own.
ProgressiveTax(income, brackets) ==
    FoldFunction(+, 0,
        [i \in DOMAIN brackets |-> RoundMoney(Slice(income, brackets, i) * brackets[i].rate)])

\* base: basePay, overtimePay, commission and allowance together; other:
\* otherDeductions; exempt: taxExemptAmount; insured: socialSecurityEnabled.
CalculatePayroll(input, profile) ==
    LET taxable  == Positive(input.base)
        gross    == taxable + Positive(input.reimbursement)
        capped   == IF profile.cap > 0 /\ profile.cap < taxable
                    THEN profile.cap ELSE taxable
        social   == IF input.insured THEN RoundMoney(capped * profile.employee) ELSE 0
        employer == IF input.insured THEN RoundMoney(capped * profile.employer) ELSE 0
        income   == Positive(taxable - social - Positive(profile.deduction)
                                     - Positive(input.exempt))
        tax      == ProgressiveTax(income, profile.brackets)
        deducted == Positive(input.other) + social + tax
    IN  [gross |-> gross, social |-> social, tax |-> tax, deductions |-> deducted,
         net |-> Positive(gross - deducted), cost |-> gross + employer]
=============================================================================
