-------------------------------- MODULE TaxUtil --------------------------------
(* common/utils/tax.util.ts, which prices a sale and a held order alike.   *)
EXTENDS Integers

\* basisPoints: the tax_rate of the tenant, a Decimal(5,2), times 100.
CalculateTax(enabled, basisPoints, taxableAmount) ==
  LET tax == IF enabled THEN (taxableAmount * basisPoints + 5000) \div 10000 ELSE 0
  IN  [tax |-> tax, total |-> taxableAmount + tax]
===============================================================================
