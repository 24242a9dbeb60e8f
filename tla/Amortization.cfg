SPECIFICATION Spec

CONSTANTS
  Loan <- Loans
  Annuity <- TableAnnuity
  Days <- SomeDays

CHECK_DEADLOCK FALSE

INVARIANT BalancesChain
INVARIANT PrincipalSumsExactly
INVARIANT PaymentsGain
INVARIANT ZeroRateIsEven
INVARIANT RoundingIsBankers
INVARIANT AllocationIsExact
INVARIANT StringParsesBack
