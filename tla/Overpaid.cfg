SPECIFICATION Spec

CONSTANTS
  Loan <- SevenYears
  Annuity <- SevenYearAnnuity
  Days <- SomeDays

CHECK_DEADLOCK FALSE

INVARIANT SomethingIsOwed
