SPECIFICATION Spec
CONSTANTS
  rent = rent
  setup = setup
  office = office
  parking = parking
  install = install
  r1 = r1
  r2 = r2
  Agreements <- MCAgreements
  Services <- MCServices
  Of <- MCOf
  First <- MCFirst
  Step <- MCStep
  Year <- MCYear
  Lengths <- MCLengths
  AutoBilling <- MCAuto
  Runners <- MCRunners
  Worlds <- MCMonthEnd
INVARIANTS
  MonthlyIsMonthly
