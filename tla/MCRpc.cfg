CONSTANTS
  Procs = {"vsf", "app"}
  Forwards <- MCSomeForwards
  Resendable <- MCSomeSets
  MaxResend = 1
SPECIFICATION FairSpec
INVARIANTS CallsAndCopiesAgree OnlyForwardedRejected AnswersMatch OnlyEarlyAppFails PackagesCarry
PROPERTIES EveryRequestAnswered
CHECK_DEADLOCK FALSE
