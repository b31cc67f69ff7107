SPECIFICATION FairSpec
CONSTANTS
  None = None
  MaxRenewals = 3
  MaxChanges = 5
  RenewWhileStarting = FALSE
  StopWhileStarting = FALSE
INVARIANTS RestartsAreForChanges EndsForCause
PROPERTIES RenewalServed StopObeyed
