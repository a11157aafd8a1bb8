SPECIFICATION FairSpec
CONSTANTS
  Run = {r1, r2}
  WithRecipient = {r1, r2}
  Event = {"visual"}
  SourceOf <- Sources
  StepMayFail = TRUE
  GatewayMayDie = TRUE
INVARIANTS TypeOK ReportCoversStored RenderedBeforeMail PathHasObject SentWasMailed UncrossedDelivery
PROPERTIES RecipientGetsReport ImplementsDelivery
CHECK_DEADLOCK FALSE
