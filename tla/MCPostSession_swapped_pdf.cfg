SPECIFICATION Spec
CONSTANTS
  Run = {r1, r2}
  WithRecipient = {r1, r2}
  Event = {"sample"}
  SourceOf <- Sources
  StepMayFail = FALSE
  GatewayMayDie = FALSE
INVARIANT DeliveryIsOfItsReport
CHECK_DEADLOCK FALSE
