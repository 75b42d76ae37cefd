SPECIFICATION FairSpec
CONSTANTS
  Anomaly <- MCAnomaly
  Remedies = {"throttle"}
  Timer = {"timer"}
  Act = {"click"}
  Written = {"dispatched", "pending_approval", "executed", "rolled_back", "no_op", "alert_only_no_action_taken"}
  Recent = 1
  Actionable = 2
  ActionsWindow = 2
  MaxEntries = 4
  MaxEvents = 1
INVARIANTS TypeOK WindowNeverOffersMore OfferNeverRefused
PROPERTIES WithdrawnOnceApproved PanelSettles
CHECK_DEADLOCK FALSE
