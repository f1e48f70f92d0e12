CONSTANTS
  Devices = {"d1", "d2"}
  CloudId = "cloud"
  Models <- MCModels
  Allowed = {TRUE, FALSE}
  Libraries = {"paho", "tests"}
  Topics = {"temp", "level", "ghost"}
  Payloads = {"1", ""}
  MaxChoices = 2
SPECIFICATION FairSpec
INVARIANTS
  CommandsFit
  ChoicesInOrder
PROPERTIES
  CommandsEnd
