CONSTANTS
  Devices = {d1}
  KnownDevice = d1
  CloudId = hash
  Http = {a}
  Pump = {b}
  Cloud = {a}
  Observer = {a}
  Allowed = {TRUE, FALSE}
  MaxClients = 2
SPECIFICATION FairSpec
INVARIANTS
  CountdownFits
  OneClient
  FieldsDiscovered
PROPERTIES
  PayloadsEnd
