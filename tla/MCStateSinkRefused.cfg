CONSTANTS
  Devices = {d1}
  KnownDevice = d1
  CloudId = hash
  Http = {a}
  Pump = {}
  Cloud = {a}
  Observer = {}
  Allowed = {TRUE}
  MaxClients = 2
SPECIFICATION Spec
INVARIANTS
  SinkOnceConnected
