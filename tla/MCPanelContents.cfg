SPECIFICATION Spec
CONSTANTS
  Openings <- MCOpenings
  Arrivals <- MCArrivals
  Beyond <- MCBeyond
  MaxPackets = 4
  Waits = {1000, 150050, 600000}
  TiesDownOnServer = {}
  TiesDownInBrowser = {150050}
  Burst = 6
  Served = 12
  Addresses = {1, 2, 3}
  Clients = {1, 2}
  Sessions <- MCSessions
  MaxListed = 4
  Attackers <- MCAttackers
  MaxSessions = 2
  MaxRows = 3
  MaxDrill = 2
  MaxEntries = 2
  MaxCountries = 1
  Country <- MCCountry
  External = {2, 3}
CHECK_DEADLOCK FALSE
INVARIANTS
  DiagnosesAgree
  LabelsTrue
