SPECIFICATION EventsSpec
CONSTANTS
  m1 = m1  v1 = v1  v2 = v2  e1 = e1  h1 = h1  h2 = h2
  Null = Null  Unset = Unset
  Missions = {m1}
  Vehicles <- TwoVehicles
  Events <- OneEvent
  Times = {1, 2}
  Threads <- TwoThreads
SYMMETRY Symmetries
INVARIANTS EventsFiled
