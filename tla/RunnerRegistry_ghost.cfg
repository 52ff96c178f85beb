\* A late notice makes a working runner invisible.
SPECIFICATION Spec
CONSTANTS
  r1 = r1
  r2 = r2
  c1 = c1
  c2 = c2
  Runners = {r1, r2}
  Connections <- TwoAndOne
  RunnerOf <- Owner
  Compilators = {c1, c2}
  Offers <- SharedOffers
  Nobody = Nobody
  None = None
  MaxFaults = 1
INVARIANT DisableSparesConnected
