\* Runners come and go, also before the site notices.
SPECIFICATION FairSpec
CONSTANTS
  r1 = r1
  r2 = r2
  c1 = c1
  c2 = c2
  Runners = {r1, r2}
  Connections <- TwoAndOne
  RunnerOf <- Owner
  Compilators = {c1, c2}
  Offers <- SharedOffers
  Nobody = Nobody
  None = None
  MaxFaults = 2
INVARIANT TypeOK
INVARIANT ConnectedIsListed
INVARIANT DisableSparesListed
PROPERTY RunnersSettle
