SPECIFICATION Spec
CONSTANTS
  c1 = c1
  c2 = c2
  c3 = c3
  Clients <- MCClients
  MaxImages = 2
  MaxBytes = 4
  Sizes = {1, 4, 5}
  MaxRestarts = 2
SYMMETRY Symmetric
INVARIANTS
  TypeOK
  StoreIsNewestFitting
  FetchedIsObserved
PROPERTIES
  MissingWasOvertaken
