SPECIFICATION Spec
CONSTANTS
  c1 = c1
  c2 = c2
  s1 = s1
  s2 = s2
  s3 = s3
  p1 = p1
  p2 = p2
  Client = {c1, c2}
  Sku <- Skus
  Product <- Products
  ProductOf <- ProductMap
  CurrencyOf <- CurrencyMap
  Target = s1
  SeedStock <- StockMap
  SeedPrice <- PriceMap
  Rise = 1
  Quantities = {2}
  MaxLines = 2
  MaxRequests = 2
  MaxScenarios = 1
  Ops = {"place"}
  Scenarios = {"price-rise", "off-shelf", "out-of-stock"}
  Faults = {"db", "timeout"}
SYMMETRY ClientSymmetry
INVARIANTS
  TypeOK
  PriceHonoured
  NoOversell
PROPERTIES
  CardSpentOnce
