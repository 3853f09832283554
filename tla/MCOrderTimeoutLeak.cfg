SPECIFICATION Spec
CONSTANTS
  c1 = c1
  c2 = c2
  s1 = s1
  s2 = s2
  s3 = s3
  p1 = p1
  p2 = p2
  Client = {c1}
  Sku <- Skus
  Product <- Products
  ProductOf <- ProductMap
  CurrencyOf <- CurrencyMap
  Target = s1
  SeedStock <- StockMap
  SeedPrice <- PriceMap
  Rise = 1
  Quantities = {1}
  MaxLines = 1
  MaxRequests = 1
  MaxScenarios = 0
  Ops = {"place"}
  Scenarios = {}
  Faults = {"timeout"}
INVARIANT NothingLeaked
