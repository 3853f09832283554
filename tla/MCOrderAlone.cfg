SPECIFICATION FairSpec
CONSTANTS
  c1 = c1
  c2 = c2
  s1 = s1
  s2 = s2
  s3 = s3
  p1 = p1
  p2 = p2
  Client = {c1}
  Sku <- MoreSkus
  Product <- Products
  ProductOf <- MoreProducts
  CurrencyOf <- MoreCurrencies
  Target = s1
  SeedStock <- MoreStock
  SeedPrice <- MorePrices
  Rise = 1
  Quantities = {0, 2}
  MaxLines = 2
  MaxRequests = 3
  MaxScenarios = 1
  Ops = {"place", "cancel"}
  Scenarios = {"out-of-stock", "reset"}
  Faults = {}
INVARIANTS
  OrderDurable
  StockExact
PROPERTIES
  ImplementsLedger
  RequestReturns
