SPECIFICATION Spec
CONSTANTS
  NoCase = NoCase
  NoCap = NoCap
  NoReranker = NoReranker
  Failing = Failing
  Unranked = Unranked
  RankingFails = RankingFails
  Unreadable = Unreadable
  NoVersion = NoVersion
  Nothing = Nothing
  RecallTopN = 3
  FilteredOutLimit = 2
  RrfK = 60
  Session = {"a", "b"}
  RepeatThreshold = 2
  Window = 3
  CheckInterval = 2
  EmptyLimit = 2
  PriceCase <- MCPriceCase
  SearchCase <- MCSearchCase
  Annotation <- MCAnnotation
  FusionCase <- MCFusionCase
  SelectionCase <- MCSelectionCase
  PreferenceCall <- MCPreferenceCall
  MaxCalls = 5
  MaxEvents = 7
  Discount <- MCDiscount
  StoreCase <- MCStoreCase
  GuardCase <- MCGuardCase
  RankingCase <- MCRankingCase
  JudgementCase <- MCJudgementCase
INVARIANTS
  LandedFaithful
  HitsHonourTheRequest
  FusionRespectsBoth
  DislikesKept
  PreferenceStoresAgree
  ProductStoresAgree
  GuardsSeeTheTurn
  BetterIsScoredBetter
