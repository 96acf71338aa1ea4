SPECIFICATION Spec
CONSTANTS
  c1 = c1
  c2 = c2
  asset = asset
  Crawls = {c1, c2}
  Subresources = {asset}
  Asks <- MCAsks
  Urls <- MCUrls
  Answers <- MCAnswers
  MaxHops = 1
  MaxResponses = 2
INVARIANTS
  TypeOK
  ContextsAccounted
  RefusalWins
  
  LogWithinLimit
PROPERTIES
  EveryCrawlEnds
