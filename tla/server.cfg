SPECIFICATION Spec
CONSTANTS
  Nobody = Nobody  NoContent = NoContent
  s1 = s1  s2 = s2  Logins = {s1, s2}
  Browsers = {b1}  Addresses = {a1}  Placeholder = wx  MaxTokens = 2  MaxRequests = 2
  Requests = {r1, r2}  Viewers = {v1}  Initial = 2  TokenCounts = {0, 32, 33, 65}
  MaxChunks = 3  MaxToolCalls = 2  RetryCount = 1
  Calls = {1, 2}  Contents = {c1, c2}  Wide = {c2}  Docs = {1, 2}  MaxCalls = 4
  d1 = d1  d2 = d2  d3 = d3  b0 = b0  h0 = h0
  Searches = {q1, q2}  Queries <- Asked  TopKs = {0, 1, 3}  MinFetch = 2  MaxFetch = 3
  StoreDocs = {d1, d2, d3}  BuiltIn <- Fallbacks  Heuristic = h0  Unrated = Unrated
  Features <- FeaturesOf  Similarity <- SimilarityOf  Quality <- QualityOf  Templates <- TemplatesOf
INVARIANTS
  LoginNotLost LedgerExplainsBalance AnsweredIsCharged
  ReplyIsWhole ShownIsAnswer HashMeansChunks BestAreKept
PROPERTIES ConfirmedLoginEnds
CHECK_DEADLOCK FALSE
