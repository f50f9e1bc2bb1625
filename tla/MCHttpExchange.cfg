\* Three request lines, HttpService and eight answers of other servers.
CONSTANTS
  None = None
  Tokens <- MCTokens
  OtherReplies <- MCOtherReplies
  HeaderTexts <- MCHeaderTexts

SPECIFICATION FairSpec

INVARIANT TypeOK
INVARIANT ReportedAsSent
INVARIANT HeadersAsSent
PROPERTY ExchangeEnds
PROPERTY AnswerIsReported

CHECK_DEADLOCK FALSE
