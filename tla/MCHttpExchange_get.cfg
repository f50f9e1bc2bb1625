\* What HttpService answers a GET request.
CONSTANTS
  None = None
  Tokens <- MCTokens
  OtherReplies <- MCOtherReplies
  HeaderTexts <- MCHeaderTexts

SPECIFICATION Spec

INVARIANT GetIsSupported

CHECK_DEADLOCK FALSE
