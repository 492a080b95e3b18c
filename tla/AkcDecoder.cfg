CONSTANTS
  PosCount = 4
  Keys <- MCKeys
  AkcFiles <- MCAkcFiles
  TokenPrefix = 2
  HeadTokens = 3
  Unexpandable <- MCUnexpandable
  Refids = {0, 1, 2}
SPECIFICATION Spec
INVARIANT AnswerIsFresh
INVARIANT RowsAreArticles
INVARIANT RefidsAgree
INVARIANT PrefixStable
