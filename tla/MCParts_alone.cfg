SPECIFICATION PartsSpec
CONSTANTS
  Char <- CharSet
  WordChar <- WordChars
  Fold <- CaseFold
  Texts <- ShortTexts
  EntryLists <- ShortLists
  RequestIds <- TwoCalls
  Asks <- AnyBesideSpeak
  StartBurst = 2
  AtCheckout = TRUE
  Writers = {w1, w2}
  LogKeep = 3
  LogLimit = 3
  LineSizes = {1, 2, 4}
  MaxLines = 6
  ByHand = {"hand"}
  MaxSubmissions = 3
INVARIANTS
  PartsTypeOK
  SpokenAsReference
  WholeWordsOnly
  NothingDangles
  ResultIsTrue
  LogKeptInOrder
  AnswerIsTrue
  BegunOnce
PROPERTIES
  EveryStepReads
  EveryCallEnds
CHECK_DEADLOCK FALSE
