SPECIFICATION PartsSpec
CONSTANTS
  Lengths <- MCLengths
  MaxParsed = 300
  Masks <- MCMasks
  Urls <- MCUrls
  MaxSent = 3
  Words = {"a", "b"}
  MaxText = 4
  MaxMessage = 3
  Texts <- MCTexts
  NotANumber = 1000000
  QualityArgs = {0, 5}
  ChosenTenths = {9}
  MaxArgs = 1
  Displays <- MCDisplays
  Qualities = {20, 30}
  Rates = {2, 3}
  Mantissa = 32
  Units <- MCUnits
  MaxPlays = 3
  MaxFrames = 4
  MaxClock = 4
  Screens <- MCScreens
  Box <- MCBox
  MaxChains = 3
CHECK_DEADLOCK FALSE
INVARIANTS
  FramesUnderstood
  AnswersFit
  TextRight
  StreamFollows
  PicturesFit
  PlayerAgrees
  PicturesDecoded
  WindowShows
