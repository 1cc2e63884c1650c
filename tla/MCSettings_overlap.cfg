SPECIFICATION SettingsSpec
CONSTANTS
  heart = heart
  bella = bella
  typo = typo
  say = say
  spell = spell
  Calls <- Tools
  Request <- Asked
  VoiceNames <- ThreeVoices
  Kokoro = {heart, bella}
  Entries = {say, spell}
  Default <- Plain
  AtStart <- AtFirst
  Edits <- GoodEdits
  Broken = Broken
  Missing = Missing
  Overlap = TRUE
  Stamps = {1, 2, 3, 4}
  MaxSubmitted = 0
PROPERTIES
  WritesChangeOneThing
CHECK_DEADLOCK FALSE
