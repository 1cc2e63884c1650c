SPECIFICATION SettingsSpec
CONSTANTS
  heart = heart
  bella = bella
  typo = typo
  say = say
  spell = spell
  Calls <- Tools
  Request <- Asked
  VoiceNames <- ThreeVoices
  Kokoro = {heart, bella}
  Entries = {say, spell}
  Default <- Plain
  AtStart <- AtFirst
  Edits <- BadEdits
  Broken = Broken
  Missing = Missing
  Overlap = FALSE
  Stamps = {1, 2}
  MaxSubmitted = 1
INVARIANTS
  KeepsServing
CHECK_DEADLOCK FALSE
