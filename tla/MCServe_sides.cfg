SPECIFICATION ServeSpec
CONSTANTS
  ada = ada
  Ada = Ada
  bob = bob
  c1 = c1
  c2 = c2
  c3 = c3
  v1 = v1
  v2 = v2
  Names = {ada, Ada, bob}
  Fold <- Folded
  Works = {none, home}
  NoWork = none
  Senders <- OnTwoWorks
  Choices <- ThreeChoices
  VoiceOf <- TwoVoices
  NoChoice = NoChoice
  Configs <- SomeConfigs
  GreetingWindow = 2
  AssignmentWindow = 2
  Faults = {}
  Nobody = Nobody
  MaxTime = 3
  heart = heart
  bella = bella
  typo = typo
  say = say
  spell = spell
  Calls <- Tools
  Request <- Asked
  VoiceNames <- ThreeVoices
  Kokoro = {heart, bella}
  Entries = {say, spell}
  Default <- Plain
  AtStart <- AtFirst
  Edits <- GoodEdits
  Broken = Broken
  Missing = Missing
  Overlap = FALSE
  Stamps = {1, 2, 3, 4}
  MaxSubmitted = 2
  Interval = 3
  Grace = 3
  GenMax = 2
  FailMax = 0
  PlayMax = 7
  Texts = 2
  MaxPending = 3
  Failures = {"loop", "worker"}
  InWindows = FALSE
INVARIANTS
  ServeTypeOK
  KeepsServing
  RestartsOnlyTheWedged
  
PROPERTIES
  KeepsVoice
  ReusedOnlyWhenOut
  QuietestIsReused
  NotReannounced
  AnnouncedWhenQuiet
  WritesChangeOneThing
  SpokenAsLastRead
CHECK_DEADLOCK FALSE
