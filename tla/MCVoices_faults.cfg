SPECIFICATION Spec
CONSTANTS
  ada = ada
  Ada = Ada
  bob = bob
  c1 = c1
  c2 = c2
  c3 = c3
  v1 = v1
  v2 = v2
  Names = {ada, Ada, bob}
  Fold <- Folded
  Works = {none}
  NoWork = none
  Senders <- OnTwoWorks
  Choices <- ThreeChoices
  VoiceOf <- TwoVoices
  NoChoice = NoChoice
  Configs <- SomeConfigs
  GreetingWindow = 1
  AssignmentWindow = 1
  Faults = {"clip", "log"}
  Nobody = Nobody
  MaxTime = 2
INVARIANTS
  TypeOK
  OwnVoice
  Releasable
