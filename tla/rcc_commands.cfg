SPECIFICATION FairSpec
CONSTANTS
  SeqMod = 16
  CmdMod = 8
  AckWindow = 2
  MaxTries = 1
  StartSequence = 1
  StartClientSequence = 0
  MaxCommands = 3
  MaxStates = 0
  MaxClientCommands = 0
  MaxServerPackets = 4
  MaxClientPackets = 2
PROPERTIES ResendBeforeNew ImplementsReliableCommands KeepsSending
