SPECIFICATION Spec
CONSTANTS
  SeqMod = 8
  CmdMod = 8
  AckWindow = 2
  MaxTries = 1
  StartSequence = 6
  StartClientSequence = 6
  MaxCommands = 1
  MaxStates = 1
  MaxClientCommands = 2
  MaxServerPackets = 3
  MaxClientPackets = 3
INVARIANTS DeliveryInv ExactlyOnce
PROPERTY ImplementsStateUpdates
