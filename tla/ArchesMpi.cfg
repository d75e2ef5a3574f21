\* Two messages each way, of two chunks from the host and one or two from the FPGA;
\* the network holds two messages.  The clients may stop.
CONSTANTS
  QueueDepth = 2
  NetDepth = 2
  H2FPayloads = {1}
  F2HPayloads = {0, 1}
  MaxH2F = 2
  MaxF2H = 2
SPECIFICATION FairSpec
INVARIANTS
  TypeOK
  CommandsWhole
  Handshake
PROPERTIES
  H2FInOrder
  F2HInOrder
  MessagesArrive
CHECK_DEADLOCK FALSE
