CONSTANTS
  U16 = 1
  U32 = 2
  U64 = 3
  Noise = {0, 1, 2, 66, 75, 78, 79, 98, 110, 116, 117, 169, 195, 255}
  Sent <- MCSent
  Wires <- MCWires
SPECIFICATION FairDecoderSpec
CHECK_DEADLOCK FALSE
INVARIANTS DecodesWhatWasSent AcceptsItsBytes
PROPERTY DecodeReturns
