\* Streams of up to 6 bytes: does ReadPacket reject bad input without
\* panicking?
CONSTANTS
  Chars = {"a"}
  MaxLen = 0
  MaxLength = 0
  Alphabet = {0, 1, 52, 127, 128, 224, 255}
  MaxStream = 6
SPECIFICATION Spec
INVARIANT ReadPacketFailsCleanly
