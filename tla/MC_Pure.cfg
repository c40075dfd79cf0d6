\* Topic matching over {a, b, /}, lengths up to 20000 and the varint
\* boundaries, and streams of up to 6 bytes.
CONSTANTS
  Chars = {"a", "b"}
  MaxLen = 4
  MaxLength = 20000
  Alphabet = {0, 1, 52, 127, 128, 224, 255}
  MaxStream = 6
SPECIFICATION Spec
INVARIANT CodeMatchIsSound
INVARIANT EncodeDecodeRoundTrip
INVARIANT ReadPacketAgreesOnValid
INVARIANT WriteIsMqtt
