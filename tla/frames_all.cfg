\* Two frames of any classes and sizes, and a connection that may break anywhere.
SPECIFICATION FrameSpec
CONSTANTS
  Byte = 4
  Texts <- SomeTexts
  Names <- SomeNames
  Contents <- SomeContents
  Ports <- SomePorts
  MaxFrames = 2
  Lengths <- SomeLengths
INVARIANTS ReadAsSent InStep LengthsObeyed
PROPERTIES FramesAreChannel
CHECK_DEADLOCK FALSE
