SPECIFICATION Spec
CONSTANTS
  Apps <- MCApps
  Word = 16
  Mhz = 150
  Delay <- MCDelay
  Gap = 3
  Temperatures <- MCTemperatures
  FifoDepth = 2
  MaxResets = 1
INVARIANT
  NumbersReadBack
PROPERTIES
  Intelligible
  CountsUp
  DelayLongEnough
  KeepsBlinking
