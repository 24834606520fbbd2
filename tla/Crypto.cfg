CONSTANTS
  Values <- SomeValues
  Curves <- SomeCurves
  Radix = 2
  MaxHeld = 7
  MacLen = 3
  CounterMod = 4
  LengthMod = 128
  MaxOctets = 10
  BufSize = 16
  Labels <- SomeLabels
  Datas <- SomeDatas
SPECIFICATION CSpec
INVARIANTS BignumRight Owned PrfRight PeerKeyRight
