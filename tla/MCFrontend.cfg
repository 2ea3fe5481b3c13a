SPECIFICATION ParserSpec
CONSTANTS
  Sources <- MCSources
  MaxRaw = 5
  MaxDamage = 3
INVARIANTS PositionsRight RoundTrip RecoveryLocal
PROPERTIES Terminates
