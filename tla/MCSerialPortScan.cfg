SPECIFICATION Spec
CONSTANTS
  Pins <- MCPins
  RxPin = 3
  TxPin = 6
  CommonBauds <- MCCommonBauds
  Meters <- MCMeters
  Configs <- MCConfigs
  PinDigits = 2
  PulsesPerDigit = 1
  RunsCommissioning = FALSE
  MaxRequests = 3
INVARIANTS
  ScanRestores
