SPECIFICATION FairSpec
CONSTANTS
  Pins <- MCPins
  RxPin = 3
  TxPin = 6
  CommonBauds <- MCCommonBauds
  Meters <- MCMeters
  Configs <- MCConfigs
  PinDigits = 2
  PulsesPerDigit = 1
  RunsCommissioning = TRUE
  MaxRequests = 3
INVARIANTS
  TypeOK
  PortGivenBack
  PulseOwnsPort
  OneReader
  CommissioningRight
PROPERTIES
  ScanConfirms
  PortReturns
