SPECIFICATION Spec
CONSTANTS
  Documents <- MCDocuments
  Images <- MCImages
  Gpios <- Esp32Gpios
  OutputGpios <- Esp32Outputs
  Restricted <- Esp32Restricted
  SpiHosts = 3
  KconfigPins <- Esp32Pins
  FlashFails = TRUE
  MaxSaves = 3
INVARIANTS
  RunningIsValid
  UneditedFormKeeps
  AcceptedAsAsked
PROPERTIES
  RestartKeeps
