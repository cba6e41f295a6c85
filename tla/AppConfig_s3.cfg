SPECIFICATION Spec
CONSTANTS
  Documents = {}
  Images = {}
  Gpios <- S3Gpios
  OutputGpios <- S3Gpios
  Restricted <- S3Restricted
  SpiHosts = 3
  KconfigPins <- S3Pins
  FlashFails = FALSE
  MaxSaves = 1
PROPERTIES
  WifiIsSaved
