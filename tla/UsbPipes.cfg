CONSTANTS
  Devices <- MCDevices
  MaxWire = 2
SPECIFICATION PipesSpec
INVARIANT TablesAreSettings
PROPERTY EndsOnlyApart
