SPECIFICATION Spec
CONSTANTS
  disk2 = disk2
  disk3 = disk3
  stick = stick
  otherStick = otherStick
  drive = drive
  image = image
  NoDevice = NoDevice
  Names <- MCNames
  Devices <- MCDevices
  Internal <- MCInternal
  DeviceUnits <- MCDeviceUnits
  MaxTime = 4
SYMMETRY Symmetry
CHECK_DEADLOCK FALSE
INVARIANT OnlySelectedIsErased
