SPECIFICATION Spec
CONSTANTS
  ByteBase = 256
  SectorSize = 2
  VolumeSize = 4
  ParamSize = 2
  Page <- Pages
  Word32 = 6
  Word64 = 64
  Values = {0, 1}
  Blank <- TwoSectors
  Ops = {40, 42, 138, 0, 18, 21, 26, 90, 158, 127}
  Asked = {"inquiry", "supported", "limits", "caching", "capacity"}
  Lbas = {0, 1, 2}
  Xfers = {0, 1, 2, 4}
  Payloads <- Buffers
INVARIANT
  EmulateInv
PROPERTY
  DeviceSpec
