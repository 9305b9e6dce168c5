SPECIFICATION Spec
CONSTANTS
  ByteBase = 2
  SectorSize = 2
  VolumeSize = 4
  ParamSize = 2
  Page <- Pages
  Word32 = 6
  Word64 = 64
  Values = {0, 1}
  Blank <- TwoSectors
  Ops = {8, 42}
  Asked = {}
  Lbas = {0, 1, 2}
  Xfers = {0, 1, 2, 4}
  Payloads <- Buffers
INVARIANT
  AddressOfCommand
