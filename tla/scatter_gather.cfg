CONSTANTS
  TWE_ALIGNMENT = 2
  TWE_SECTOR_SIZE = 2
  TWE_MAX_SGL_LENGTH = 3
  TWE_MAX_IO_LENGTH = 5
  TWE_MAX_COPYBUFFER = 8
  PacketWords = 10
  BlockCounts = 6
  PageSize = 4
  UserSizes = {2, 3, 253}
  UserOffsets = {0, 1, 3, 7}
  MaxUserSize = 7
SPECIFICATION Spec
INVARIANTS TypeOK ListCovers ReportedWhole
