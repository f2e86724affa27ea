SPECIFICATION TransfersSpec
CONSTANTS
  ChunkSize = 16777216
  Overhead = 28
  FileSizes = {1, 16777188, 16777189, 16777216, 16777217, 33554432}
  Paddings = {0, 65536}
CHECK_DEADLOCK FALSE
INVARIANTS CountIsUploaded
