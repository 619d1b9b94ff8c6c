\* A reader whose copy to user space failed, then reads again with the
\* same 4-word buffer and 3-word watermark.
CONSTANTS
  BufSize = 4
  Watershed = 1
  MaxRecords = 3
  MaxRecLen = 2
  CopyFaults = TRUE

SPECIFICATION Spec
PROPERTY WatermarkWakesReader
