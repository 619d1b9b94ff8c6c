\* A 4-word buffer with the watermark at 3 words, three drain records of one
\* or two words (enough to fill it and drop words), and copies that may fail.
CONSTANTS
  BufSize = 4
  Watershed = 1
  MaxRecords = 3
  MaxRecLen = 2
  CopyFaults = TRUE

SPECIFICATION Spec

INVARIANT TypeOK
INVARIANT DeliveredOnceInOrder
INVARIANT ReadsAreWholeRecords
INVARIANT EagainOnlyAfterDump
PROPERTY DumpReleasesReader
