\* The drain's records and the reader as in MCEventBuffer.cfg, and one
\* three-word record from oprofile_stop appended without buffer_sem.
CONSTANTS
  BufSize = 4
  Watershed = 1
  MaxRecords = 2
  MaxRecLen = 2
  CopyFaults = FALSE
  MaxCtlRecords = 1

SPECIFICATION CtlSpec
INVARIANT DeliveredOnceInOrder
