\* Disk: two request blocks of up to two pages.  Network: two requests to
\* receive, one to transmit; two packets, short or too long.  Both may stop.
\* Floppy: chains of two requests, any page absent.  Stream: a boot file of
\* two buffers and a half.
CONSTANTS
  DiskIOCBs = {"a", "b"}
  MaxPages = 2
  Receives = {"r1", "r2"}
  Transmits = {"t1"}
  BufferLength = 2
  Lengths = {1, 2}
  MaxPackets = 2
  Heads = 2
  SectorsPerTrack = 2
  Cylinders = 2
  DataPages = {1, 2}
  FloppyRequests <- MCFloppyRequests
  MaxChain = 2
  FileWords = 5
  PageWords = 2
  AnswerWords = 1
SPECIFICATION Spec
CHECK_DEADLOCK FALSE
INVARIANTS
  RequestsExact
  AllPagesMoved
  OutcomesNotified
  PacketsIntact
  TransfersExact
PROPERTIES
  NotForgotten
  RequestsServed
  PacketDelivered
  ThreadsYield
