SPECIFICATION FairSpec
CONSTANTS
  BufferSize <- MCBufferSize
  MinChunk <- MCMinChunk
  MaxMessage <- MCMaxMessage
  MaxBytes <- MCMaxBytes
  MaxStarts = 3
  MaxFaults = 1
INVARIANTS FileIsPrefix StopWritesAll
PROPERTIES FullLogDrained ReliableWriteReturns StartReturns
CHECK_DEADLOCK FALSE
