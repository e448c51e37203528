SPECIFICATION FairSpec
CONSTANTS
  ctl = ctl
  blk = blk
  Conns <- MCConns
  Priority <- MCPriority
  Weight <- MCWeight
  MaxQueuedBytes <- MCMaxQueuedBytes
  Bulk <- MCBulk
  HighWater = 2
  LowWater = 1
  TotalLimit = 4
  FrameSizes = {1, 3}
  Wrap = 3
  None = None
PROPERTIES BulkProgresses
