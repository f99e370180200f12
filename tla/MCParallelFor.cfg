CONSTANTS
  inner = inner
  empty = empty
  pool = pool
  whole = whole
  min_step <- MCStep
  Root = Root
  Workers = {w1, w2, w3}
  Scopes = {Root, inner, empty, pool, whole}
  HostChunk <- MCHostChunk
  Earlier <- MCEarlier
  range_begin <- MCBegin
  range_end <- MCEnd
  num_jobs <- MCJobs
  ChannelCounts = {3, 4}
  Native = {pool, whole}
  NoJob = NoJob
SPECIFICATION FairSpec
INVARIANTS EachIndexOnce NoUseAfterDestroy
PROPERTIES ParallelForReturns ChannelLoopEnds
