SPECIFICATION FairSpec
CONSTANTS
    Writers = {w1}
    KFIFO_LEN = 8
    KFIFO_THRESHOLD_LEN = 3
    MaxLen = 2
    MaxFrames = 3
    MaxInterrupts = 0
PROPERTY TraceReturns
