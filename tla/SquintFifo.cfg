\* Two writers: their two records fit the threshold, 2 * 2 <= 5; an interrupted wait does not.
SPECIFICATION FairSpec
CONSTANTS
    Writers = {w1, w2}
    KFIFO_LEN = 8
    KFIFO_THRESHOLD_LEN = 5
    MaxLen = 2
    MaxFrames = 2
    MaxInterrupts = 2
INVARIANTS TypeOK NoTruncation Reserve
PROPERTY FlaggedSleeperWakes
