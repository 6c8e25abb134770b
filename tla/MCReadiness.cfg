CONSTANTS
    Channels = {"c1", "c2"}
    Senders = {"s1", "s2", "s3"}
    ChannelOf <- MCChannelOf
    MaxSends <- MCMaxSends
    WordSize = 32
SPECIFICATION Spec
INVARIANTS QueueSound SleepSafe
PROPERTIES Delivered
