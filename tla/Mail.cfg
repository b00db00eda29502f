SPECIFICATION FairSpec
CONSTANTS
    m0 = m0
    m1 = m1
    m2 = m2
    m3 = m3
    i1 = i1
    i2 = i2
    NoId = NoId
    NoCopy = NoCopy
    Copy <- MCCopy
    MessageId <- MCMessageId
    ThreadOf <- MCThreadOf
    Mailboxes <- MCMailboxes
    Old = {m0}
    MaxInterrupted = 2
    Tab = {o1}
    Scanner = auto
    MaxPerRun = 1
    MaxTrouble <- MCMaxTrouble
    MaxStaged = 3
INVARIANTS PassedIsDecided OnePlace ApprovedIsWritten
PROPERTIES ImplementsInbox EveryMessageDecided
