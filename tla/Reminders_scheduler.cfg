CONSTANTS
    r1 = r1
    t2 = t2
    t1 = t1
    Reminders <- MCReminderIds
    Tools <- MCTools
    NoReminder = NoReminder
    Lease = 1
    Backoff = 1
    Interval = 2
    MaxOverdue = 1
    Versions = 3
    MaxOps = 2
    MaxFaults = 1
SPECIFICATION FairSpec
INVARIANT OneShotRunsOnce
 
PROPERTY DueRuns
