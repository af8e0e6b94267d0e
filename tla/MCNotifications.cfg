CONSTANTS
    cron = cron
    page = page
    failing = failing
    stalled = stalled
    Passes <- Both
    Signatures <- Conditions
    Serious <- Outage
    CoolOff = 1
    MaxRows = 2
    MaxFaults = 1

SPECIFICATION FairSpec
PROPERTIES OncePerCoolOff FiringIsTold
