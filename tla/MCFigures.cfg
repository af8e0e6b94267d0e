CONSTANTS
    Figures = {"balance", "standing", "files", "statement"}
    deposit = deposit
    payout = payout
    Payments <- TwoPayments
    Value <- Values
    Charge <- Charges
    LedgerSource = "provider"
    MaxAnchors = 1
    cron = cron
    page = page
    CU1 = CU1
    KycRuns <- TwoRuns
    Nightly = cron
    KycAccounts <- TwoAccounts
    Clients = {CU1}
    LookBack = 1
    Undated = TRUE
    LastDay = 1
    MaxVerified = 2
    MaxCuts = 1
    CrmFiles <- SomeCrmFiles
    CashierFiles <- SomeCashierFiles
    ProviderFiles <- SomeProviderFiles
    Configs <- Providers
    Guarded = {"south"}
    EventLogs <- SomeEventLogs
    Statements <- SomeStatements
    MaxScanned = 3
    Early = 1
    Late = 3
    Tolerance = 1

SPECIFICATION FiguresSpec
INVARIANTS EstimateIsTrue NoDaySkipped StandingIsLatest SettledFirst ExactFirst ReconciledIsAgreed FoldedIsHarmless DriftIsItemised
CHECK_DEADLOCK FALSE
