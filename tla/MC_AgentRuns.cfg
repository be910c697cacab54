SPECIFICATION FairRuns
CONSTANTS
    Unset = Unset
    sim = sim
    hosted = hosted
    own = own
    Requests = {"r", "s"}
    Process <- OwnProcess
    Sim = sim
    Order <- TheOrder
    Private = {own}
    Agents <- TheAgents
    Plans <- ThePlans
    Routes <- TheRoutes
    Policies <- ThePolicies
    Configs <- TheConfigs
    Start <- TheStart
    Sizes = {1}
    DailyLimit = 2
    MonthlyBudget = 2
    Threshold = 2
    Cooldown = 1
    MaxRequests = 2
    MaxChanges = 1
INVARIANTS DataStaysWithin TokensMetered BreakerHolds
PROPERTY RunsEnd
CHECK_DEADLOCK FALSE
