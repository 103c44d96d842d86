\* Three events of one route, two of them of one account, and one of another route.
CONSTANTS
    Events = {1, 2, 3, 4}
    Routes = {"cn", "intl"}
    Accounts = {"ann", "bob", "intl"}
    AccountOf <- MCAccountOf
    RouteOf <- MCRouteOf
    Quota = 2
    BatchMax = 2
    None = None
SPECIFICATION DeliveryFairSpec
PROPERTIES
    ReportsAreDue
    LeavesForCause
    EventsLeave
CHECK_DEADLOCK FALSE
