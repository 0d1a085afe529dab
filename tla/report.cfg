SPECIFICATION Spec
CONSTANTS
    Container = {c1, c2}
    TTL = 2
    MaxSetBack = 1
INVARIANTS
    TypeOK
    AnsweredIsShown
    NothingToReadIsNoError
    ContainersAreListed
    AccountsAreRecent
    OnceTells
CHECK_DEADLOCK FALSE
