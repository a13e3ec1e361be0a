\* Two alembic runs beside a backend whose requests write.
CONSTANTS
    ActivityId = {a1}
    TaskId = {t1, t2}
    LogId = {w1}
    Users = {u1, u2}
    Titles = {title}
    Dates = {day}
    Durations = {15}
    Targets = {0, 1, 2, 5, 6, 10}
    Runners = {m1, m2}
    Requests = {r1}
    RecursionLimit = 2
    Null = Null
    NoRow = NoRow
    Idle = Idle
SPECIFICATION FairSpec
INVARIANTS TypeOK SchemaByVersion HeadIsModels RequestsServed
PROPERTIES UpgradeKeepsRows Stops
