\* One alembic run at a time, up and down again.
CONSTANTS
    ActivityId = {a1}
    TaskId = {t1}
    LogId = {w1}
    Users = {u1}
    Titles = {title}
    Dates = {day}
    Durations = {15}
    Targets = {0, 10}
    Runners = {m1}
    Requests = {r1}
    RecursionLimit = 2
    Null = Null
    NoRow = NoRow
    Idle = Idle
SPECIFICATION Spec
INVARIANT DowngradesCanBeMade
