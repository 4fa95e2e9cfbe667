SPECIFICATION PollingSpec
CONSTANTS
    Tasks = {t1, t2, t3}
    Supported = {t1, t2}
    Quantity = 1
PROPERTIES OrphansReaped RunnableClaimed DeadlinesEnforced
