\* A client is replaced while a call still uses it.
CONSTANTS
    Hosts = {h1}
    Tasks = {t1, t2}
    Cells = {c1, c2, c3}
    Sessions = {s1, s2, s3}
    NoHost = NoHost
    NoCell = NoCell
    NoSession = NoSession
    Stale = Stale
SPECIFICATION Spec
PROPERTY DropSparesOthers
