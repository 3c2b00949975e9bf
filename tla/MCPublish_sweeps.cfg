SPECIFICATION Spec
CONSTANTS
    Remuxes = {a, b}
    Targets = {t}
    a = a
    b = b
    t = t
    Asked <- Retries
    Shorts = 0
    NoFile = NoFile
    NoOne = NoOne
PROPERTIES
    RetryNeverSweeps
