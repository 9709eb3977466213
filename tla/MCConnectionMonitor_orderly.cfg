CONSTANTS
    Clients = {t1, t2}
    EndPoints = {e1}
    Registrations = {m1, m2}
    Cases = {"failure"}
    Null = Null
SPECIFICATION FairSpec
INVARIANTS
    RemovedAfterCallback
PROPERTIES
    ClosedIsReported
    CallsReturn
