CONSTANTS
    Clients = {t1, t2}
    EndPoints = {e1}
    Registrations = {m1, m2}
    Cases = {"release", "unregister", "duplicate", "callback", "failure"}
    Null = Null
SYMMETRY Symmetry
CHECK_DEADLOCK FALSE
SPECIFICATION Spec
INVARIANTS
    TypeOK
    CalledAtMostOnce
    NoUseAfterDestruction
    QuietWhenGone
