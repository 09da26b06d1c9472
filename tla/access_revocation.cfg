SPECIFICATION Spec
CONSTANTS
    u1 = u1  s1 = s1  t1 = t1
    User = {u1}
    App = {a1}
    Session = {s1}
    Code = {k1}
    Token = {t1, t2}
    UserOf <- OneUser
    Proc = {p1, p2}
    None = None
    Expiring <- SomeExpire
    MaxChanges = 1
SYMMETRY Symmetry
INVARIANTS TypeOK NoTokenOutlivesRevocation CodesAreExchangedOnce RevocationsAreAnnouncedOnce
PROPERTIES AnswersAreLive EndedStaysEnded
