CONSTANTS
    c1 = c1
    c2 = c2
    k1 = k1
    k2 = k2
    k3 = k3
    t = t
    u = u
    Core = {c1, c2}
    Key = {k1, k2, k3}
    Conn = {t, u}
    Udp = {u}
    Home <- MCHome
    At <- MCAt
    Text = Text
    MaxNum = 1
    Request <- MCRequest
    MaxVersion = 2
    None = None
SPECIFICATION Spec
INVARIANTS
    RequestIntact
PROPERTIES
    ImplementsService
    CommandsAnswered
