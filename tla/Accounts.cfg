SPECIFICATION Spec
CONSTANTS
    u1 = u1
    u2 = u2
    g1 = g1
    g2 = g2
    e1 = e1
    e2 = e2
    st1 = st1
    st2 = st2
    Users = {u1, u2, u3}
    Identities = {g1, g2}
    Emails = {e1, e2, e3}
    Teams = {t1}
    Browsers = {b1, b2}
    States = {st1, st2, st3}
    Requests = {q1, q2}
    Tokens = {k1}
    None = None
    FirstMail <- MCFirstMail
    Known <- MCKnown
    Scopes <- MCScopes
SYMMETRY MCSymmetry
INVARIANTS TypeOK SessionIsOwn UserIsWhole AlwaysAnOwner AccessIsCurrent
PROPERTIES RolesAreGiven
CHECK_DEADLOCK FALSE
