SPECIFICATION Spec
CONSTANTS
    Insts = {i1}
    Orgs = {o1, o2}
    Repos = {g1}
    Slots = {r1, r2}
    Installer <- MCInstaller
    Managers <- MCManagers
    None = None
    Scopes <- MCScopes
SYMMETRY MCSymmetry
INVARIANTS TypeOK FreshTokenIsFresh CacheIsCurrent TrackedIsServed RemovedIsUntracked
PROPERTIES RepositoryStays
CHECK_DEADLOCK FALSE
