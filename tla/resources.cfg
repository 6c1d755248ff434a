\* Renames of roles over both databases, and a generated resource whose permissions change.
SPECIFICATION ResourcesSpec
CONSTANTS
    admin = admin
    ADMIN = ADMIN
    editor = editor
    author = author
    root = root
    alice = alice
    p1 = p1
    None = None
    Names = {admin, ADMIN, editor, author}
    Admin = admin
    AdminLike = {admin, ADMIN}
    Users = {root, alice}
    Root = root
    Perms = {p1}
    Requests = {q1, q2}
    Setups <- MCSetups
    Ids = {1, 2}
    Slots = {1, 2}
    Limit = 1
    MaxOffset = 1
    Granting <- MCGranting
    MaxLoads = 3
INVARIANTS
    AdminProtected
    ShownRowsAreCurrent
    AnsweredOnlyIfPermitted
PROPERTIES
    RenameCarriesAccess
    LoadingEnds
CHECK_DEADLOCK FALSE
