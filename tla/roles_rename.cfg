\* What the tests say of a rename.
SPECIFICATION Spec
CONSTANTS
    admin = admin
    ADMIN = ADMIN
    editor = editor
    author = author
    root = root
    alice = alice
    p1 = p1
    Names = {admin, ADMIN, editor, author}
    Admin = admin
    AdminLike = {admin, ADMIN}
    Users = {root, alice}
    Root = root
    Perms = {p1}
    Requests = {q1, q2}
    Setups <- OneSetup
PROPERTY RenamePreserves
