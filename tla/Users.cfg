SPECIFICATION Spec
CONSTANTS
    Threads = {t1, t2}
    Usernames = {n1}
    Emails = {e1}
    FirstNames = {f1}
    Passwords = {p1, p2}
    MaxUsers = 2
    None = None
SYMMETRY Symmetry
INVARIANTS
    NoDuplicates
    OwnUuid
    PasswordsStay
