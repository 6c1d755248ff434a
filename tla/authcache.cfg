\* Two processes with a cache of their own, whose calls may fail.
SPECIFICATION CacheSpec
CONSTANTS
    Usernames = {u1}
    Registry = {p1}
    Nodes = {n1, n2}
    Readers = {q1, q2}
    Writers = {w1}
    Ttl = 1
    RequestTimeout = 1
    CacheFails = TRUE
    MaxChanges = 1
    MaxNow = 3
SYMMETRY Symmetry
PROPERTIES
    StaleAnswersExpire
    InvalidatedChangesAreSeen
CHECK_DEADLOCK FALSE
