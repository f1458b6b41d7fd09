SPECIFICATION Spec
CONSTANTS
    n1 = n1
    n2 = n2
    e1 = e1
    e2 = e2
    g1 = g1
    name1 = name1
    Phones = {n1, n2}
    Emails = {e1, e2}
    Githubs = {g1}
    Usernames = {name1}
    Absent = Absent
    MaxUsers = 2
    MaxRestarts = 1
\* Users and restarts come to their bounds.
CHECK_DEADLOCK FALSE
INVARIANT OnlyEmailClashes
