CONSTANTS
    u1 = u1
    c1 = c1
    c2 = c2
    s1 = s1
    s2 = s2
    NoUser = NoUser
    NoCustomer = NoCustomer
    Users <- MCUsers
    Customers <- MCCustomers
    History <- MCHistory
    Slots <- MCSlots
    MaxFaults = 1
SPECIFICATION Spec
INVARIANTS WelcomeOnce
