SPECIFICATION Spec
CONSTANTS
    c1 = c1
    c2 = c2
    c3 = c3
    None = None
    Clients <- Three
    Expiry = 4
    Interval = 2
SYMMETRY Symmetry
INVARIANTS
    Exclusive
    FailMeansTaken
