SPECIFICATION Spec
CONSTANTS
    h1 = h1
    h2 = h2
    h3 = h3
    a = a
    b = b
    Href = {h1, h2, h3}
    SlugOf <- MCSlug
    Kinds <- MCKinds
    Rank <- MCRank
    Task = {u1}
    Share = {p1}
    t1 = t1
    t2 = t2
    k1 = k1
    k2 = k2
    Title = {t1, t2}
    Credential = {k1, k2}
    Choices <- MCChoices
    Absent = Absent
    MaxWorld = 2
    MaxEdits = 2
SYMMETRY MCSymmetry
INVARIANTS SharesOnlyChosen DoorsStayShut OneStory VisitorUnnamed
CHECK_DEADLOCK FALSE
