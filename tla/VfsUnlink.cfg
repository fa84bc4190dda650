CONSTANTS
    t1 = t1
    t2 = t2
    t3 = t3
    a = a
    b = b
    o1 = o1
    o2 = o2
    s1 = s1
    s2 = s2
    f1 = f1
    f2 = f2
    Tasks = {t1, t2, t3}
    Names = {a, b}
    Objs = {o1, o2}
    Slots = {s1, s2}
    Fds = {f1, f2}
    None = None
    NoFile = NoFile
SPECIFICATION Spec
PROPERTY AlwaysRemovesOwn
SYMMETRY Symmetry
