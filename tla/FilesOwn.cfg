CONSTANTS
    a = a
    b = b
    f1 = f1
    f2 = f2
    x = x
    y = y
    Names = {a, b}
    Objs <- Objs2
    Fds = {f1, f2}
    Pages <- Pages1
    Bytes = {x, y}
    MaxSize = 3
    LogPage = 2
    Modes <- ReadWrite
    SharedFiles = FALSE
    MayFill = FALSE
    None = None
    Undefined = Undefined
    Ok = Ok
    Err = Err
SPECIFICATION Spec
PROPERTY Uncached
SYMMETRY Symmetry
