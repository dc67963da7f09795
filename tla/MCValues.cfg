CONSTANTS
    c1 = c1
    c2 = c2
    A = A
    B = B
    s = s
    Client = {c1, c2}
    Files <- MCFiles
    Short = {s}
    Blank = Blank
    MaxTries <- MCMaxTries
    MaxRestarts = 1
SPECIFICATION Spec
INVARIANTS UploadWhole StoreRight
PROPERTIES KeyKept
CHECK_DEADLOCK FALSE
