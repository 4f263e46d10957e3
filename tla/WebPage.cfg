\* Every part of the page, with two calls under way.
SPECIFICATION PartsSpec
CONSTANTS
    Projects = {p, q}
    DefaultProject = p
    Calls = {c1, c2}
    NoCall = NoCall
    MaxModes = 1
    Tickets = {t1, t2}
    NoTicket = NoTicket
    MaxText = 1
    MaxReq = 1
    MaxBroken = 1
    Nobody = Nobody
    MaxMsg = 2
    Files = {f1, f2}
    NoFile = NoFile
    Stopped = Stopped
    MaxOthers = 1
    ProjectIds = {p, q, d}
    DemoProject = d
    MaxEvent = 3
    FirstPage = 1
    NextPage = 1
    DemoLast = 1
    NoteIds = {1}
    DemoNotes = {1}
    NoOne = NoOne
    MaxWrites = 1
    Targets = {t, u}
    Offered = {t}
    MaxRun = 2
    MaxForm = 1
    MaxMade = 2
    Tested = {p}
    Mine = {m1, m2}
    BuiltIn = BuiltIn
    NoTemplate = NoTemplate
    ReviewCards = {k1, k2}
    MaxPreview = 1
    Runs = {x1, x2, x3, x4}
    MaxFlips = 3
    Ids = {i}
    Visited = {p, q}
    MaxVersion <- MCVersions
    f = f
    MaxTicket = 2
    FilesOf <- MCFiles
    Workers = {w1}
    NoWorker = NoWorker
    Passed = {"ready", "running", "done", "merged"}
INVARIANTS
    PageTypeOK DoneOnce ShownIsReal KeptToItsOwn ChoicesHold NothingHangs BaselineIsBefore
PROPERTIES
    LateIsHarmless
VIEW
    PartView
CHECK_DEADLOCK FALSE
