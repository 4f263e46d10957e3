\* The parts that poll, with two calls under way.
SPECIFICATION PartsFairSpec
CONSTANTS
    Projects = {p, q}
    DefaultProject = p
    Calls = {c1, c2}
    Nobody = Nobody
    MaxMsg = 2
    Stopped = Stopped
    MaxOthers = 1
    MaxEvent = 2
    FirstPage = 1
    NextPage = 1
    DemoLast = 1
    MaxWrites = 1
    Ids = {i}
    Visited = {p}
    MaxVersion <- MCVersions
    f = f
    MaxTicket = 2
    FilesOf <- MCFiles
    Workers = {w1}
    NoWorker = NoWorker
    Passed = {"ready", "running"}
PROPERTIES
    BoardCatchesUp GraphFollows StreamsCatchUp AutoRunFollows ViewSettles
CHECK_DEADLOCK FALSE
