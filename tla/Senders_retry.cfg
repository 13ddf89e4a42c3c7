SPECIFICATION Spec
CONSTANTS
    cmd = cmd  rerun = rerun  other = other  watch = watch  dry = dry
    image = image  doc = doc  doc2 = doc2  view = view
    list1 = list1  list2 = list2
    Senders = {cmd, rerun, other, watch, dry, image, doc, doc2, view}
    Listings = {list1, list2}
    None = None
    Tool <- ToolOf
    Payload <- PayloadOf
    Given <- GivenOf
    Host <- HostOf
    Malformed = {view}
    DryRun = {dry}
    Waits = {cmd, watch}
    AllowPublic = {rerun}
    Attempts = 2
    MaxDepth = 1
    MaxCrashes = 1
    MaxEras = 1
    MaxActive = 2
    MaxVersion = 2
INVARIANTS TypeOK OneJobPerKey
PROPERTIES ReportsTruth ListsWhatIsHeld
CHECK_DEADLOCK FALSE
