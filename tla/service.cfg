SPECIFICATION FairSpec
CONSTANTS
    c1 = c1
    c2 = c2
    usb = usb
    tv = tv
    a1 = a1
    a2 = a2
    a3 = a3
    v1 = v1
    p1 = p1
    None = None
    Main = Main
    Db = Db
    Upnp = Upnp
    Clients = {c1, c2}
    Devices = {usb, tv}
    Plugins <- TwoPlugins
    Rows <- FiveRows
    Kind <- Kinds5
    Home <- Homes5
    PageSize = 2
    Worlds <- AllWorlds
INVARIANTS TypeOK ReferencesAreReplies SubscribersLearnAll
    StrangersShareTheMethod RepliesAreTrue SubscribersSeeStates
PROPERTIES RequestsReturn
CHECK_DEADLOCK FALSE
