SPECIFICATION Spec
CONSTANTS
    None = None
    Peek = "hover"
    Elements = {"body", "shell", "row", "frame", "demo", "inner", "aside"}
    Enclosing <- PageEnclosing
    Wrappers = {"shell", "demo", "aside"}
    Main = "shell"
    RawWidths = {100, 130, 400}
    Rows = {"a", "b", "a1"}
    HostOf <- PageHosts
    Documents <- PageDocuments
    Attempts = 2
    Tabs = {t1, t2}
    MaxStyles = 2
    Ids = {a, b, c}
    Markdown = {a, b}
    Unlinked = {c}
    MaxMessages = 4
    MaxQueue = 1
    Options = {always, no, odd}
    AllowOptions = {always}
    CustomOptions = {odd}
    Confirmed = {always}
    MaxRequests = 2
    MaxMounts = 2
    View = 2
    MaxLines = 5
    Moves <- PageMoves
INVARIANTS SidebarHolds MenuHolds LayoutHolds ConversationHolds
CHECK_DEADLOCK FALSE
