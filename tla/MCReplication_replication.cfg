\* Two changes of the compositor, at any moment of the bootstrap or after it.  It ends
\* when they are made and handled.
SPECIFICATION ReplicationSpec
CONSTANTS
    w1 = w1
    w2 = w2
    ws1 = ws1
    ws2 = ws2
    out1 = out1
    out2 = out2
    Windows = {w1, w2}
    Workspaces = {ws1, ws2}
    Outputs = {out1, out2}
    None = None
    Layouts = {tiled}
    Layout = tiled
    KnownOutputs = {out1, out2}
    WindowLists = {}
    WorkspaceLists = {}
    Keyboards = {}
    MaxChanges = 2
CHECK_DEADLOCK FALSE
VIEW WithoutChanges
INVARIANTS
    ReplicationOK
    CaughtUpAgrees
    ActiveWindowsAgree
    GreetedConnects
