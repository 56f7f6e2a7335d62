\* Every event, in every order, from every bootstrap.
SPECIFICATION Spec
CONSTANTS
    w1 = w1
    w2 = w2
    ws1 = ws1
    ws2 = ws2
    out1 = out1
    out2 = out2
    Windows <- MCWindows
    Workspaces <- MCWorkspaces
    Outputs <- MCOutputs
    None = None
    Layouts = {tiled}
    KnownOutputs <- MCKnownOutputs
    WindowLists <- MCWindowLists
    WorkspaceLists <- MCWorkspaceLists
    Keyboards <- MCKeyboards
VIEW EngineOnly
INVARIANTS
    TypeOK
    ReferencesResolve
    ReconcileIsStable
    InvalidIsStale
    FocusFollowsWindow
PROPERTIES
    DomainsReportChanges
