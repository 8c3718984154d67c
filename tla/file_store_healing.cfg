SPECIFICATION FairSpec
CONSTANTS
    Files = {f1, f2}
    Users = {u1}
    Workspaces = {w1}
    Targets = {}
    NoFile = NoFile
    NoUser = NoUser
    NoRow = NoRow
    KindOf <- OneKind
    TargetsOf <- AllTargets
    Sizes = {1}
    Quota = 0
    MinAge = 1
    RetainAge = 0
    SettingRetains = FALSE
    RetentionEnabled = TRUE
    CommitWithin = 0
    MaxAge = 1
PROPERTIES OrphansReclaimed BrokenRowsDropped
