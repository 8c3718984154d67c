SPECIFICATION Spec
CONSTANTS
    Files = {f1, f2}
    Users = {u1, u2}
    Workspaces = {w1}
    Targets = {t1}
    NoFile = NoFile
    NoUser = NoUser
    NoRow = NoRow
    KindOf <- OneKind
    TargetsOf <- AllTargets
    Sizes = {1, 2}
    Quota = 2
    MinAge = 2
    RetainAge = 2
    SettingRetains = FALSE
    RetentionEnabled = TRUE
    CommitWithin = 1
    MaxAge = 3
INVARIANTS OnlyClosingTearsRows QuotaHolds
PROPERTIES SweeperKeepsGoodRows
