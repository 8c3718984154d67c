SPECIFICATION MCSpec
CONSTANTS
    t1 = t1
    todo = todo
    doing = doing
    short = short
    m1 = m1
    m2 = m2
    Tasks = {t1}
    Columns = {todo, doing}
    Texts = {short}
    Members = {}
    Null = Null
    Unborn = Unborn
    Gone = Gone
    NoId = NoId
    Slots = {m1, m2}
    MaxCommits = 2
    a = a
    b = b
    Topics = {a, b}
    All = All
    Rows = {1, 2}
    TopicOf <- MCTopicOf
    ThisMonth = a
    MaxLoads = 2
    p1 = p1
    p2 = p2
    Wikis = {p1, p2}
    AllWikis <- MCAllWikis
    FoundWikis <- MCFoundWikis
    NoWiki = NoWiki
    MaxRestores = 1
    MaxSearches = 1
    Docs = {d1, d2}
    Uploads = {1}
    NoFile = NoFile
    MaxPosts = 2
    Mates = {u1}
    Mails = {e1}
    SampleMates = {u9}
    SampleInvites = {e9}
    Roles = {"owner", "member", "guest"}
    Owner = "owner"
    NoRole = NoRole
    MaxCalls = 3
    Users = {me, you}
    Me = me
    Notes = {n1}
    NoRoster = NoRoster
    MaxChanges = 2
    mate = mate
    Peers = {mate}
    Unlisted = Unlisted
    MaxConvs = 2
    ab = ab
    cd = cd
    xx = xx
    Words = {ab, cd, xx}
    Blank = Blank
    FoundIn <- MCFoundIn
    SEARCH_CAP = 2
INVARIANT SettledListsAreCurrent
INVARIANT LeftoversNeedACachedPage
INVARIANT RestoredPagesAreRefetched
INVARIANT SecondPostHasAReason
INVARIANT SettledRosterIsCurrent
INVARIANT SettledPushesAreCurrent
INVARIANT SettledChoiceIsOnScreen
INVARIANT SettledSearchesAreOwn
PROPERTY UntouchedFieldsSurvive
PROPERTY HiddenOwnWritesHaveAReason
PROPERTY EveryPressShows
CHECK_DEADLOCK FALSE
