SPECIFICATION HookFairSpec
CONSTANTS
    chat = chat
    presence = presence
    foreign = foreign
    Urls = {chat, presence, foreign}
    Null = Null
    Reachable = {chat, presence}
    MaxRuns = 4
    MaxFaults = 3
INVARIANT OneLiveSocket
PROPERTY OpensInTheEnd
CHECK_DEADLOCK FALSE
