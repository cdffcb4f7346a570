SPECIFICATION Spec
CONSTANTS
    Requests = {r1, r2, r3}
    Conversations = {a}
    ConversationLimit = 1
    ChannelLimit = 2
    MaxMinute = 1
INVARIANT LimitPerMinute
CHECK_DEADLOCK FALSE
