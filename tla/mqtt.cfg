SPECIFICATION FairSpec
CONSTANTS
    c1 = c1
    c2 = c2
    x = x
    y = y
    None = None
    Components = {c1, c2}
    Topics = {x, y}
    StatusTopic = status
    Subscriptions <- SharedTopic
    QueueTries = 2
    QueueMax = 3
    MaxBackoff = 2
    MessageMax = 2
    ScheduleMax = 2
INVARIANTS
    OneWayBack
    OfThisSession
    SubscribedOrQueued
    TopicsOwned
PROPERTIES
    Reconnects
