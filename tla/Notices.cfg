\* The check of one Arr instance; ticks of the loop and of a recheck.
SPECIFICATION FairSpec
CONSTANTS
    arr = arr
    Key = {arr}
    InstanceKey = {arr}
    loop = loop
    request = request
    Loop = loop
    Ticker = {loop, request}
    Running <- MCRunning
    MaxChanges = 1
    MaxReleases = 1
PROPERTIES
    BannerSettles
    NoticeSettles
CHECK_DEADLOCK FALSE
