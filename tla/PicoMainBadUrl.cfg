CONSTANTS
    u1 = u1
    u2 = u2
    bad = bad
    Urls = {u1, bad}
    BadUrls = {bad}
    Meters <- BadFirst
    Scheduled = TRUE
    StopsWifi = TRUE
    Throttles = TRUE
    MaxReads = 2
SPECIFICATION FairSpec
PROPERTIES EveryMeterSends
