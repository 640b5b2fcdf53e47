CONSTANTS
    u1 = u1
    u2 = u2
    bad = bad
    Urls = {u1, u2}
    BadUrls = {}
    Meters <- TwoUrls
    Scheduled = FALSE
    StopsWifi = TRUE
    Throttles = TRUE
    MaxReads = 2
SPECIFICATION Spec
PROPERTIES AnswerKeepsWifi
