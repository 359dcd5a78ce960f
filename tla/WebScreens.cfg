SPECIFICATION ScreenSpec
CONSTANTS
    Unset = Unset
    Notices <- ThreeNotices
    Severity <- SeverityOf
    ReadAtFirst <- Third
    Periods = {"p1", "p2"}
    Keys = {"k1", "k2"}
    Terms = {"", "bob"}
    MaxTimers = 2
INVARIANT ThemeFits
PROPERTIES
    TicksEnd
    NothingUndone
