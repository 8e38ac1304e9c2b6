\* Two toasts, one of them swiped while it leaves.
CONSTANTS
    t1 = t1  t2 = t2  i1 = i1  i2 = i2  m1 = m1  m2 = m2
    r1 = r1  r2 = r2  x1 = x1  x2 = x2  g1 = g1  g2 = g2  g3 = g3
    ToastNames = {t1, t2}
    NoToast = NoToast
    DisplayLength = 2
    Fingers = 1
    TouchIsCancelled = TRUE
    Items = {i1, i2}
    Modals = {m1, m2}
    MenuSize = 2
    MaxTimers = 2
    Slides = 3
    MaxReach = 3
    Ripples = {r1, r2}
    MaxTouches = 2
    Texts = {x1, x2}
    NoText = NoText
    Matches <- MatchesOf
    Limit = 2
    MaxMatches = 3
    Tags = {g1, g2, g3}
    NoTag = NoTag
    GoneTag = GoneTag
    MostChips = 3
    LastOption = 2
    MostLines = 3
    SliderSize = 3
    MaxFades = 3
    MaxStages = 2
    Sections = 3
    Years = {1900, 1999, 2000}
    Dates <- SomeDates
    DateRanges <- SomeRanges
    FirstDays = {0, 1}
    NoDate = NoDate
    Angles = {60}
    TypedTimes <- SomeTimes
    DefaultTime <- QuarterPast
    NoTime = NoTime
    MaxResets = 1
    Pages <- ToastPage
SPECIFICATION Spec
\* A page whose toasts have all been shown and are gone stops.
CHECK_DEADLOCK FALSE
INVARIANT ToastsStayTheirTime
