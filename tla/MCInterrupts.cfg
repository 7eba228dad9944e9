CONSTANTS
    W = 6
    H = 3
    Interval = {2, 3}
    Delay = 1
    Slack = 1
    MaxEdges = 7
    MaxCalls = 2
    MaxPeriods = 2
    Base = 2
    Fields = 3
    Button = {s1, s2}
    Pins = 3
SPECIFICATION MCSpec
INVARIANTS TypeOK TallyFollows Linearizable WakesOnTime MeasuredHonestly NeverTorn AlarmHonest
    ButtonTypeOK NoPressForgotten NoPhantomPress LostOnlyInRewrite
PROPERTIES SleepEnds PressWakes
CHECK_DEADLOCK FALSE
