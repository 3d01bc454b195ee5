SPECIFICATION CounterSpec
CONSTANTS
    Period = 100
    Wrap = 2296
    Timeouts = {50, 500, 1000, 2000}
    Intervals = {1}
    Uptime = 5000
INVARIANTS
    NeverEarly
    ExactUntilWrap
