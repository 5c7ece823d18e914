SPECIFICATION HistorySpec
CONSTANTS
  p1 = p1
  Device = {p1}
  Master = {p1}
  Name = {1, 2, 3}
  NoName = 0
  Placeholder = 2
  Text = {"t", "u"}
  NoText = "t"
  NoDoc = NoDoc
  Failed = Failed
  Open = Open
  Boards <- TwoPosts
  MaxPresses = 2
  MaxFaults = 1
  MaxRefusals = 0
  MaxReads = 1
  Silent = Silent
INVARIANTS LastWordStands ShownWasPublished
