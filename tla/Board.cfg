SPECIFICATION FairSpec
CONSTANTS
  p1 = p1
  Device = {p1}
  Master = {p1}
  Name = {1, 2}
  NoName = 0
  Placeholder = 2
  Text = {"t"}
  NoText = "t"
  NoDoc = NoDoc
  Failed = Failed
  Open = Open
  Boards <- NoneOrOne
  MaxPresses = 2
  MaxFaults = 1
  MaxRefusals = 1
  MaxReads = 2
INVARIANTS TypeOK KeyedByName
PROPERTIES EmptyBoardStaysEmpty AckIsInvisible FeedConverges SaveIsAnswered
