SPECIFICATION FairSpec
CONSTANTS
  a = a
  b = b
  Post = {a, b}
  User = {"ann", "bob"}
  Nobody = "nobody"
  Masters = {"ann"}
  Failed = Failed
  MaxEdits = 1
  MaxVisits = 2
  MaxReads = 2
INVARIANTS TypeOK NoTrapUnlessShrunk RoleIsOfTheUser
PROPERTIES FeedNeverGoesBack FeedShowsBoard
