SPECIFICATION FairSpec
CONSTANTS
  Query = {"q1"}
  Capacity = 2
  MaxPosts = 2
PROPERTIES
  DocResponseOrTimeout
