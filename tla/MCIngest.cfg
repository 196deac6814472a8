SPECIFICATION FairSpec
CONSTANTS
  Runners = {r1, r2}
  Sources = {"gdelt", "rss", "guardian", "newsapi", "gnews"}
  Feeds <- MCFeeds
  Failing <- MCFailing
  MaxFaults = 1
  MaxExpiries = 1
INVARIANTS
  TypeOK
  PublishedOncePerKey
  LossBounded
PROPERTIES
  ListedIsPublished
CHECK_DEADLOCK FALSE
