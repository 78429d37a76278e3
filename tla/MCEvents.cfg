SPECIFICATION MCSpec
CONSTANTS
  Subs = {a, b}
  Posters = {p}
  MaxPosts = 2
  Nobody = Nobody
  Channels = {c, d, e}
  Senders = {s, t}
  Capacity = 1
  MaxSends = 1
INVARIANTS TypeOK DeliveredOnce
PROPERTIES NoSendOnClosed UnsubscribeIsFinal UnsubscribeUnblocksPost StopClosesAll
PROPERTIES FeedUnsubscribeIsFinal UnsubscribeReturns SendReturns
CHECK_DEADLOCK FALSE
