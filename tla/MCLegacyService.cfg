SPECIFICATION FairLegacy
CONSTANTS
  Conns = {c1, c2}
  Passwords = {p1, p2}
  Convs = {v1}
  Theirs = {k1}
  MaxStores = 2
  MaxKeys = 2
INVARIANTS LegacyTypeOK StoreOpens PeerCanFollow
PROPERTIES AllAnswered
