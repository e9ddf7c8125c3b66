SPECIFICATION FairSpec
CONSTANTS
  u1 = u1
  k1 = k1
  k2 = k2
  k3 = k3
  s1 = s1
  s2 = s2
  b1 = b1
  t1 = t1
  t2 = t2
  User <- MCUser
  KeyId <- ThreeKeys
  Session <- TwoSessions
  KeyOwner <- MCKeyOwner
  SessionUser <- MCSessionUser
  NoKey = NoKey
  Validity = 2
  MaxTime = 1
  Browser <- MCBrowser
  Tab <- OneTab
  BrowserOf <- MCBrowserOf
  Person <- MCPerson
  Nowhere = Nowhere
  RekeyAfter = 1
  MaxLinks = 1
  MaxClicks = 1
  MaxBreaks = 1
INVARIANTS
  TypeOK
  KeyLostOnlyByMishap
  AccessLostOnlyByMixup
  AccessOutlivesCrashes
PROPERTIES
  ForgottenOnlyWhenReplaced
  ListsArrive
CHECK_DEADLOCK FALSE
