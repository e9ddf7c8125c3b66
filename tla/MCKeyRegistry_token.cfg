SPECIFICATION Spec
CONSTANTS
  u1 = u1
  k1 = k1
  k2 = k2
  k3 = k3
  s1 = s1
  s2 = s2
  User <- MCUser
  KeyId <- MCKeyId
  Session <- MCSession
  KeyOwner <- MCKeyOwner
  SessionUser <- MCSessionUser
  NoKey = NoKey
  Validity = 1
  MaxTime = 1
PROPERTY
  OneRegistrationPerToken
