SPECIFICATION BedSpec
CONSTANTS
  Bands = {b2, b5}
  NoBand = NoBand
  a1 = a1
  a2 = a2
  SkipSl4a = {a2}
  SingleUse = {a2}
  Packages = 2
  Networks = {n1, n2}
  NoNetwork = NoNetwork
  IdZero = n2
  PhoneA = PhoneA
  PhoneB = PhoneB
  NoPhone = NoPhone
  MaxCalls = 2
  Texts <- AlikeTexts
  MaxSent = 2
  MaxMade = 2
  MaxTests = 2
  Profiles = {p1, p2}
  Attempts = 2
  Unread = 2
INVARIANTS
  CreateCleansUp
