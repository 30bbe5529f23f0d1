SPECIFICATION AccountSpec
CONSTANTS
  Users = {u1, u2}
  Nobody = Nobody
  Passwords = {p1, p2}
  NoPassword = NoPassword
  MaxGens = 2
  MaxFlows = 2
  Requests = {r1}
  MaxFaults = 1
  MaxWaiting = 2
INVARIANTS AccountTypeOK VerifiedBeforeCached SignedInAsVerified RevokedStaysOut
SYMMETRY AccountSymmetry
CHECK_DEADLOCK FALSE
