SPECIFICATION MastersSpec
CONSTANTS
  SystemKeys = {"jwt", "entity"}
  EntityKeys = {"entity"}
  Enrolled = {"u1"}
  Methods = {"totp", "webauthn"}
  MaxMasters = 3
CHECK_DEADLOCK FALSE
INVARIANTS CredentialsKept
