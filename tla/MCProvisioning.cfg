SPECIFICATION Spec
CONSTANTS
    NoProfile = NoProfile
    Images <- TestImages
    NoConf = NoConf
INVARIANTS LocalChangesSurvive WiFiIsVerified ValuesMatchSchema StoredPasswordRules
PROPERTY BootKeepsRecord
