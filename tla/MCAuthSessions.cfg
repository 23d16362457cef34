SPECIFICATION AuthSpec
CONSTANTS
    Password = {pw1, pw2}
    Call = {c1, c2}
    MaxCodes = 1
    MaxFamilies = 2
    MaxTokens = 3
    MaxChanges = 2
SYMMETRY Symmetry
INVARIANTS AuthTypeOK FamiliesNeverFork
PROPERTIES PasswordChangesStick
