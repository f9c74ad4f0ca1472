SPECIFICATION Spec
CONSTANTS
    Pages <- MCPages
    Contents <- MCContents
    Size <- MCSize
    MaxFile = 7
    None = None
INVARIANT HolesAreReusable
