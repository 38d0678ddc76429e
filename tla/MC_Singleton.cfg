CONSTANTS
  s1 = s1
  s2 = s2
  v0 = v0
  v1 = v1
  v2 = v2
  Scopes <- MCScopes
  Values <- MCValues
  Default = v0
  Absent = Absent
  PK = PK
SPECIFICATION Spec
PROPERTY Refines
