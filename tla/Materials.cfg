\* two files, a link, two deletions or transcodings, a failing call, write or unlink, a restart
SPECIFICATION MaterialsSpec
CONSTANTS
  u1 = u1
  u2 = u2
  u3 = u3
  Uploads = {u1, u2, u3}
  Links = {u3}
  UploadName <- NameOf
  Jobs = {j1, j2}
  Nothing = Nothing
  Ghost = Ghost
  MaxId = 2
  MaxFailures = 1
  MaxRestarts = 1
SYMMETRY Same
INVARIANTS MaterialsTypeOK MaterialsAgree
CHECK_DEADLOCK FALSE
