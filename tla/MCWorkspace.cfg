SPECIFICATION LiveSpec
CONSTANTS
  Owner = owner
  Stagers = {s1}
  Reclaimers = {r1, r2}
  Inodes = {i1, i2, i3}
  NoInode = none
  Nobody = nobody
  MayCrash <- Everyone
CHECK_DEADLOCK FALSE
INVARIANTS
  UploadsKeepTheirWorkspace
  WantedIsKept
  OneRemover
PROPERTIES
  UploadsAreLeased
  StaleIsReclaimed
