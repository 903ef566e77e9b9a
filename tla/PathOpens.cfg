CONSTANTS
  u1 = u1  u2 = u2
  tty = tty  fileA = fileA  fileB = fileB  missing = missing
  romdev = romdev  romfs = romfs  mount_task = mount_task
  server_path = server_path  rom0 = rom0  Nobody = Nobody
  Users = {u1, u2}
  Paths = {server_path, rom0, tty, fileA, fileB, missing}
  RomPaths = {fileA, fileB}
  Covered = {server_path, rom0, tty, fileA, fileB, missing}
  Programs <- OpenCalls
  PATHSERVER_FD = 10
  FILE_LIMIT = 18
  Capacity = 63
  Pool = 3
SPECIFICATION Spec
INVARIANT RightAnswers
CHECK_DEADLOCK FALSE
