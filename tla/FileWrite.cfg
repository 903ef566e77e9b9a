CONSTANTS
  u1 = u1  u2 = u2  u3 = u3  f1 = f1  f2 = f2
  romfs = romfs  romdev = romdev  rom0 = rom0
  Nobody = Nobody  NoFile = NoFile
  Users = {u1, u2}
  Reg = {f1, f2}
  Urgent = {}
  BUF = 2
  Start <- MCStart
  Length <- MCLength
  Room <- MCRoom
  Programs <- WriteCalls
SPECIFICATION FairSpec
PROPERTY CallsAnswered
CHECK_DEADLOCK FALSE
