SPECIFICATION JniSpec
CONSTANTS
  Pids = {1, 2, 3}
  Names = {n1, long, lined}
  Long = {long}
  Cut = cut
  Lined = {lined}
  FirstLine = n1
  NoCmdline = NoCmdline
  Dead = Dead
  PROC_TABLE_SIZE = 1
  PROC_TABLE_INC = 1
  JNI_LOCAL_REFS = 5
  MaxChanges = 2
  ToolFailures = {"opendir", "memory"}
  AppPids = {12340, 12345, 123456}
  RootLengths = {90, 91}
  MaxKills = 2
  SetupFailures = {"session", "handler_pth", "handler_buf", "afun_path", "mutex", "mutex_init", "cond", "cond_init", "socket", "listen", "client", "connect", "accept", "fork", "thread", "exit"}
  Nobody = Nobody
INVARIANTS
  JniTypes
  TableInBounds
  ListFaithful
  FindFaithful
  RefusedByOwnPath
  FirstSu
  NothingHeld
CHECK_DEADLOCK FALSE
