SPECIFICATION Spec
CONSTANTS
    Servers = {"/sock", "net"}
    RbufSize = 3
    Permissions <- MCPermissions
    MaxInfo = 2
    Modes = {"library", "script", "words"}
    Threads = {"t1", "t2"}
    Calls = {"flush_if", "flushcached", "stats"}
    Addresses = {"/sock", "none"}
    EnvAddress = "net"
    MaxCalls = 3
    Script <- MCScript
    ScriptLen = 4
    Words <- MCWords
INVARIANTS AnswerIsMine AnswersInOrder BatchReported WordsKept
PROPERTIES CallsReturn ScriptAnswered
CHECK_DEADLOCK FALSE
