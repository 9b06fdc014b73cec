SPECIFICATION Spec
CONSTANTS
    Clients = {"codex", "gemini", "claude", "copilot", "opencode", "pi", "qwen", "cline", "zed"}
    Servers = {s1, s2}
    NoServer = NoServer
    MaxPresent = 1
    MaxRuns = 2
    MaxEdits = 1
    MaxFaults = 2
INVARIANTS Registered RepeatIsQuiet PassIsComplete OthersKept NotLostSilently
CHECK_DEADLOCK FALSE
