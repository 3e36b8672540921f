\* Every mode and sandbox; replies of up to two chunks more than the cap of two.  A
\* command that was refused or interrupted stops: deadlock is not checked.
SPECIFICATION FairSpec
CONSTANTS
    Modes = {"on", "auto", "off"}
    Machines = {"seatbelt", "systemd", "none"}
    Cap = 2
    PipeSize = 1
    MaxReply = 4
INVARIANTS TypeOK OnlyInBox ReplyWhole NothingLeft
PROPERTY Ends
CHECK_DEADLOCK FALSE
