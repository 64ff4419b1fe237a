SPECIFICATION RoomFairSpec
CONSTANTS
    Sessions = {1, 2}
    Pollers = {1}
    Rate = 1
    RoomFaults = {"err", "lost"}
    RoomCrashes = TRUE
    MaxClock = 3
    MaxReseeds = 1
INVARIANTS
    RoomTypeOK
    NobodyOvertaken
    OnePassPerDraw
PROPERTY
    AliveIsAdmitted
