CONSTANTS
    v1 = v1
    v2 = v2
    staff = staff
    Chats <- MCChats
    Starts <- MCStarts
    StaffEvents <- MCStaffEvents
    Hours <- MCHoursMixed
    Closed <- MCClosed
    Notices <- MCNotices
    Clock <- MCClock
    Scripts <- MCScripts
    DayLen = 6
    HorizonDays = 3
    SlotLen = 2
    SlotStep = 1
    Lead = 1
    Buffer = 1
    MaxSlots = 2
    Grace = 0
    MaxCalls = 2
SPECIFICATION Spec
INVARIANT OfferKeepsBuffer
CHECK_DEADLOCK FALSE
