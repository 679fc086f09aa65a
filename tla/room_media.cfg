SPECIFICATION Spec
CONSTANTS
    a = a
    b = b
    r = r
    s = s
    None = None
    Users = {a, b}
    Rooms = {r}
    LoginRooms <- OneRoom
    Speakers = {a}
    Routers = {a}
    Reopeners = {}
    AudioCapacity = 2
    OutCapacity = 2
    MaxPackets = 2
    MaxMessages = 1
CHECK_DEADLOCK FALSE
PROPERTIES RoomMediaStaysInRoom
