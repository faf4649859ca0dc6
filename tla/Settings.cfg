SPECIFICATION Spec
CONSTANTS
  Groups = {"DevName", "DeviceID", "SysMode", "User", "Net", "Pppoe", "Upnp", "Ddns", "Mail", "Ftp", "Alarm", "AlarmFlags", "Record", "Ir", "PTZ", "Wifi", "Route", "DTime", "Size", "Picture", "Media", "Bell", "Lock", "Pin", "AlarmOn", "BellAlarm", "BellUsers", "BellVideo"}
  MaxSets = 2
  MaxCuts = 2
INVARIANTS
  FileIsWhole
  QuietIsSaved
  HalfIsTransient
PROPERTIES
  SavedInTheEnd
  RestartKeeps
  ResetSticks
CHECK_DEADLOCK FALSE
