\* One alert, one device, every setting; queries fail for a while.
CONSTANTS
  user1 = user1
  dev1 = dev1
  temp = temp
  Nobody = Nobody
  Keys = {temp}
  Users = {user1}
  Devices = {dev1}
  Owner <- MCOwner
  Hours = 2
  Quiet <- MCNight
  MaxTries = 2
  MaxAlerts = 1
  Env = {"query", "insert", "list", "settings", "enqueue", "clear", "transient", "delivered",
         "gone", "reject", "ack", "app", "windows", "prefs", "purge"}
SPECIFICATION LiveSpec
PROPERTIES CritReaches QueueDrains
\* The bound on alerts stops the collectors.
CHECK_DEADLOCK FALSE
