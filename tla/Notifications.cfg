\* Two alerts of one problem, one device, crashes, failing queries and sendings.
CONSTANTS
  user1 = user1
  dev1 = dev1
  temp = temp
  Nobody = Nobody
  Keys = {temp}
  Users = {user1}
  Devices = {dev1}
  Owner <- MCOwner
  Hours = 2
  Quiet <- MCNight
  MaxTries = 2
  MaxAlerts = 2
  Env = {"insert", "list", "settings", "enqueue", "crash", "slow", "transient", "reject",
         "gone", "ack", "windows", "subscribe"}
SPECIFICATION Spec
INVARIANTS TypeOK OneActive SentOnce
\* The bound on alerts stops the collectors.
CHECK_DEADLOCK FALSE
