SPECIFICATION FairSpec
CONSTANTS
  MaxFd = 8
  Addr = {v4}
  Client = {c1, c2}
  Iface = {eth0, eth1}
  Fault = {"accept", "bind", "eptk_register", "ioctl", "recvfrom"}
  v4 = v4
  c1 = c1
  c2 = c2
  eth0 = eth0
  eth1 = eth1
INVARIANTS
  NoStaleDescriptor
  NoLostDescriptor
  AllClosed
PROPERTIES
  ConnectionKept
  ClientNotLeftWaiting
