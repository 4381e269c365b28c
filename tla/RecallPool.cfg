\* Three requests of two tenants, one engine that may become two and break.
SPECIFICATION FairSpec
CONSTANTS
  c1 = c1  c2 = c2  c3 = c3  ta = ta  tb = tb
  NoSlot = NoSlot  Slots = {0, 1, 2, 3}  MinSize = 1  MaxSize = 2
  Clients = {c1, c2, c3}  Tenants = {ta, tb}  TenantOf <- TwoTenants
  MaxPending = 2  PerTenant = 2  MaxWarmups = 1  MaxFaults = 2
INVARIANTS TypeOK Bookkeeping
PROPERTIES Served
CHECK_DEADLOCK FALSE
