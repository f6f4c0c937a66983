\* Two groups, two zones, two sheets, three days; Focus bounds their product.
CONSTANTS
  a = a
  b = b
  c = c
  e = e
  n = n
  p1 = p1
  Driver = {d1}
  LastDay = 1
  MaxGroups = 2
  MaxAssignments = 1
  Zip = {a, b}
  City = {c, e}
  Name = {n}
  NameOf <- MCNameOf
  ZipsOf <- MCZipsOf
  NoZip = NoZip
  NoCity = NoCity
  MaxZones = 2
  Cell <- MCCell
  Amount = {p1}
  NoAmount = NoAmount
  Unset = Unset
  Service = {live}
  NoService = NoService
  MaxSheets = 2
SPECIFICATION RatesSpec
CONSTRAINT Focus
INVARIANTS
  OneZonePerAtom
  ResolveIsMostSpecific
