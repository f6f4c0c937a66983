\* Three days of one lane on two sheets.
CONSTANTS
  Driver = {d1}
  LastDay = 3
  MaxGroups = 1
  MaxAssignments = 0
  Cell = {c1}
  Amount = {p1}
  NoAmount = NoAmount
  Unset = Unset
  Service = {live}
  NoService = NoService
  MaxSheets = 2
SPECIFICATION SheetsSpec
CONSTRAINT PlainSheets
INVARIANTS
  LookupIsLatest
PROPERTIES
  ImplementsPriceList
