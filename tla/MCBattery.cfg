SPECIFICATION BatterySpec
CONSTANTS
  Pages = 3
  PageSize = 1
  Windows = 2
  Bytes = {0, 1}
  Carts <- TwoCarts
  Data = {blank, progress}
  Blank = blank
  Battery <- OneBattery
INVARIANTS
  BanksShowTheirPages
  CodesLeaveNoTrace
  BatteryKeeps
