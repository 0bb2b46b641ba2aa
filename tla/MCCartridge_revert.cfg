SPECIFICATION CartSpec
CONSTANTS
  Pages = 2
  PageSize = 2
  Windows = 2
  Bytes = {0, 1}
  Carts <- TwoCarts
PROPERTY RevertsOnePatch
