SPECIFICATION Spec
CONSTANTS
  Lines = 2
  Columns = 2
  Widths = {1, 2}
  TabColumns = {1}
  MaxWide = 2
 
PROPERTIES InputKeepsPairs
