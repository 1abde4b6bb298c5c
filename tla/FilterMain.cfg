\* Fourteen image files of up to 6 by 4 pixels, up to three of them on the command line.
CONSTANTS
  bmp_byte_swap = TRUE
  Junk = Junk
  Images <- SmallImages
  Filters <- LabFilters
  JunkBytes = {0, 200}
  JunkDivisors = {0, 5}
  CommandLines <- SmallCommandLines
SPECIFICATION Spec
INVARIANTS
  TypeOK
  InteriorFiltered
  WrittenWellFormed
  
PROPERTY
  WrittenIsFiltered
CHECK_DEADLOCK FALSE
