\* a log of three positions, as many as a spin needs; seeks that take no time,
\* or two ticks
CONSTANTS
  Places = {0, 1}
  SeekTimes = {0, 2}
  NoSeek = NoSeek
  LogSize = 3
SPECIFICATION FairSpec
INVARIANTS InteractionsCounted 
PROPERTIES SpinFromDrag SeekGoesThere SeekEnds
