SPECIFICATION Spec
CONSTANTS
  img1 = img1
  img2 = img2
  s1 = s1
  s2 = s2
  vid = vid
  Images = {img1, img2, vid}
  Session = {img1}
  Videos = {vid}
  Blobs = {1, 2, 3, 4, 5}
  Slots = {s1, s2}
  MaxCalls = 3
  None = None
INVARIANTS
  DecodedIsOnShow
  
  
  ListedIsAlive
SYMMETRY Interchangeable
CHECK_DEADLOCK FALSE
