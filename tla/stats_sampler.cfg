SPECIFICATION Spec
CONSTANTS
  Sub = {s1, s2}
  Request = {r1}
  Thread = {t1, t2}
  None = None
  QueueLimit = 2
  MaxSubscribers = 2
  MaxSample = 3
INVARIANTS TypeOK OneSampler NewestArrives ClosedWakes
PROPERTIES SentOnce ClosedIsSilent
SYMMETRY Symmetry
