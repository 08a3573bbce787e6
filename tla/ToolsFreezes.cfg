SPECIFICATION Spec
CONSTANTS
  Tools = {"cs_deadlock", "cs_deadlock_racy", "display_lock",
           "display_lock_alone", "dxt_witness", "dxt_witness_alone",
           "freeze_capture", "stall_watch", "autoload"}
  none = none Off = Off t1 = t1 t2 = t2 t3 = t3
  m1 = m1 m2 = m2 n1 = n1 n2 = n2 n3 = n3
  w1 = w1 w2 = w2 guestCopy = guestCopy islandCopy = islandCopy glUniform4fv = glUniform4fv
  glBindTexture = glBindTexture ka = ka kb = kb x1 = x1 x2 = x2
  s1 = s1 s2 = s2 u1 = u1 u2 = u2
  p1 = p1 p2 = p2 p3 = p3 p4 = p4
  f1 = f1 f2 = f2 f3 = f3
SYMMETRY ThreadsAlike
INVARIANTS TypeOK
           VerdictsAreTrue
           MeasuresChosenSave
CHECK_DEADLOCK FALSE
