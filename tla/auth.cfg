SPECIFICATION FairSpec
CONSTANTS
  Clients = {patient, eager}
  Lockstep = {patient}
  Users = {u1, u2}
  Passwords = {p1, p2}
  NoUser = NoUser
  NoPassword = NoPassword
  InitialUsers <- Tables
  MaxEvents = 4
  patient = patient
  eager = eager
  u1 = u1
  u2 = u2
  p1 = p1
  p2 = p2
INVARIANTS TypeOK RightUser Settled
PROPERTY Answered
CHECK_DEADLOCK FALSE
