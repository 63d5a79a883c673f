SPECIFICATION ThreadsSpec
CONSTANTS
  Thread = {t1, t2, t3}
  Queue = {q1, q2}
  NoQueue = NoQueue
  None = None
  Work = {1, 2}
  MaxGets = 4
  Worker = {w1, w2}
  Master = m
  BatchSize = 2
  Failing <- SecondFails
  MaxChecks = 3
  MaxSessions = 2
  High = {h1}
  Low = {l1}
  Submitted = {u1, u2, n1}
  Urgent = {u1, u2}
  MaxPauses = 2
  Service = {s1, s2}
  Timed = {once, every}
  Every = {every}
  Delta = 2
  MaxTime = 3
INVARIANTS QueuesPartitioned NoLostWakeup QueueResultSound NoTaskForgotten NoOversleep
PROPERTIES ValidationGoesOn 
CHECK_DEADLOCK FALSE
