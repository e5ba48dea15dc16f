SPECIFICATION Spec
CONSTANTS
  p1 = p1  p2 = p2  g1 = g1  k1 = k1  q1 = q1  r1 = r1  r2 = r2
  f1 = f1  f2 = f2  a = a  b = b  o1 = o1  o2 = o2  o3 = o3
  Publisher = {p1, p2}
  Collector = {}
  Courier = {}
  Pinner = {}
  Op = {o1, o2, o3}
  GitOp = {o1}
  Commit = {}
  Path = {f1, f2}
  Content = {a, b}
  Absent = Absent
  ChangeOf <- MCChangeOf
  InitialManifest <- MCInitialManifest
  MaxFence = 4
  MaxDelete = 3
PROPERTY ImplementsSource
CHECK_DEADLOCK FALSE
