SPECIFICATION Spec
CONSTANTS
  Switcher = {s1, s2}
  Maintainer = Maintainer
  Server = Server
  Nobody = Nobody
  MaxFiles = 4
  MaxLines = 2
  MaxFaults = 2
SYMMETRY Interchangeable
INVARIANTS TypeOK NothingLost AppendsLand CertificateSound HistoryClean
