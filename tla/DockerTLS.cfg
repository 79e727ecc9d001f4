SPECIFICATION FairSpec
CONSTANTS
  Hosts = {1, 2}
  JobIds = {1, 2}
  NoPEM = NoPEM
  InitialUploads <- MCEverything
  InitialTLS = {TRUE}
  MaxTime <- MCMaxTime
INVARIANTS
  TypeOK
  ClaimIsTruthful
  PEMIsUsable
PROPERTIES
  HostsGetTheirPEM
