\* The gauge of the root against what the root lists.
CONSTANTS
  vlans = vlans
  pingable = pingable
  snmp = snmp
  probe = probe
  log = log
  h1 = h1
  blank = blank
  Roots <- MCRoots
  Filters <- MCFilters
  Reports <- MCReports
  Publishers <- MCPublishers
  Precursors <- MCPrecursors
  Unfinished <- MCUnfinished
  Exporters = {}
  Hosts <- MCHosts
  Blank = blank
  Listed <- MCListed
  Workers = 2
  Frequency = 0
  Minute = 1
  Horizon = 1
SPECIFICATION Spec
INVARIANT ActiveAreListed
