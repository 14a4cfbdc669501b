\* One root, two filters in a row, a report over both ends; any number of runs, scans
\* shorter and longer than the frequency.
CONSTANTS
  vlans = vlans
  pingable = pingable
  exporters = exporters
  probe = probe
  log = log
  h1 = h1
  blank = blank
  Roots <- MCRoots
  Filters <- MCFilters
  Reports <- MCReports
  Publishers <- MCPublishers
  Precursors <- MCPrecursors
  Unfinished = {}
  Exporters <- MCExporters
  Hosts <- MCHosts
  Blank = blank
  Listed <- MCListed
  Workers = 2
  Frequency = 2
  Minute = 1
  Horizon = 3
SPECIFICATION FairSpec
INVARIANTS FilterProvenance FreshInputs MetricsExact StampsTellRun Paced
PROPERTY ScansForEver
