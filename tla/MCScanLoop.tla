------------------------------ MODULE MCScanLoop ------------------------------
(* One static root, on it a filter and beside it a filter that is not        *)
(* implemented yet (snmp_filter), a report over both and its publisher.      *)
EXTENDS ScanEngine

CONSTANTS vlans, pingable, snmp, probe, log, h1, blank

MCRoots      == {vlans}
MCFilters    == {pingable, snmp}
MCReports    == {probe}
MCPublishers == {log}
MCUnfinished == {snmp}
MCPrecursors ==
  [n \in {vlans, pingable, snmp, probe, log} |->
     CASE n \in {pingable, snmp} -> {vlans}
       [] n = probe -> {pingable, snmp}
       [] n = log -> {probe}
       [] OTHER -> {}]
MCHosts  == {h1, blank}
MCListed == [r \in {vlans} |-> {h1}]
=============================================================================
