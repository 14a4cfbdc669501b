----------------------------- MODULE MCScanEngine -----------------------------
(* The example configuration in small: one static root, a ping filter on it, *)
(* an exporter filter on that, and a report over the exporter filter and the *)
(* root, with its publisher.                                                 *)
EXTENDS ScanEngine

CONSTANTS vlans, pingable, exporters, probe, log, h1, blank

MCRoots      == {vlans}
MCFilters    == {pingable, exporters}
MCExporters  == {exporters}
MCReports    == {probe}
MCPublishers == {log}
MCPrecursors ==
  [n \in {vlans, pingable, exporters, probe, log} |->
     CASE n = pingable -> {vlans}
       [] n = exporters -> {pingable}
       [] n = probe -> {exporters, vlans}
       [] n = log -> {probe}
       [] OTHER -> {}]
MCHosts  == {h1, blank}
MCListed == [r \in {vlans} |-> {h1}]
=============================================================================
