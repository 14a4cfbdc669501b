------------------------------- MODULE MCMibScan -------------------------------
(* Every short text, and longer ones of a few characters that matter together. *)
EXTENDS MibScan

Upto(n, set) == UNION {[1 .. k -> set] : k \in 0 .. n}

MCTexts ==
  Upto(2, Characters)
  \cup Upto(4, {"-", "1", ":", "=", "a"})
  \cup Upto(4, {" ", "LF", "CR", "a", "-"})
  \cup {<<"QUOTE">> \o s : s \in Upto(5, {"QUOTE", "BACKSLASH", "LF", "CR", "n"})}
  \cup {<<"a", "QUOTE">> \o s \o <<"QUOTE", " ", "a">> : s \in Upto(4, {"LF", " ", "n"})}
================================================================================
