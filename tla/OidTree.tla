-------------------------------- MODULE OidTree --------------------------------
(***************************************************************************)
(* The index of objects by OID (src/pkg/snmp/mibdb/oidbranch.go).          *)
(*                                                                         *)
(* An OidBranch is named by its path from the root, and a tree is the      *)
(* function that gives every branch its definition, or NoDefinition: the   *)
(* children maps are the one-step extensions of a path in its domain.      *)
(***************************************************************************)
EXTENDS Naturals, Sequences, FiniteSetsExt

CONSTANT NoDefinition

EmptyTree == [branch \in {<<>>} |-> NoDefinition]

Prefixes(oid) == {SubSeq(oid, 1, k) : k \in 0 .. Len(oid)}

\* addDefinition makes the branches that are missing on the way; the last one
\* takes the definition, whether it had one or not.
AddDefinition(tree, oid, def) ==
  [branch \in DOMAIN tree \cup Prefixes(oid) |->
     CASE branch = oid -> def
       [] branch \in DOMAIN tree \ {oid} -> tree[branch]
       [] OTHER -> NoDefinition]

\* findOID, called on the branch of the first k arcs, answers with a number of
\* arcs: it descends as far as there are children and comes back to the last
\* branch that has a definition.
\* (Mutant: it stays on the deepest branch.)
FindDeepest(tree, oid) ==
  LET find[k \in 0 .. Len(oid)] ==
        IF k = Len(oid) \/ SubSeq(oid, 1, k + 1) \notin DOMAIN tree THEN k ELSE find[k + 1]
  IN  find[0]

FindOID(tree, oid) ==
  LET find[k \in 0 .. Len(oid)] ==
        IF k = Len(oid) \/ SubSeq(oid, 1, k + 1) \notin DOMAIN tree
        THEN k
        ELSE IF tree[SubSeq(oid, 1, find[k + 1])] = NoDefinition THEN k ELSE find[k + 1]
  IN  find[0]

Found(tree, oid) == SubSeq(oid, 1, FindOID(tree, oid))
Index(tree, oid) == SubSeq(oid, FindOID(tree, oid) + 1, Len(oid))

Parent(branch) == SubSeq(branch, 1, Len(branch) - 1)

\* What findOID is for: the longest prefix of the OID that is the OID of a
\* definition, the root if there is none.
LongestDefined(defined, oid) ==
  Max({0} \cup {k \in 1 .. Len(oid) : SubSeq(oid, 1, k) \in defined})
================================================================================
