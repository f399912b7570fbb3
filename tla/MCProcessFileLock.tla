------------------------- MODULE MCProcessFileLock -------------------------
(***************************************************************************)
(* Two processes and three files: the household lock (core/storage.py:     *)
(* shared at run time, exclusive for a migration, never waiting) and the   *)
(* schema locks of the memory store (store/sqlite.py) and of the semantic  *)
(* index (semantic/index.py), which are exclusive and wait.                *)
(***************************************************************************)
EXTENDS ProcessFileLock

CONSTANTS p1, p2, a, b, c, d, e, household, schema, index,
          share1, share2, migrate1, migrate2, again1,
          schema1, nested1, schema2, index1, index2

MCProcessOf == [t \in Threads |-> IF t \in {c, d} THEN p2 ELSE p1]

InSecond == {share2, migrate2, schema2, index2}
OnSchema == {schema1, nested1, again1, schema2}
OnIndex  == {index1, index2}
Sharing  == {share1, share2}

MCHomeOf    == [l \in Locks |-> IF l \in InSecond THEN p2 ELSE p1]
MCPathOf    == [l \in Locks |-> IF l \in OnSchema THEN schema
                                ELSE IF l \in OnIndex THEN index ELSE household]
MCExclusive == [l \in Locks |-> l \notin Sharing]
MCBlocking  == [l \in Locks |-> l \in OnSchema \cup OnIndex]

\* Any nesting; and no file under another, as the two schema locks are used.
AnyNesting == Paths \X Paths
NoNesting  == {<<f, f>> : f \in Paths}
=============================================================================
