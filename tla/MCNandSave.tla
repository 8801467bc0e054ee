----------------------------- MODULE MCNandSave ------------------------------
(***************************************************************************)
(* Hosts and guests for model checking NandSave.                           *)
(***************************************************************************)
EXTENDS NandSave

CONSTANTS i1, i2

World(h, f, d, i) == [host |-> h, fails |-> f, does |-> d, infos |-> i]

\* One handle on a host whose rename replaces, without failures and with; two
\* where an open file stays; one on the Switch's card; and a guest there that
\* reads before it writes.
AllWorlds ==
    {World("posix", {}, {"plain"}, {i1}),
     World("posix", {"flush", "dirsync"}, {"plain", "delete"}, {i1}),
     World("win32", {"rename"}, {"read", "safe"}, {i1, i2}),
     World("fat", {"remove", "flush", "dirsync"}, {"plain", "safe", "retry"}, {i1}),
     World("fat", {"inspect", "copy", "open"}, {"read", "plain", "create", "careful"}, {i1})}

TwoWriters == {World("posix", {}, {"safe"}, {i1, i2})}
RenameFails == {World("fat", {"rename"}, {"plain"}, {i1})}

=============================================================================
