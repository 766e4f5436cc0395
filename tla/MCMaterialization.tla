------------------------- MODULE MCMaterialization -------------------------
(* Small instances of Materialization: a text file with two spellings, a   *)
(* structured file and a file in a directory, met by plans of up to two    *)
(* writes and two patches of each kind that can interact.                  *)
EXTENDS Materialization

CONSTANTS a, b, c, d

MCPaths     == {"notes", "config", "dir", "dir/file"}
MCNames     == MCPaths \cup {"repo/notes"}
MCTarget    == [n \in MCNames |-> IF n = "repo/notes" THEN "notes" ELSE n]
MCAncestors == [p \in MCPaths |-> IF p = "dir/file" THEN {"dir"} ELSE {}]

One(w) == <<w, LF>>
Four   == <<a, LF, b, LF, c, LF, d, LF>>
Dos(text) == [File(text) EXCEPT !.ends = "crlf"]

MCInitialFiles ==
  {[p \in MCPaths |-> CASE p = "notes" -> notes [] p = "config" -> File(Four)
                        [] p = "dir" -> dir [] OTHER -> Missing] :
     notes \in {Missing, Binary, File(<<a>>), Dos(One(a)), File(Four)},
     dir \in {Missing, File(One(a))}}

MCWrites ==
  {[name |-> "notes", text |-> t] : t \in {<<a>>, One(a), One(b), Four}} \cup
  {[name |-> n, text |-> One(a)] : n \in {"repo/notes", "dir", "dir/file"}} \cup
  {[name |-> "repo/notes", text |-> << >>]}

MCPatches ==
  {[name |-> "notes", before |-> w[1], after |-> w[2]] :
     w \in {<<One(a), <<a, LF, a>>>>, <<<<a, LF, a>>, <<a>>>>, <<<<b>>, <<b>>>>,
            <<<<a, LF, c>>, <<d>>>>, <<<<LF>>, << >>>>}} \cup
  {[name |-> "repo/notes", before |-> <<a>>, after |-> <<a, LF, a>>],
   [name |-> "config", before |-> <<a, LF, c>>, after |-> <<d>>],
   [name |-> "dir/file", before |-> One(a), after |-> << >>]}

UpToTwo(S) == UNION {[1 .. n -> S] : n \in 0 .. 2}
MCResponses ==
  [directories : {<< >>, <<"dir">>, <<"dir", "dir">>},
   writes : UpToTwo(MCWrites), patches : UpToTwo(MCPatches)]
=============================================================================
