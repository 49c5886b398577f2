------------------------- MODULE WorkspaceManifest -------------------------
(* How `puffgres init` adds a project to the `packages:` list of an          *)
(* enclosing pnpm workspace, line by line, and what pnpm reads in the file   *)
(* afterwards.  A line is its kind, its indent and the path of an item,      *)
(* without quotes and slashes; newlines at the end of the file are left out. *)
EXTENDS Naturals, Sequences, FiniteSets, SequencesExt

Kinds == {"packages", "inline", "key", "item", "comment", "blank"}
Line(kind, indent, value) == [kind |-> kind, indent |-> indent, value |-> value]

First(S) == CHOOSE i \in S : \A j \in S : i <= j
Latest(S) == CHOOSE i \in S : \A j \in S : i >= j
IsIgnored(line) == line.kind \in {"comment", "blank"}

\* insert_workspace_package: the lines with the new one, or Unsupported for an inline
\* list.  The list ends at the next unindented line, and a new item goes behind the last
\* one, at the first one's indent.
Unsupported == "unsupported"

Opening(lines) == {i \in DOMAIN lines : lines[i].kind \in {"packages", "inline"}}

TrimEnd(lines) ==
  LET text == {i \in DOMAIN lines : lines[i].kind # "blank"}
  IN  IF text = {} THEN <<>> ELSE SubSeq(lines, 1, Latest(text))

ItemsOf(lines, opening) ==
  LET ends == {i \in DOMAIN lines : i > opening /\ ~IsIgnored(lines[i]) /\ lines[i].indent = 0}
      end  == IF ends = {} THEN Len(lines) + 1 ELSE First(ends)
  IN  {i \in opening + 1 .. end - 1 : lines[i].kind = "item"}

\* mutant: the item goes right behind the key, at the default indent
PrependPackage(lines, rel) ==
  LET opening == First(Opening(lines))
  IN  IF Opening(lines) # {} /\ lines[opening].kind = "packages"
        THEN InsertAt(lines, opening + 1, Line("item", 2, rel))
        ELSE Unsupported

InsertWorkspacePackage(lines, rel) ==
  IF Opening(lines) = {}
    THEN TrimEnd(lines) \o <<Line("packages", 0, <<>>), Line("item", 2, rel)>>
  ELSE LET opening == First(Opening(lines))
           items   == ItemsOf(lines, opening)
           indent  == IF items = {} THEN 2 ELSE lines[First(items)].indent
           after   == IF items = {} THEN opening ELSE Latest(items)
       IN  IF lines[opening].kind = "inline" THEN Unsupported
           ELSE IF \E i \in items : lines[i].value = rel THEN lines
           ELSE InsertAt(lines, after + 1, Line("item", indent, rel))

----------------------------------------------------------------------------
(* What pnpm reads, by the rules of YAML.                                   *)

\* The items of a key, which may be as little indented as the key, are those up to the
\* next key; a list whose items have different indents is no YAML.
IsKey(line) == line.kind \in {"packages", "inline", "key"}
KeyOf(lines, i) == Latest({k \in 1..i : IsKey(lines[k])})
Items(lines) == {i \in DOMAIN lines : lines[i].kind = "item"}
IsYaml(lines) ==
  \A i, j \in Items(lines) : KeyOf(lines, i) = KeyOf(lines, j) => lines[i].indent = lines[j].indent
Listed(lines) ==
  {i \in Items(lines) : lines[KeyOf(lines, i)].kind = "packages"}
Members(lines) == {lines[i].value : i \in Listed(lines)}
\* The entries besides them, each with its place among them.
OtherLines(lines) ==
  {i \in DOMAIN lines : ~IsIgnored(lines[i]) /\ lines[i].kind \notin {"packages", "item"}}
Others(lines) ==
  {<<Cardinality({j \in OtherLines(lines) : j <= i}), lines[i]>> : i \in OtherLines(lines)}

\* A manifest that pnpm accepts: keys start a line, every item has one, and the packages
\* are one list without repetitions.
IsManifest(lines) ==
  /\ lines \in Seq([kind : Kinds, indent : Nat, value : Seq(STRING)])
  /\ \A i \in DOMAIN lines : IsKey(lines[i]) => lines[i].indent = 0
  /\ \A i \in Items(lines) : \E k \in 1..i : IsKey(lines[k])
  /\ \A i, j \in Opening(lines) : i = j
  /\ \A i, j \in Listed(lines) : lines[i].value = lines[j].value => i = j
  /\ IsYaml(lines)
=============================================================================
