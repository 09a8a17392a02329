------------------------------ MODULE ConfigFile ------------------------------
(***************************************************************************)
(* The files of the text database (config.c): lines in sections.  A line   *)
(* is the header of a section, or a row: a number, then other words.       *)
(* Comments and blank lines, which no function looks at, are left out.     *)
(* Words are numbers; 0 is the word "(null)", which printf makes of a null *)
(* pointer and atoi() reads as 0.                                          *)
(***************************************************************************)
EXTENDS Integers, Sequences, SequencesExt

Header(section) == [sect |-> section, id |-> 0, val |-> <<>>]
Row(id, val) == [sect |-> "", id |-> id, val |-> val]

Headers(file, section) == {i \in DOMAIN file : file[i].sect = section}

\* config_get_row: the rows behind the header, up to the next header.
Rows(file, section) ==
  {i \in DOMAIN file :
     /\ file[i].sect = ""
     /\ \E h \in Headers(file, section) :
          h < i /\ \A j \in h + 1 .. i : file[j].sect = ""}
RowsWith(file, section, id) == {i \in Rows(file, section) : file[i].id = id}

\* config_get_str: the words of the first row with that number.
GetStr(file, section, id) == file[Min(RowsWith(file, section, id))].val

\* Faulty form of NextId, not used: the number of rows and one.
NextIdCounts(file, section) == Cardinality(Rows(file, section)) + 1

\* What the callers do to number a new row: one more than the greatest.
NextId(file, section) == Max({file[i].id : i \in Rows(file, section)} \cup {0}) + 1

\* config_set_str fails without the section, and when it has nothing to delete.
CanSetStr(file, section, id, val) ==
  IF val = <<>> THEN RowsWith(file, section, id) # {} ELSE Headers(file, section) # {}

\* config_set_str replaces the last row with that number, or adds one at the
\* beginning of the section.  Without a value (<<>>, a null pointer) it does not
\* remove the row: the row gets the word "(null)".
SetStr(file, section, id, val) ==
  LET line == Row(id, IF val = <<>> THEN <<0>> ELSE val)
      old  == RowsWith(file, section, id)
  IN IF old # {} THEN ReplaceAt(file, Max(old), line)
     ELSE InsertAt(file, Min(Headers(file, section)) + 1, line)

\* config_add_row
AddRow(file, section, id, val) ==
  InsertAt(file, Min(Headers(file, section)) + 1, Row(id, val))

\* config_set_row: line n is replaced, or removed.
SetRow(file, n, id, val) == ReplaceAt(file, n, Row(id, val))
DelRow(file, n) == RemoveAt(file, n)
=============================================================================
