---------------------------- MODULE WordLocator ----------------------------
(***************************************************************************)
(* The word locator (src/p1): a loop that receives a command line and      *)
(* executes it over one dictionary.  Receive looks whether the file of a   *)
(* load exists and Execute reads it, a step later.                         *)
(***************************************************************************)
EXTENDS WordTree, FiniteSets

CONSTANTS
  Paths,          \* names of files that can be loaded
  Texts,          \* the contents a file can have: sequences of lines
  Missing,        \* no such file
  WordChars,      \* letters, digits and the apostrophe
  Lower,          \* tolower, a function on WordChars
  Asked,          \* words a locate command names, in lower case
  Numbers,        \* occurrences a locate command names
  MaxOccurrence   \* largest value of the uint16_t `occurrence', 65535

VARIABLES
  disk,           \* the content of each file, or Missing
  line,           \* the input line last received
  command,        \* Command: op and the arguments op uses
  pc,             \* where main is: "receive", "execute" or "end"
  word_list,      \* Dictionary: the radix tree
  is_loadable,    \*   and whether a file can be loaded into it
  prev_ops,       \* Context: the operation before
  printed,        \*   and what PrintResult wrote (-2 nothing, -1 an error)
  loaded,         \* history: the text in the dictionary
  deep            \* history: a split behind the second character of a node

dictVars == <<word_list, is_loadable, loaded, deep>>
vars == <<disk, line, command, pc, word_list, is_loadable, prev_ops,
          printed, loaded, deep>>

Lines == [kind : {"empty", "other", "new", "end"}]
         \cup [kind : {"load"}, path : Paths]
         \cup [kind : {"locate"}, word : Asked, number : Numbers]

Init ==
  /\ disk \in [Paths -> Texts]
  /\ line = [kind |-> "empty"]
  /\ command = [op |-> "EMPTY"]
  /\ pc = "receive"
  /\ word_list = EmptyTree
  /\ is_loadable = TRUE
  /\ prev_ops = "EMPTY"
  /\ printed = -2
  /\ loaded = <<>>
  /\ deep = FALSE
-----------------------------------------------------------------------------
\* Reading digits into a uint16_t stops at its largest value.
Occurrence(number) == Min({number, MaxOccurrence})

CommandOf(l) ==
  CASE l.kind = "empty"  -> [op |-> "EMPTY"]
    [] l.kind = "other"  -> [op |-> "INVALID"]
    [] l.kind = "new"    -> [op |-> "NEW"]
    [] l.kind = "end"    -> [op |-> "END"]
    [] l.kind = "load"   -> IF disk[l.path] = Missing THEN [op |-> "INVALID"]
                            ELSE [op |-> "LOAD", arg_1 |-> l.path]
    [] l.kind = "locate" -> [op |-> "LOCATE", arg_1 |-> l.word,
                             arg_2 |-> Occurrence(l.number)]

Receive ==
  /\ pc = "receive"
  /\ line' \in Lines
  /\ command' = CommandOf(line')
  /\ pc' = "execute"
  /\ printed' = -2
  /\ UNCHANGED <<disk, prev_ops, dictVars>>
-----------------------------------------------------------------------------
\* Dictionary::Parse: the runs of word characters, in lower case.
ParseTurn(a, ch) ==
  CASE ch \in WordChars -> [a EXCEPT !.word = Append(@, Lower[ch])]
    [] ch \notin WordChars /\ a.word # <<>> ->
         [vec |-> Append(a.vec, a.word), word |-> <<>>]
    [] OTHER -> a

Parse(str) ==
  LET end == FoldLeft(ParseTurn, [vec |-> <<>>, word |-> <<>>], str)
  IN  IF end.word = <<>> THEN end.vec ELSE Append(end.vec, end.word)

\* Dictionary::Load: word after word under its count, line after line.
LoadTurn(a, word) ==
  LET b == Insert(a.tree, word, a.total_count + 1)
  IN  [tree |-> b.tree, deep |-> a.deep \/ b.deep,
       total_count |-> a.total_count + 1]

Load(tree, text) ==
  FoldLeft(LoadTurn, [tree |-> tree, deep |-> FALSE, total_count |-> 0],
           FlattenSeq([i \in DOMAIN text |-> Parse(text[i])]))

\* LoadableAfter as it would be if Load did not reset the flag.
LoadableAfterAll(text) == TRUE
\* Whether a text can be loaded after one was.
LoadableAfter(text) == FALSE
-----------------------------------------------------------------------------
Executes(op) ==
  /\ pc = "execute" /\ command.op = op
  /\ pc' = IF op = "END" THEN "end" ELSE "receive"
  /\ UNCHANGED <<disk, line, command>>

Destroy ==
  Executes("END") /\ prev_ops' = "END" /\ UNCHANGED <<printed, dictVars>>

New ==
  /\ Executes("NEW") /\ prev_ops' = "NEW"
  /\ word_list' = EmptyTree /\ is_loadable' = TRUE
  /\ loaded' = <<>> /\ deep' = FALSE
  /\ UNCHANGED printed

\* A load right after a load first makes a new dictionary.  A file that has
\* gone since Receive is not loaded, without an error.
LoadText ==
  LET renewed == prev_ops = "LOAD"
      tree    == IF renewed THEN EmptyTree ELSE word_list
      text    == disk[command.arg_1]
      result  == Load(tree, text)
  IN  /\ Executes("LOAD") /\ prev_ops' = "LOAD"
      /\ renewed \/ is_loadable
      /\ IF text = Missing
         THEN /\ word_list' = tree /\ is_loadable' = TRUE
              /\ loaded' = <<>> /\ deep' = FALSE
         ELSE /\ word_list' = result.tree
              /\ is_loadable' = LoadableAfter(text)
              /\ loaded' = text /\ deep' = result.deep
      /\ UNCHANGED printed

LoadRefused ==
  /\ Executes("LOAD") /\ prev_ops # "LOAD" /\ ~ is_loadable
  /\ printed' = -1
  /\ UNCHANGED <<prev_ops, dictVars>>

Locate ==
  /\ Executes("LOCATE") /\ prev_ops' = "LOCATE"
  /\ printed' = Search(word_list, command.arg_1, command.arg_2)
  /\ UNCHANGED dictVars

Invalid ==
  Executes("INVALID") /\ printed' = -1 /\ UNCHANGED <<prev_ops, dictVars>>

Empty ==
  Executes("EMPTY") /\ UNCHANGED <<printed, prev_ops, dictVars>>

\* Another program removes a file.
Vanish(path) ==
  /\ disk[path] # Missing
  /\ disk' = [disk EXCEPT ![path] = Missing]
  /\ UNCHANGED <<line, command, pc, prev_ops, printed, dictVars>>

Next ==
  \/ Receive \/ Destroy \/ New \/ LoadText \/ LoadRefused
  \/ Locate \/ Invalid \/ Empty
  \/ \E path \in Paths : Vanish(path)

Spec == Init /\ [][Next]_vars
-----------------------------------------------------------------------------
(***************************************************************************)
(* What the program promises, told without the tree: the words of a text   *)
(* are the longest runs of word characters of its lines.                   *)
(***************************************************************************)
IsRun(str, s, e) ==
  /\ \A i \in s .. e : str[i] \in WordChars
  /\ s = 1 \/ str[s - 1] \notin WordChars
  /\ e = Len(str) \/ str[e + 1] \notin WordChars

RunAt(str, s) ==
  LET e == CHOOSE e \in s .. Len(str) : IsRun(str, s, e)
  IN  [i \in 1 .. e - s + 1 |-> Lower[str[s + i - 1]]]

WordsOf(text) ==
  LET Starts(str) == {s \in DOMAIN str : \E e \in s .. Len(str) : IsRun(str, s, e)}
      InLine(str) == [i \in 1 .. Cardinality(Starts(str)) |->
                        RunAt(str, SetToSortSeq(Starts(str), <)[i])]
  IN  FlattenSeq([i \in DOMAIN text |-> InLine(text[i])])

\* The position of the n-th occurrence of a word of a text, 0 if none.
PositionOf(text, word, n) ==
  LET words == WordsOf(text)
      At    == {i \in DOMAIN words : words[i] = word}
  IN  IF n > Cardinality(At) THEN 0 ELSE SetToSortSeq(At, <)[n]

JustLocated == pc = "receive" /\ line.kind = "locate"

\* A locate command prints the position of the occurrence asked for in the
\* text loaded last ("Returns the word count until `occurrence`th occurrence
\* of `word`.", wl.h:301), as long as the number fits in 16 bits (wl.cpp:201).
LocateTold ==
  JustLocated /\ line.number <= MaxOccurrence
    => printed = PositionOf(loaded, line.word, line.number)

\* It does as long as no node was split behind its second character: Insert
\* then goes on one character further, whatever the split has consumed
\* (wl.cpp:374), and files the word under another.
LocateRight == ~ deep => LocateTold

\* Whatever was split, the tree files each position of the one text it was
\* loaded with once, in ascending order at each node: no text is added to
\* another and no count is lost by a split (Load, wl.cpp:469; Split, :254).
FiledOnce ==
  LET total == Len(WordsOf(loaded))
  IN  /\ \A n \in 1 .. total : 
           Cardinality({p \in DOMAIN word_list : Contains(word_list[p], n)}) = 1
      /\ \A p \in DOMAIN word_list : \A i \in DOMAIN word_list[p] :
           /\ word_list[p][i] \in 1 .. total
           /\ i > 1 => word_list[p][i - 1] < word_list[p][i]
=============================================================================
