-------------------------------- MODULE History --------------------------------
(***************************************************************************)
(* The calculator's history (src/history.c): an array of the last          *)
(* MAX_HISTORY calculations, and the file the whole array is written to    *)
(* after each of them.  The file is a sequence of bytes: a line for the    *)
(* formula, a line for its result, and so on.  Two lines of fgets' buffer  *)
(* are one only if the line and its end fit.                               *)
(***************************************************************************)
EXTENDS Integers, Sequences

LOCAL INSTANCE SequencesExt

CONSTANTS MAX_HISTORY,
          LINE,         \* sizeof line_expr and line_res
          Byte          \* of a text; "\n" ends a line

ASSUME HistoryAssumption == MAX_HISTORY \in Nat \ {0}
ASSUME LineAssumption == LINE \in Nat \ {0, 1}
ASSUME ByteAssumption == "\n" \notin Byte

VARIABLES history_list,  \* of the running process
          history_file

Bytes == Seq(Byte \cup {"\n"})
Entry == [expression : Seq(Byte), result : Seq(Byte)]

\* Bytes one fgets takes from f.
Taken(f) == CHOOSE n \in 1..Len(f) :
               /\ n = LINE - 1 \/ n = Len(f) \/ f[n] = "\n"
               /\ \A i \in 1..(n - 1) : i # LINE - 1 /\ f[i] # "\n"

\* What history_init gets from the file, line ends removed.
Lines[f \in Bytes] ==
    IF f = <<>> THEN <<>>
    ELSE LET n == Taken(f)
             line == IF f[n] = "\n" THEN SubSeq(f, 1, n - 1) ELSE SubSeq(f, 1, n)
         IN  <<line>> \o Lines[SubSeq(f, n + 1, Len(f))]

\* The array after these additions, the oldest shifted out.
LastOnes(s) == IF Len(s) <= MAX_HISTORY THEN s
               ELSE SubSeq(s, Len(s) - MAX_HISTORY + 1, Len(s))

\* The loop reads pairs of lines; a last line without a second is dropped.
Loaded(f) ==
    LET lines == Lines[f]
    IN  LastOnes([i \in 1..(Len(lines) \div 2) |->
                    [expression |-> lines[2 * i - 1], result |-> lines[2 * i]]])

Written(list) ==
    FlattenSeq([i \in DOMAIN list |->
                  list[i].expression \o <<"\n">> \o list[i].result \o <<"\n">>])

HistoryInit == history_list = <<>> /\ history_file = <<>>

history_init == history_list' = Loaded(history_file) /\ UNCHANGED history_file

history_free == history_list' = <<>> /\ UNCHANGED history_file

\* Mutant: a full array does not shift.
Added_over(expression, result) ==
    LET entry == [expression |-> expression, result |-> result]
    IN  IF Len(history_list) < MAX_HISTORY THEN Append(history_list, entry)
        ELSE [history_list EXCEPT ![MAX_HISTORY] = entry]

Added(expression, result) ==
    LastOnes(Append(history_list, [expression |-> expression, result |-> result]))

\* The outcomes of save_history_to_file: fopen "w" has emptied the file before the
\* first byte of it is written.
Saved == history_file' = Written(history_list')
NotOpened == UNCHANGED history_file
CutShort == history_file' \in Prefixes(Written(history_list')) \ {Written(history_list')}

history_add(expression, result) == history_list' = Added(expression, result)

history_clear == history_list' = <<>> /\ \/ history_file' = <<>>
                                         \/ NotOpened

================================================================================
