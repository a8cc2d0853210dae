------------------------------ MODULE Calculator ------------------------------
(***************************************************************************)
(* The calculator's window (src/gui.c), its history (History) and the      *)
(* module it launches (src/engine/module_main.c).                          *)
(*                                                                         *)
(* A key of the keyboard or a button runs one handler to its end.  The     *)
(* process may end in the middle of writing the history file, or be told   *)
(* to; it is then started again.  Evaluate stands for evaluate_expression  *)
(* and the text of its result; Negated for atof and the text of -val.      *)
(***************************************************************************)
EXTENDS History

LOCAL INSTANCE SequencesExt

CONSTANTS Key,           \* appended as they are: digits, point, parentheses, percent
          Figure,        \* digits and the point
          SIZE,          \* sizeof app_state.expression
          RESULT,        \* sizeof app_state.last_result
          Engineering,   \* the expression that launches the module
          Evaluate(_),   \* the result of an expression, or Error
          Negated(_),    \* the negation of a result
          Result,        \* the texts "%.10g" makes of a double
          Error,
          MaxEvents      \* bound on what the user does

ASSUME SizeAssumption == SIZE \in Nat /\ LINE < SIZE /\ RESULT \in 2..(SIZE - 1)
ASSUME EventsAssumption == MaxEvents \in Nat

VARIABLES running,
          expression,
          last_result,
          has_error,
          clear_on_next_input,
          input_label,     \* what the display shows; Error for a message
          module,          \* the module process
          token,           \* does its environment hold CALC_ENGINE_KEY?
          events,
          \* what the properties compare the history with
          done,            \* evaluations since the history was cleared or reloaded
          sound,           \* the file was written to its end, in lines that fit
          genuine          \* no process has started from an unsound file

app_state == <<expression, last_result, has_error, clear_on_next_input, input_label>>
history == <<history_list, history_file, done, sound, genuine>>
engine == <<module, token>>
vars == <<running, app_state, history, engine, events>>

Operator == {"+", "-", "*", "/"}

\* What a key or a result can put into the expression: × and ÷ are two bytes each of the
\* formulas of the history, where spaces stand round them.
Typed == Byte \ {" ", "c3", "97", "b7"}

ASSUME SignAssumption == {"0", " ", "c3", "97", "b7"} \cup Operator \subseteq Byte
ASSUME KeyAssumption == /\ Key \subseteq Typed \ Operator
                        /\ Figure \cap (Operator \cup {"("}) = {}

Init == /\ running = TRUE
        /\ expression = <<>> /\ last_result = <<>>
        /\ has_error = FALSE /\ clear_on_next_input = FALSE
        /\ input_label = <<"0">>
        /\ HistoryInit
        /\ done = <<>> /\ sound = TRUE /\ genuine = TRUE
        /\ module = "absent" /\ token = FALSE
        /\ events = 0

\* One thing the user does, or one fault.
Happens(n) == events + n <= MaxEvents /\ events' = events + n

Event == running /\ Happens(1) /\ UNCHANGED <<running, engine>>

\* What create_main_window starts with; nothing is left of a process that ended.
Blank == /\ expression' = <<>> /\ last_result' = <<>>
         /\ has_error' = FALSE /\ clear_on_next_input' = FALSE
         /\ input_label' = <<"0">>

------------------------------------------------------------------------------
(* The display and the formula *)

Shown(e) == IF e = <<>> THEN <<"0">> ELSE e

update_display == input_label' = IF has_error' THEN input_label ELSE Shown(expression')

\* Mutant: a '-' after '(' is taken for an operator.
Unary_operators(e, i) == i = 1 \/ e[i - 1] \in Operator

\* strncpy to a buffer of this size, and the end of the text after it.
Cut(text, size) == IF Len(text) < size THEN text ELSE SubSeq(text, 1, size - 1)

\* Is the '-' at i a sign?
Unary(e, i) == i = 1 \/ e[i - 1] \in Operator \cup {"("}

\* Two operators meet only where the second is a sign and the first is none.
Apart(e) == \A i \in 1..(Len(e) - 1) :
               e[i] \in Operator /\ e[i + 1] \in Operator =>
                  e[i + 1] = "-" /\ ~(e[i] = "-" /\ Unary(e, i))

ASSUME ResultAssumption ==
    \A r \in Result : /\ r \in Seq(Typed) /\ Len(r) \in 1..(RESULT - 1) /\ Apart(r)
                      /\ Negated(r) \in Result
                      /\ Last(Negated(r)) = "f" \/ Negated(Negated(r)) = r

Glyph(e, i) ==
    CASE e[i] = "*" -> <<" ", "c3", "97", " ">>
      [] e[i] = "/" -> <<" ", "c3", "b7", " ">>
      [] e[i] = "+" -> <<" ", "+", " ">>
      [] e[i] = "-" /\ ~Unary(e, i) -> <<" ", "-", " ">>
      [] OTHER -> <<e[i]>>

\* The formula of the history; perform_evaluation adds " =" and strips it again.
Formula(e) == FlattenSeq([i \in DOMAIN e |-> Glyph(e, i)])

\* What a row of the history makes of it.
Ascii(f) ==
    LET Signs == {"97", "b7"}
        Pair(i) == i < Len(f) /\ f[i] = "c3" /\ f[i + 1] \in Signs
        Byte1(i) == IF Pair(i) THEN IF f[i + 1] = "97" THEN <<"*">> ELSE <<"/">>
                    ELSE IF f[i] = " " \/ (i > 1 /\ Pair(i - 1)) THEN <<>>
                    ELSE <<f[i]>>
    IN  FlattenSeq([i \in DOMAIN f |-> Byte1(i)])

------------------------------------------------------------------------------
(* Keys *)

\* Mutant: the end of the text is not counted.
Fits_full(e, n) == Len(e) + n < SIZE

Fits(e, n) == Len(e) + n < SIZE - 1

append_to_expression(key) ==
    LET e == IF clear_on_next_input THEN <<>> ELSE expression
    IN  /\ Event
        /\ expression' = IF Fits(e, 1) THEN Append(e, key) ELSE e
        /\ clear_on_next_input' = FALSE
        /\ has_error' = (has_error /\ ~clear_on_next_input)
        /\ update_display
        /\ UNCHANGED <<last_result, history>>

\* Mutant: only the last character is looked at.
WithoutOperator_one(e) ==
    IF e = <<>> \/ Last(e) \notin Operator THEN e ELSE Front(e)

\* An operator replaces the one before it, and the sign after that.
WithoutOperator(e) ==
    LET n == Len(e)
    IN  IF n = 0 \/ e[n] \notin Operator THEN e
        ELSE IF n > 1 /\ e[n] = "-" /\ e[n - 1] \in Operator THEN SubSeq(e, 1, n - 2)
        ELSE Front(e)

append_operator(op) ==
    LET e == WithoutOperator(IF ~clear_on_next_input THEN expression
                             ELSE IF has_error THEN <<>> ELSE last_result)
    IN  /\ Event
        /\ expression' = IF Fits(e, 1) THEN Append(e, op) ELSE e
        /\ clear_on_next_input' = FALSE
        /\ has_error' = (has_error /\ ~clear_on_next_input)
        /\ update_display
        /\ UNCHANGED <<last_result, history>>

\* Where the number at the end of e begins, less one.
BeforeNumber(e) == CHOOSE i \in 0..Len(e) : /\ i > 0 => e[i] \notin Figure
                                            /\ \A j \in (i + 1)..Len(e) : e[j] \in Figure

Toggled(e) ==
    LET i == BeforeNumber(e)
    IN  IF e = <<>> THEN <<"-">>
        ELSE IF i > 0 /\ e[i] = "-" /\ Unary(e, i) THEN RemoveAt(e, i)
        ELSE IF Fits(e, 1) THEN InsertAt(e, i + 1, "-")
        ELSE e

\* Mutant: the expression keeps the old result.
toggle_sign_label ==
    LET answer == clear_on_next_input /\ ~has_error /\ last_result # <<>>
    IN  /\ Event
        /\ last_result' = IF answer THEN Cut(Negated(last_result), RESULT) ELSE last_result
        /\ expression' = IF clear_on_next_input THEN expression ELSE Toggled(expression)
        /\ input_label' = IF answer THEN last_result'
                          ELSE IF clear_on_next_input \/ has_error THEN input_label
                          ELSE Shown(expression')
        /\ UNCHANGED <<has_error, clear_on_next_input, history>>

toggle_sign ==
    LET answer == clear_on_next_input /\ ~has_error /\ last_result # <<>>
    IN  /\ Event
        /\ last_result' = IF answer THEN Cut(Negated(last_result), RESULT) ELSE last_result
        /\ expression' = IF answer THEN last_result'
                         ELSE IF clear_on_next_input THEN expression
                         ELSE Toggled(expression)
        /\ input_label' = IF answer THEN last_result'
                          ELSE IF clear_on_next_input \/ has_error THEN input_label
                          ELSE Shown(expression')
        /\ UNCHANGED <<has_error, clear_on_next_input, history>>

perform_backspace ==
    /\ Event
    /\ expression' = IF clear_on_next_input \/ expression = <<>> THEN <<>>
                     ELSE Front(expression)
    /\ clear_on_next_input' = FALSE
    /\ has_error' = (has_error /\ ~clear_on_next_input)
    /\ update_display
    /\ UNCHANGED <<last_result, history>>

\* Mutant: the error is not forgotten.
clear_entry_error ==
    /\ Event
    /\ expression' = <<>>
    /\ clear_on_next_input' = FALSE
    /\ input_label' = <<"0">>
    /\ UNCHANGED <<has_error, last_result, history>>

\* C, CE, Escape and Delete.
clear_entry ==
    /\ Event
    /\ expression' = <<>>
    /\ clear_on_next_input' = FALSE
    /\ has_error' = FALSE
    /\ input_label' = <<"0">>
    /\ UNCHANGED <<last_result, history>>

------------------------------------------------------------------------------
(* Evaluation *)

Fitting(list) == \A i \in DOMAIN list : /\ Len(list[i].expression) < LINE - 1
                                        /\ Len(list[i].result) < LINE - 1

\* The process goes on, whatever became of the file.
save_history_to_file ==
    \/ Saved /\ sound' = Fitting(history_list') /\ Happens(1)
    \/ (NotOpened \/ CutShort) /\ sound' = FALSE /\ Happens(2)

Evaluates == ~has_error /\ expression # <<>> /\ expression # Engineering

evaluate_result ==
    LET result == Evaluate(expression)
    IN  /\ running /\ Evaluates /\ result # Error
        /\ input_label' = result
        /\ history_add(Formula(expression), result)
        /\ save_history_to_file
        /\ done' = Append(done, [expression |-> Formula(expression), result |-> result])
        /\ last_result' = Cut(result, RESULT)
        /\ clear_on_next_input' = TRUE
        /\ UNCHANGED <<running, expression, has_error, genuine, engine>>

evaluate_error ==
    /\ Event
    /\ Evaluates /\ Evaluate(expression) = Error
    /\ has_error' = TRUE
    /\ input_label' = Error
    /\ clear_on_next_input' = TRUE
    /\ UNCHANGED <<expression, last_result, history>>

\* g_spawn_async may fail; nobody looks.  One module process is enough: the next
\* one finds the running application and ends.
launch_precision_engine ==
    /\ running /\ Happens(1)
    /\ ~has_error /\ expression = Engineering
    /\ \/ module = "absent" /\ module' = "spawned" /\ token' = TRUE
       \/ UNCHANGED engine
    /\ expression' = <<>>
    /\ clear_on_next_input' = FALSE
    /\ input_label' = <<"0">>
    /\ UNCHANGED <<running, last_result, has_error, history>>

on_history_row_activated(i) ==
    /\ Event
    /\ expression' = Cut(Ascii(history_list[i].expression), SIZE)
    /\ last_result' = Cut(history_list[i].result, RESULT)
    /\ has_error' = FALSE
    /\ clear_on_next_input' = TRUE
    /\ input_label' = history_list[i].result
    /\ UNCHANGED history

on_clear_history_clicked ==
    /\ Event
    /\ history_clear
    /\ done' = <<>>
    /\ sound' = (history_file' = <<>>)
    /\ UNCHANGED <<app_state, genuine>>

------------------------------------------------------------------------------
(* The processes *)

\* The window is closed and main ends, or the process is killed.
Quit ==
    /\ running /\ Happens(1)
    /\ running' = FALSE
    /\ history_free /\ Blank
    /\ UNCHANGED <<done, sound, genuine, engine>>

\* Killed in save_history_to_file, after the file was emptied.
KilledSaving ==
    /\ running /\ Happens(2)
    /\ Evaluates /\ Evaluate(expression) # Error
    /\ LET new == Written(Added(Formula(expression), Evaluate(expression)))
       IN  history_file' \in Prefixes(new) \ {new}
    /\ running' = FALSE
    /\ history_list' = <<>> /\ Blank
    /\ sound' = FALSE
    /\ UNCHANGED <<done, genuine, engine>>

\* main, as far as the window.
main ==
    /\ ~running
    /\ running' = TRUE
    /\ history_init /\ Blank
    /\ done' = IF sound THEN done ELSE Loaded(history_file)
    /\ genuine' = (genuine /\ sound)
    /\ UNCHANGED <<sound, engine, events>>

\* The module, started by hand.
RunModule ==
    /\ module = "absent" /\ Happens(1)
    /\ module' = "spawned" /\ token' = FALSE
    /\ UNCHANGED <<running, app_state, history>>

\* main of the module: without the token it declines; sodium_init may fail.
module_main ==
    /\ module = "spawned"
    /\ module' \in IF token THEN {"serving", "absent"} ELSE {"absent"}
    /\ token' = FALSE
    /\ UNCHANGED <<running, app_state, history, events>>

ModuleEnds ==
    /\ module = "serving"
    /\ module' = "absent"
    /\ UNCHANGED <<running, app_state, history, token, events>>

Next == \/ \E key \in Key : append_to_expression(key)
        \/ \E op \in Operator : append_operator(op)
        \/ toggle_sign
        \/ perform_backspace
        \/ clear_entry
        \/ evaluate_result
        \/ evaluate_error
        \/ launch_precision_engine
        \/ \E i \in DOMAIN history_list : on_history_row_activated(i)
        \/ on_clear_history_clicked
        \/ Quit
        \/ KilledSaving
        \/ main
        \/ RunModule
        \/ module_main
        \/ ModuleEnds

Spec == Init /\ [][Next]_vars

------------------------------------------------------------------------------
(* Properties *)

\* What the proofs assume of evaluate_expression, atof and "%.10g": of any text, what is
\* printed is the text of a double.
PrintsResults == \A e \in Seq(Byte) : /\ Evaluate(e) \in Result \cup {Error}
                                       /\ Negated(e) \in Result

\* The types; and no handler fills the buffer beyond its last byte but one.
TypeOK ==
    /\ running \in BOOLEAN /\ has_error \in BOOLEAN /\ clear_on_next_input \in BOOLEAN
    /\ expression \in Seq(Byte) /\ Len(expression) < SIZE - 1
    /\ last_result \in Seq(Byte) /\ Len(last_result) < RESULT
    /\ genuine => last_result \in Result \cup {<<>>}
    /\ input_label \in Seq(Byte) \cup {Error}
    /\ history_list \in Seq(Entry) /\ Len(history_list) <= MAX_HISTORY
    /\ history_file \in Bytes
    /\ module \in {"absent", "spawned", "serving"}

\* Whatever keys come in whatever order - operators in a row, signs, backspace into
\* them, results and rows of the history - two operators meet only where the second is a
\* sign and the first is none, so never three (append_operator, toggle_sign,
\* perform_backspace).  Once a process has started from a file with a line longer than its
\* buffer it is not so: the result of a row may be a piece of a formula with spaces
\* between its operators, which the row of a later evaluation of it leaves out.
OperatorsApart == genuine => Apart(expression)

\* The display shows the message of an error that has not been answered by a key, the
\* result that the next key replaces, or else the expression: has_error never outlives
\* clear_on_next_input, and no handler leaves the label of an earlier state.
DisplayAgrees ==
    running => IF has_error THEN input_label = Error
               ELSE IF clear_on_next_input THEN last_result = Cut(input_label, RESULT)
               ELSE input_label = Shown(expression)

\* A result on the display is the one of the expression, as it was typed, as toggle_sign
\* left both, and as it comes back from the history, its formula rewritten to × and ÷,
\* written to the file, read and rewritten again: = gives it again.
AnswerStands ==
    running /\ genuine /\ clear_on_next_input /\ ~has_error =>
       expression = last_result \/ Evaluate(expression) = last_result

\* The +/- key twice is as if it had not been pressed: the first finds the place of the
\* sign the second looks for.  (Where the number follows a ')', a '%' or the 'f' of "inf"
\* it is not so: the '-' that toggle_sign puts there is an operator to the second.  Nor is it
\* for a result whose text is rounded to more than the largest double: that is read as inf.)
ToggleRestores ==
    IF clear_on_next_input
    THEN genuine /\ last_result # <<>> /\ ~has_error =>
            Last(Negated(last_result)) = "f" \/ Negated(Negated(last_result)) = last_result
    ELSE LET i == BeforeNumber(expression)
         IN  genuine /\ (i > 0 => expression[i] \in Operator \cup {"("})
                => Toggled(Toggled(expression)) = expression

\* The history is the last MAX_HISTORY evaluations since it was cleared, the oldest
\* first, and so it will be after a restart, unless the last writing of the file did not
\* end or a line of it is longer than the buffer it is read to.
HistoryKept ==
    /\ running => history_list = LastOnes(done)
    /\ sound => Loaded(history_file) = LastOnes(done)

\* A result can be worked on: appending an operator to the text "%.10g" made of it gives
\* an expression the parser reads as that number.  ("inf" and "nan" are not: it stops at
\* their first letter; and a text rounded to more than the largest double is read as inf.)
ResultsAreOperands ==
    genuine /\ clear_on_next_input /\ ~has_error /\ last_result # <<>> =>
       \/ Last(last_result) \in {"f", "n"}
       \/ Evaluate(last_result \o <<"*", "1">>) = last_result
       \/ Last(Negated(last_result)) = "f"

==============================================================================
