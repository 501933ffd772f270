---------------------------- MODULE TextProtocol ----------------------------
(***************************************************************************)
(* The text that is exchanged with interfaces, loggers and triggers        *)
(* (units/interface.rs, logger.rs, trigger.rs): how a name or a message is *)
(* escaped, the records it is put into, and how a line that comes back is  *)
(* taken apart and becomes the name of a unit (unit.rs).                   *)
(*                                                                         *)
(* A text is a sequence of characters.  "S" and "T" stand for the words    *)
(* scenario and test, "x" for any character without a meaning, "X" for an  *)
(* upper-case one, which to_lowercase makes an "x".                        *)
(***************************************************************************)
EXTENDS Naturals, Sequences, SequencesExt

CONSTANTS MaxLength,    \* bound: the length of a text
          Alphabet      \* the characters of which texts are made

ASSUME TextAssumption ==
    /\ MaxLength \in Nat
    /\ Alphabet \subseteq {"BS", "t", "n", "r", "x", "X", ".", " ", "TAB", "LF", "CR", "S", "T"}

White == {" ", "TAB", "LF", "CR"}
Text == UNION {[1 .. n -> Alphabet] : n \in 0 .. MaxLength}

VARIABLES
    text,     \* what is to be told: a name or a message
    line,     \* what the loop of cfti_unescape has still to read
    out,      \* what it has put out
    was_bs    \* whether the character before was a backslash

vars == <<text, line, out, was_bs>>

-----------------------------------------------------------------------------
(* Writing.                                                                 *)

(* str::replace, of one character.                                          *)
Replaced(s, c, by) == FlattenSeq([k \in 1 .. Len(s) |-> IF s[k] = c THEN by ELSE <<s[k]>>])

(* Seeded mistake: backslashes are doubled last.                            *)
cfti_escape_late(s) ==
    LET tabs == Replaced(s, "TAB", <<"BS", "t">>)
        lines == Replaced(tabs, "LF", <<"BS", "n">>)
        returns == Replaced(lines, "CR", <<"BS", "r">>)
    IN Replaced(returns, "BS", <<"BS", "BS">>)

cfti_escape(s) ==
    LET doubled == Replaced(s, "BS", <<"BS", "BS">>)
        tabs == Replaced(doubled, "TAB", <<"BS", "t">>)
        lines == Replaced(tabs, "LF", <<"BS", "n">>)
    IN Replaced(lines, "CR", <<"BS", "r">>)

(* Seeded mistake: the name of the unit is not escaped.                     *)
tsv_write_raw(id, message) ==
    <<"x", "TAB">> \o id \o <<"TAB", "T", "TAB", "x", "TAB", "x", "TAB">>
    \o cfti_escape(message) \o <<"LF">>

(* A log record: type, unit, kind of unit, seconds, nanoseconds, message.   *)
tsv_write(id, message) ==
    <<"x", "TAB">> \o cfti_escape(id) \o <<"TAB", "T", "TAB", "x", "TAB", "x", "TAB">>
    \o cfti_escape(message) \o <<"LF">>

-----------------------------------------------------------------------------
(* Reading.                                                                 *)

Split(s, separators) ==
    FoldLeft(LAMBDA fields, c :
                IF c \in separators THEN Append(fields, <<>>)
                ELSE [fields EXCEPT ![Len(fields)] = Append(@, c)],
             <<<<>>>>, s)

(* split_whitespace                                                         *)
Words(s) == SelectSeq(Split(s, White), LAMBDA word : word # <<>>)

(* The loop body of Interface::cfti_unescape: a backslash is put out only   *)
(* after another; one before a character without a meaning is dropped.      *)
Unescape(state, c) ==
    IF c = "BS" /\ ~state.bs THEN [state EXCEPT !.bs = TRUE]
    ELSE [bs |-> FALSE,
          out |-> Append(state.out,
                     CASE state.bs /\ c = "t" -> "TAB" [] state.bs /\ c = "n" -> "LF"
                       [] state.bs /\ c = "r" -> "CR" [] OTHER -> c)]

Unescaped(word) == FoldLeft(Unescape, [bs |-> FALSE, out |-> <<>>], word).out

Init ==
    /\ text \in Text
    /\ line = cfti_escape(text)
    /\ out = <<>>
    /\ was_bs = FALSE

ReadChar ==
    /\ line # <<>>
    /\ LET state == Unescape([bs |-> was_bs, out |-> out], Head(line))
       IN was_bs' = state.bs /\ out' = state.out
    /\ line' = Tail(line)
    /\ UNCHANGED text

Next == ReadChar
Spec == Init /\ [][Next]_vars

(* str::replace of a backslash and c, as Trigger::cfti_unescape uses it.    *)
RECURSIVE PairReplaced(_, _, _)
PairReplaced(s, c, by) ==
    IF Len(s) < 2 THEN s
    ELSE IF s[1] = "BS" /\ s[2] = c
    THEN <<by>> \o PairReplaced(SubSeq(s, 3, Len(s)), c, by)
    ELSE <<s[1]>> \o PairReplaced(Tail(s), c, by)

TriggerUnescaped(word) ==
    PairReplaced(PairReplaced(PairReplaced(PairReplaced(word, "t", "TAB"), "n", "LF"), "r", "CR"),
                 "BS", "BS")

-----------------------------------------------------------------------------
(* Names of units.                                                          *)

Invalid == [id |-> <<>>, kind |-> "error"]
KindOf(extension) ==
    CASE extension = <<"S">> -> "scenario" [] extension = <<"T">> -> "test" [] OTHER -> "error"

(* Path::extension and file_stem: the last dot counts, unless the name      *)
(* begins with it; ".." is a directory, not the name of a file, and has     *)
(* neither.                                                                 *)
Parent == <<".", ".">>
Dots(name) == {k \in 2 .. Len(name) : name[k] = "."}
HasExtension(name) == name # Parent /\ Dots(name) # {}
LastDot(name) == CHOOSE k \in Dots(name) : \A other \in Dots(name) : other <= k

from_path(name) ==
    LET extension == IF HasExtension(name) THEN SubSeq(name, LastDot(name) + 1, Len(name)) ELSE <<>>
        stem == IF HasExtension(name) THEN SubSeq(name, 1, LastDot(name) - 1) ELSE name
    IN IF KindOf(extension) = "error" THEN Invalid ELSE [id |-> stem, kind |-> KindOf(extension)]

(* Seeded mistake: the default extension is always added.                   *)
from_str_always(name, default) == from_path(name \o <<".", default>>)

from_str(name, default) ==
    IF HasExtension(name) THEN from_path(name) ELSE from_path(name \o <<".", default>>)

ToLower(word) == [k \in 1 .. Len(word) |-> IF word[k] = "X" THEN "x" ELSE word[k]]

(* The unit that Interface::text_read names for "scenario <argument>" or    *)
(* "start <argument>": the first word after the verb.                       *)
InterfaceNames(argument) ==
    IF Words(argument) = <<>> THEN Invalid
    ELSE from_str(ToLower(Unescaped(Words(argument)[1])), "S")

(* The unit that Trigger::text_read names for "start <argument>".           *)
TriggerNames(argument) ==
    IF Words(argument) = <<>> THEN Invalid
    ELSE from_str(TriggerUnescaped(Words(argument)[1]), "T")

-----------------------------------------------------------------------------
(* cfti_unescape of the interface undoes cfti_escape, character by          *)
(* character: at no time has it put out anything but the beginning of what  *)
(* was written, and in the end it has all of it.                            *)
RoundTrip == IsPrefix(out, text) /\ (line = <<>> => out = text)

(* "All records are line-ordered, with one record per line": whatever the   *)
(* name of the unit and the message are, a log record is one line of six    *)
(* fields, and the fields are those that were written.                      *)
OneRecordPerLine ==
    LET lines == Split(tsv_write(text, text), {"LF", "CR"})
        fields == Split(lines[1], {"TAB"})
    IN /\ Len(lines) = 2 /\ lines[2] = <<>>
       /\ Len(fields) = 6
       /\ Unescaped(fields[2]) = text /\ Unescaped(fields[6]) = text

NoFalseEscape(s) ==
    \A k \in 1 .. Len(s) - 1 : s[k] = "BS" => s[k + 1] \notin {"t", "n", "r"}

(* An interface may choose a scenario by sending back the name it was told, *)
(* exactly when that name has no capital, no space, and no dot except at    *)
(* its beginning, or is "..", which counts as a name without an extension;  *)
(* a name with an unknown extension is refused.  A trigger starts a         *)
(* scenario by its name and extension, exactly when the name has no space   *)
(* and survives the trigger's cfti_unescape, which takes the second of two  *)
(* backslashes for the beginning of an escape.                              *)
NamesThatAreFound ==
    text # <<>> =>
       /\ InterfaceNames(cfti_escape(text)) = [id |-> text, kind |-> "scenario"]
          <=> /\ ~Contains(text, " ") /\ ~Contains(text, "X")
              /\ Dots(text) = {} \/ text = Parent
       /\ TriggerNames(cfti_escape(text \o <<".", "S">>)) = [id |-> text, kind |-> "scenario"]
          <=> ~Contains(text, " ") /\ NoFalseEscape(text)
=============================================================================
