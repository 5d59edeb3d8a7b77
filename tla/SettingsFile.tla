---------------------------- MODULE SettingsFile ----------------------------
(***************************************************************************)
(* The settings and the file they are saved to (src/settings/SettingsIO.cpp, *)
(* SettingCommands.cpp), for several bots on one machine.  All of them use *)
(* the same directory, and the autosave is named after the minute, so bots *)
(* that are told `cat set' at once through ipc_exec_all write one file,    *)
(* each line by line at its own place in it.  A writer can be killed or    *)
(* find the disk full, a read can fail anywhere.                           *)
(*                                                                         *)
(* The text of the file matters to the properties, so it is modelled: one  *)
(* character of each kind that the reader or the writer tells apart.       *)
(***************************************************************************)
EXTENDS Naturals, Sequences, SequencesExt

CONSTANTS
    Bots,        \* the processes
    Names,       \* the registered settings, in the order of string::compare
    Defaults,    \* their defaults
    Starts,      \* the settings that the bots have in common at first
    Texts,       \* the values that a setting is given later
    Garbage,     \* what the byte of a failed read may hold
    MaxChanges, MaxSaves   \* bounds

Settings == Range(Names)
Nul == "nul"          \* what a hole in a file reads as
Blank == " "
NewLine == "newline"
Escaped == {"#", NewLine, "=", "\\"}
Chars == Settings \cup Escaped \cup {Blank, "quote", "x", Nul}

\* Names are made of other characters than those that the writer escapes or the
\* reader skips.
ASSUME NamesAssumption ==
    /\ Names \in Seq(Settings) /\ Names # <<>>
    /\ \A i, j \in DOMAIN Names : Names[i] = Names[j] => i = j
    /\ Settings \cap (Escaped \cup {Blank, "quote", Nul}) = {}
ASSUME TextsAssumption ==
    /\ Texts \subseteq Seq(Chars)
    /\ Starts \cup {Defaults} \subseteq [Settings -> Seq(Chars)]
ASSUME GarbageAssumption == Garbage \subseteq Chars

VARIABLES
    value,     \* value[b][s]: what bot b has for setting s
    disk,      \* the characters of the file
    lines,     \* lines[b]: the lines that b has still to write
    at,        \* at[b]: where in the file b writes next
    saving,    \* the bots between opening the file and closing it
    \* History: the settings that the last saves, which overlapped, set out to
    \* write, and whether one of them was cut short.
    saves, cut,
    load,      \* <<>>, or who has loaded the file, and whether all of it
    changes, opened   \* for the bounds

vars == <<value, disk, lines, at, saving, saves, cut, load, changes, opened>>
-----------------------------------------------------------------------------
(* The writer. *)

\* A writer that does not escape the escape character (a mutant).
WriteEscaped_Raw(text) ==
    FlattenSeq([i \in DOMAIN text |->
                  IF text[i] \in Escaped \ {"\\"} THEN <<"\\", text[i]>> ELSE <<text[i]>>])

WriteEscaped(text) ==
    FlattenSeq([i \in DOMAIN text |->
                  IF text[i] \in Escaped THEN <<"\\", text[i]>> ELSE <<text[i]>>])

Write(s, text) == WriteEscaped(<<s>>) \o <<"=">> \o WriteEscaped(text) \o <<NewLine>>

Chosen(v) == [i \in DOMAIN Names |-> IF v[Names[i]] # Defaults[Names[i]] THEN <<Names[i]>> ELSE <<>>]

\* The order of the hash table that the settings are in (a mutant).
Changed_Unsorted(v) == FlattenSeq(Reverse(Chosen(v)))

\* The changed settings in alphabetical order.
Changed(v) == FlattenSeq(Chosen(v))

Lines(v) ==
    LET changed == Changed(v) IN [i \in DOMAIN changed |-> Write(changed[i], v[changed[i]])]

Text(v) == FlattenSeq(Lines(v))
-----------------------------------------------------------------------------
(* The reader: an automaton over the characters.                           *)

Fresh == [comment |-> FALSE, escape |-> FALSE, quote |-> FALSE,
          reading_key |-> TRUE, was_non_space |-> FALSE,
          temporary_spaces |-> <<>>, oss |-> <<>>, stored_key |-> <<>>,
          read |-> Defaults]

OnReadKeyValue(read, key, text) ==
    [s \in Settings |-> IF key = <<s>> THEN text ELSE read[s]]

FinishString(r, complete) ==
    IF complete /\ r.reading_key
    THEN [r EXCEPT !.oss = <<>>]
    ELSE [r EXCEPT !.oss = <<>>,
                   !.stored_key = IF r.reading_key THEN r.oss ELSE @,
                   !.read = IF r.reading_key THEN @ ELSE OnReadKeyValue(@, r.stored_key, r.oss),
                   !.reading_key = ~@,
                   !.was_non_space = FALSE,
                   !.temporary_spaces = <<>>]

IsSpace(c) == c \in {Blank, NewLine}

\* A reader whose quotation goes on over the end of the line (a mutant).
EndsLine_Unquoted(r, c) == c = NewLine /\ ~r.quote

EndsLine(r, c) == c = NewLine

\* A character that no escape precedes.
PushPlain(r, c) ==
    CASE c = "\\" -> [r EXCEPT !.escape = TRUE]
      [] c = "#" /\ ~r.quote -> [FinishString(r, TRUE) EXCEPT !.comment = TRUE]
      [] c = "quote" -> [r EXCEPT !.quote = ~@]
      [] c = "=" /\ ~r.quote /\ r.reading_key -> FinishString(r, FALSE)
      [] EndsLine(r, c) -> FinishString(r, TRUE)
      [] c = Blank /\ ~r.quote -> [r EXCEPT !.temporary_spaces = Append(@, c)]
      [] OTHER -> [r EXCEPT !.oss = (@ \o r.temporary_spaces) \o <<c>>, !.temporary_spaces = <<>>]

\* Escaped character can be anything but null.
PushEscaped(r, c) ==
    [r EXCEPT !.oss = IF c = Nul THEN @ ELSE Append(@, c), !.escape = FALSE]

\* A blank in front of a key or a value is skipped.
PushChar(r, c) ==
    LET q == [r EXCEPT !.was_non_space = @ \/ ~IsSpace(c)]
    IN  IF r.comment THEN [r EXCEPT !.comment = (c # NewLine)]
        ELSE IF c = Blank /\ ~r.was_non_space THEN r
        ELSE IF r.escape THEN PushEscaped(q, c)
        ELSE PushPlain(q, c)

PushAll(r, text) ==
    LET pushed[n \in 0 .. Len(text)] == IF n = 0 THEN r ELSE PushChar(pushed[n - 1], text[n])
    IN  pushed[Len(text)]

\* A reader that leaves the settings that the file does not name (a mutant).
LoadFrom_Merge(text, old) ==
    FinishString(PushAll([Fresh EXCEPT !.read = old], text), TRUE).read

\* loadFrom: every setting starts from its default, and the end of the file
\* ends the last value.
LoadFrom(text, old) == FinishString(PushAll(Fresh, text), TRUE).read

\* A read that fails after n characters.  loadFrom pushes the character that
\* was not read, whatever is in that byte, before it sees the failure, and
\* does not finish the value.
FailedRead(text, n, garbage) == PushChar(PushAll(Fresh, SubSeq(text, 1, n)), garbage).read
-----------------------------------------------------------------------------
\* The bots run with the same settings, however they got them, and nobody
\* has saved yet.
Init ==
    /\ \E v \in Starts : value = [b \in Bots |-> v]
    /\ disk = <<>>
    /\ lines = [b \in Bots |-> <<>>]
    /\ at = [b \in Bots |-> 0]
    /\ saving = {}
    /\ saves = {}
    /\ cut = FALSE
    /\ load = <<>>
    /\ changes = 0 /\ opened = 0

\* The menu or `toggle': a setting changes and nothing is saved.
Change(b, s, text) ==
    /\ b \notin saving /\ changes < MaxChanges
    /\ changes' = changes + 1
    /\ value' = [value EXCEPT ![b][s] = text]
    /\ UNCHANGED <<disk, lines, at, saving, saves, cut, load, opened>>

\* A file that is overwritten from its start (a mutant).
Truncated_Not == disk

\* ofstream::open with ios::out: the file is cut to nothing, whoever else is
\* writing to it.
Truncated == <<>>

\* saveTo up to the first line, of the settings v.
SaveTo(b, v) ==
    /\ b \notin saving /\ opened < MaxSaves
    /\ opened' = opened + 1
    /\ disk' = Truncated
    /\ lines' = [lines EXCEPT ![b] = Lines(v)]
    /\ at' = [at EXCEPT ![b] = 0]
    /\ saving' = saving \cup {b}
    /\ saves' = (IF saving = {} THEN {} ELSE saves) \cup {v}
    /\ cut' = (cut /\ saving # {})

\* `cat_save'.
Save(b) ==
    /\ SaveTo(b, value[b])
    /\ UNCHANGED <<value, load, changes>>

\* `cat set' with settings.autosave, as it is by default.
CatSet(b, s, text) ==
    /\ changes < MaxChanges
    /\ changes' = changes + 1
    /\ value' = [value EXCEPT ![b][s] = text]
    /\ SaveTo(b, value'[b])
    /\ UNCHANGED load

\* The file after `text' is written behind its first `from' characters, of
\* which there may be less by now.
Put(from, text) ==
    LET end == from + Len(text)
    IN  [i \in 1 .. (IF Len(disk) > end THEN Len(disk) ELSE end) |->
            IF i \in from + 1 .. end THEN text[i - from]
            ELSE IF i <= Len(disk) THEN disk[i]
            ELSE Nul]

\* One line, flushed at its end.
WriteLine(b) ==
    /\ b \in saving /\ lines[b] # <<>>
    /\ disk' = Put(at[b], Head(lines[b]))
    /\ at' = [at EXCEPT ![b] = @ + Len(Head(lines[b]))]
    /\ lines' = [lines EXCEPT ![b] = Tail(@)]
    /\ UNCHANGED <<value, saving, saves, cut, load, changes, opened>>

Close(b) ==
    /\ b \in saving /\ lines[b] = <<>>
    /\ saving' = saving \ {b}
    /\ at' = [at EXCEPT ![b] = 0]
    /\ UNCHANGED <<value, disk, lines, saves, cut, load, changes, opened>>

Ends(b) ==
    /\ b \in saving
    /\ lines' = [lines EXCEPT ![b] = <<>>]
    /\ saving' = saving \ {b}
    /\ cut' = TRUE
    /\ at' = [at EXCEPT ![b] = 0]
    /\ UNCHANGED <<saves, load, changes, opened>>

\* The disk is full: a part of the line is written, the stream is bad and
\* takes nothing more.
DiskFull(b) ==
    /\ lines[b] # <<>>
    /\ \E n \in 0 .. Len(Head(lines[b])) - 1 :
          disk' = IF n = 0 THEN disk ELSE Put(at[b], SubSeq(Head(lines[b]), 1, n))
    /\ Ends(b)
    /\ UNCHANGED value

\* The game is killed between two lines and starts again (a game that is
\* killed at another time leaves the file alone).
Killed(b) ==
    /\ Ends(b)
    /\ value' = [value EXCEPT ![b] = Defaults]
    /\ UNCHANGED disk

\* `cat_load': the whole file, as it is at the moment.  Without a file, or
\* when it cannot be opened, nothing happens.
Load(b) ==
    /\ b \notin saving /\ opened > 0
    /\ load' = <<b, TRUE>>
    /\ value' = [value EXCEPT ![b] = LoadFrom(disk, value[b])]
    /\ UNCHANGED <<disk, lines, at, saving, saves, cut, changes, opened>>

LoadFails(b) ==
    /\ b \notin saving /\ opened > 0
    /\ load' = <<b, FALSE>>
    /\ \E n \in 0 .. Len(disk), garbage \in Garbage :
          value' = [value EXCEPT ![b] = FailedRead(disk, n, garbage)]
    /\ UNCHANGED <<disk, lines, at, saving, saves, cut, changes, opened>>

\* Bound: a behaviour is followed up to its first load.
More == load = <<>>

Next ==
    /\ More
    /\ \E b \in Bots :
          \/ \E s \in Settings, text \in Texts : Change(b, s, text) \/ CatSet(b, s, text)
          \/ Save(b) \/ WriteLine(b) \/ Close(b) \/ DiskFull(b) \/ Killed(b)
          \/ Load(b) \/ LoadFails(b)

Spec == Init /\ [][Next]_vars
-----------------------------------------------------------------------------
(* Properties. *)

\* The values that the two conversions leave alone: no quotation mark, no
\* blank at either end and none in front of a character that is escaped.
Safe(text) ==
    /\ "quote" \notin Range(text)
    /\ text # <<>> => Head(text) # Blank /\ Last(text) # Blank
    /\ \A i \in 1 .. Len(text) - 1 : text[i] = Blank => text[i + 1] \notin Escaped

QuoteBefore(v, i) == \E j \in 1 .. i - 1 : "quote" \in Range(v[Names[j]])

\* A file that was written completely gives back, up to the first setting with
\* a quotation mark, the settings that have their defaults and, of those that
\* were changed, exactly the ones with a safe value, whatever the reader had
\* before (writeEscaped against pushChar; only_changed against the reset in
\* loadFrom).
RoundTrip ==
    load # <<>> /\ load[2] =>
        \A v \in saves : disk = Text(v) =>
            \A i \in DOMAIN Names : ~QuoteBefore(v, i) =>
                (value[load[1]][Names[i]] = v[Names[i]]
                    <=> Safe(v[Names[i]]) \/ v[Names[i]] = Defaults[Names[i]])

\* Whatever is in the values, and wherever the file or the read ends, a
\* setting gets its default or a beginning of what its own line says, never a
\* part of another one (the state of the reader is cleared in finishString).
OwnLine ==
    load # <<>> =>
        \A v \in saves : IsPrefix(disk, Text(v)) =>
            \A s \in Settings :
                \/ value[load[1]][s] = Defaults[s]
                \/ IsPrefix(value[load[1]][s], LoadFrom(Write(s, v[s]), Defaults)[s])

\* When all values are safe, a file that was cut short and a read that fails
\* restore the settings in alphabetical order up to one that may be cut, and
\* all after it have their defaults.
InOrder ==
    load # <<>> =>
        \A v \in saves : IsPrefix(disk, Text(v)) /\ (\A s \in Settings : Safe(v[s])) =>
            \E k \in DOMAIN Names :
                /\ \A i \in 1 .. k - 1 : value[load[1]][Names[i]] = v[Names[i]]
                /\ \/ value[load[1]][Names[k]] = Defaults[Names[k]]
                   \/ IsPrefix(value[load[1]][Names[k]], v[Names[k]])
                /\ \A i \in k + 1 .. Len(Names) : value[load[1]][Names[i]] = Defaults[Names[i]]

\* Bots that save the same settings to one file at once leave it as one of
\* them alone would: the holes that a later bot's opening makes in front of
\* the others' places are filled by its own lines.
Agreement ==
    saving = {} /\ ~cut => \A v \in saves : saves = {v} => disk = Text(v)
=============================================================================
