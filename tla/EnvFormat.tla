------------------------------- MODULE EnvFormat -------------------------------
(***************************************************************************)
(* The environment file, character by character: validation, quoting,      *)
(* order and comparison in internal/application/application.go (111-215),  *)
(* against the way systemd reads an EnvironmentFile.                       *)
(*                                                                         *)
(* A file is a sequence of lines, a line a sequence of characters without  *)
(* its newline.  "$" stands for the backquote as well and LF for the       *)
(* carriage return.                                                        *)
(***************************************************************************)
EXTENDS Integers, SequencesExt

CONSTANTS Chars,        \* the characters of a text
          Letters,      \* those a key may have
          Starters,     \* those it may start with: no digit
          Responses,    \* what feature flags the backend may send
          KeysInOrder,  \* the valid keys, in the order of sort.Strings
          Additions,    \* lines somebody may add to the file
          MaxLines,     \* a bound on the file
          Absent        \* no file

VARIABLES
  file,     \* the environment file
  flags,    \* the valid flags of the last response
  polled,   \* nobody touched the file since
  noted     \* nobody touched it since but to add comments and blank lines

vars == <<file, flags, polled, noted>>

DQ == "\""
SQ == "'"
BS == "\\"
LF == "\n"
Blank == {" ", "\t"}

NoFlags == <<>>

\* The members of a sequence that lie in S, in their order.
Only(s, S) ==
  FlattenSeq([i \in DOMAIN s |-> IF s[i] \in S THEN <<s[i]>> ELSE <<>>])

-----------------------------------------------------------------------------
(* What the updater writes *)

\* validEnvKeyRegexp
ValidKey(k) == k # <<>> /\ k[1] \in Starters /\ ToSet(k) \subseteq Letters

ASSUME AlphabetAssumption ==
  /\ Blank \cup {DQ, SQ, BS, LF, "$", "#", "=", "a"} \subseteq Chars
  /\ Starters \subseteq Letters
  /\ Letters \subseteq Chars \ (Blank \cup {DQ, SQ, BS, LF, "$", "#", ";", "="})

\* A response maps texts to texts; a line has no end of line in it, be it LF or CR.
ASSUME EnvFormatAssumption ==
  /\ \A f \in Responses :
       /\ f \in [DOMAIN f -> Seq(Chars)]
       /\ \A k \in DOMAIN f :
            k \in Seq(Chars) /\ (ValidKey(k) => k \in ToSet(KeysInOrder))
  /\ KeysInOrder \in Seq(Seq(Chars))
  /\ \A l \in Additions : l \in Seq(Chars) /\ LF \notin ToSet(l)
  /\ MaxLines \in Nat /\ Len(KeysInOrder) < MaxLines
  /\ Absent \notin Seq(Seq(Chars))

\* validateFeatureFlags
ValidFlags(f) ==
  [k \in {x \in DOMAIN f : ValidKey(x) /\ LF \notin ToSet(f[x])} |-> f[k]]

\* Mutant: blanks at the end are overlooked.
NeedsQuotingInside(v) == ToSet(v) \cap {" ", DQ, SQ, BS, "$"} # {}

NeedsQuoting(v) ==
  /\ v # <<>>
  /\ \/ v[1] \in Blank
     \/ v[Len(v)] \in Blank
     \/ ToSet(v) \cap {" ", DQ, SQ, BS, "$"} # {}

Escaped(v) ==
  FlattenSeq([i \in DOMAIN v |-> IF v[i] \in {BS, DQ} THEN <<BS, v[i]>>
                                                      ELSE <<v[i]>>])

Line(k, v) ==
  k \o <<"=">> \o (IF NeedsQuoting(v) THEN <<DQ>> \o Escaped(v) \o <<DQ>> ELSE v)

Header == <<"#", "a">>

\* generateEnvironmentFileContent
Generate(f) ==
  LET keys == Only(KeysInOrder, DOMAIN f)
  IN <<Header>> \o [i \in DOMAIN keys |-> Line(keys[i], f[keys[i]])]

\* The line has a first character that is not blank, and it is no "#".
Meaningful(l) ==
  \E i \in DOMAIN l : /\ l[i] \notin Blank \cup {"#"}
                      /\ \A j \in 1..(i - 1) : l[j] \in Blank

StripComments(lines) == Only(lines, {l \in Seq(Chars) : Meaningful(l)})

-----------------------------------------------------------------------------
(* What systemd reads: a state machine over the characters of the file *)

\* A character of the value; blanks at its end will be dropped.
Keep(s, c)  == [s EXCEPT !.mode = "value", !.val = Append(@, c),
                         !.kept = Len(s.val) + 1]
Loose(s, c) == [s EXCEPT !.val = Append(@, c)]
Quoted(s, c, mode) == [Keep(s, c) EXCEPT !.mode = mode]
Go(s, mode) == [s EXCEPT !.mode = mode]

LineStart == [mode |-> "line", key |-> <<>>, val |-> <<>>, kept |-> 0,
              env |-> NoFlags]

Assign(s) ==
  [LineStart EXCEPT !.env =
     [k \in {s.key} \cup DOMAIN s.env |->
        IF k = s.key THEN SubSeq(s.val, 1, s.kept) ELSE s.env[k]]]

Outside(s, c) ==
  CASE s.mode = "line" ->
         (CASE c \in {"#", ";"} -> Go(s, "comment")
            [] c \in Blank \cup {LF} -> s
            [] OTHER -> [s EXCEPT !.mode = "key", !.key = <<c>>])
    [] s.mode = "comment" -> IF c = LF THEN Go(s, "line") ELSE s
    [] s.mode = "key" ->
         (CASE c = "=" -> Go(s, "pre")
            [] c = LF -> [LineStart EXCEPT !.env = s.env]
            [] OTHER -> [s EXCEPT !.key = Append(@, c)])

Bare(s, c) ==
  CASE c = LF -> Assign(s)
    [] c = BS -> Go(s, "escape")
    [] c = DQ /\ s.mode = "pre" -> Go(s, "double")
    [] c = SQ /\ s.mode = "pre" -> Go(s, "single")
    [] c \in Blank -> IF s.mode = "pre" THEN s ELSE Loose(s, c)
    [] OTHER -> Keep(s, c)

InQuotes(s, c) ==
  CASE s.mode = "escape" -> IF c = LF THEN Go(s, "value") ELSE Keep(s, c)
    [] s.mode = "single" -> IF c = SQ THEN Go(s, "pre") ELSE Quoted(s, c, "single")
    [] s.mode = "double" ->
         (CASE c = DQ -> Go(s, "pre")
            [] c = BS -> Go(s, "doubleEscape")
            [] OTHER -> Quoted(s, c, "double"))
    [] s.mode = "doubleEscape" ->
         (CASE c \in {DQ, BS, "$"} -> Quoted(s, c, "double")
            [] c = LF -> Go(s, "double")
            [] OTHER -> Quoted(Keep(s, BS), c, "double"))

Read(s, c) ==
  CASE s.mode \in {"line", "comment", "key"} -> Outside(s, c)
    [] s.mode \in {"pre", "value"} -> Bare(s, c)
    [] OTHER -> InQuotes(s, c)

\* Where the parser is after a text.
After(s, text) ==
  LET at[i \in 0..Len(text)] == IF i = 0 THEN s ELSE Read(at[i - 1], text[i])
  IN  at[Len(text)]

Text(lines) == FlattenSeq([i \in DOMAIN lines |-> Append(lines[i], LF)])

\* The variables systemd sets for a file.
Load(lines) ==
  IF lines = Absent THEN NoFlags ELSE After(LineStart, Text(lines)).env

-----------------------------------------------------------------------------
(* Behaviour *)

TypeOK ==
  /\ file = Absent \/ Len(file) \in 1..MaxLines
  /\ flags \in {ValidFlags(f) : f \in Responses} \cup {NoFlags}
  /\ polled \in BOOLEAN /\ noted \in BOOLEAN

Init == file = Absent /\ flags = NoFlags /\ polled = TRUE /\ noted = TRUE

Existing == IF file = Absent THEN <<>> ELSE StripComments(file)

\* Mutants: the new lines are appended; the keys come in the order of the map,
\* which differs every time.
PollAppends(f) ==
  LET valid == ValidFlags(f)
      new   == Generate(valid)
  IN /\ file' = IF Existing = StripComments(new) THEN file
                ELSE (IF file = Absent THEN <<>> ELSE file) \o new
     /\ flags' = valid /\ polled' = TRUE /\ noted' = TRUE

PollUnsorted(f) ==
  LET valid == ValidFlags(f)
      lines == Tail(Generate(valid))
  IN /\ file' \in IF valid = NoFlags /\ Existing = <<>> THEN {file}
                  ELSE {<<Header>> \o l : l \in {lines, Reverse(lines)} \ {Existing}}
                         \cup (IF lines = Existing THEN {file} ELSE {})
     /\ flags' = valid /\ polled' = TRUE /\ noted' = TRUE

\* processFeatureFlags, when reading and writing succeed.
Poll(f) ==
  LET valid == ValidFlags(f)
      new   == Generate(valid)
  IN /\ file' = IF \/ valid = NoFlags /\ Existing = <<>>
                   \/ Existing = StripComments(new)
                  THEN file ELSE new
     /\ flags' = valid /\ polled' = TRUE /\ noted' = TRUE

\* Somebody adds a line.
AddLine(i, l) ==
  /\ file # Absent /\ Len(file) < MaxLines
  /\ i \in 1..(Len(file) + 1)
  /\ file' = InsertAt(file, i, l)
  /\ polled' = FALSE
  /\ noted' = (noted /\ ~Meaningful(l))
  /\ UNCHANGED flags

RemoveFile ==
  /\ file # Absent
  /\ file' = Absent
  /\ polled' = FALSE /\ noted' = FALSE
  /\ UNCHANGED flags

Next ==
  \/ \E f \in Responses : Poll(f)
  \/ \E l \in Additions, i \in 1..MaxLines : AddLine(i, l)
  \/ RemoveFile

Spec == Init /\ [][Next]_vars

-----------------------------------------------------------------------------
(* Safety *)

\* After a poll systemd loads exactly the valid flags of the response, each with
\* the value the backend sent, whatever somebody had added to the file and
\* whether the file was found different or not (application.go:111-209); comments
\* and blank lines added since change nothing.  Two sets of flags therefore
\* never have the same lines.
LoadsExactly == noted => Load(file) = flags

\* The same valid flags again leave the file alone, and with it the time that
\* may restart the agent, though comments were added (application.go:148-161,
\* :203-215).
PollIsStable == [][polled' /\ noted /\ flags' = flags => file' = file]_vars

=============================================================================
