---------------------------- MODULE KernelIdDisplay ----------------------------
(***************************************************************************)
(* Display of KernelId (cubecl-common id.rs): format_str over the Debug    *)
(* string of the id's info, with the markers (), [], {} and include_space. *)
(* One step is one iteration of format_str's loop over the characters.     *)
(* A character is a one-letter string; "x" stands for every character      *)
(* that is neither a marker, a comma, a colon nor a space.  `depth` is a   *)
(* usize: decrementing it at 0 panics (debug) or makes the following       *)
(* " ".repeat overflow (release); both end Display in a panic.             *)
(***************************************************************************)
EXTENDS Naturals, Sequences

CONSTANTS
  Infos,    \* Debug strings of the info payloads, as sequences of characters
  NoInfo    \* a KernelId without info

\* The markers and include_space Display passes to format_str.
Markers == <<<<"(", ")">>, <<"[", "]">>, <<"{", "}">>>>
IncludeSpace == TRUE
Indentation == 4

Openers == {Markers[i][1] : i \in DOMAIN Markers}
Closers == {Markers[i][2] : i \in DOMAIN Markers}
\* The start marker of the pair c closes.
StartOf(c) == Markers[CHOOSE i \in DOMAIN Markers : Markers[i][2] = c][1]

\* " ".repeat(n) and n calls of String::pop (a pop of an empty string does
\* nothing).
Spaces(n) == [i \in 1..n |-> " "]
Pop(s, n) == SubSeq(s, 1, IF Len(s) > n THEN Len(s) - n ELSE 0)

VARIABLES
  info,     \* the Debug string being formatted, or NoInfo
  pos,      \* index of the next character
  result,   \* the String built so far
  depth,    \* nesting depth
  prev,     \* prev
  pc        \* "run", "done" or "panic"

vars == <<info, pos, result, depth, prev, pc>>

Init ==
  /\ info \in Infos \cup {NoInfo}
  /\ pos = 1
  /\ result = <<>>
  /\ depth = 0
  /\ prev = " "
  /\ pc = "run"

C == info[pos]
Running == pc = "run" /\ info # NoInfo /\ pos <= Len(info)

\* Display of an id without info writes "No info".
DisplayNoInfo ==
  /\ pc = "run" /\ info = NoInfo
  /\ result' = <<"No info">>
  /\ pc' = "done"
  /\ UNCHANGED <<info, pos, depth, prev>>

\* A space of the input is skipped.
SkipSpace ==
  /\ Running /\ C = " "
  /\ pos' = pos + 1
  /\ UNCHANGED <<info, result, depth, prev, pc>>

\* A start marker opens a level: a space before it after a non-space, then
\* the marker, a newline and the next level's indentation.
OpenMarker ==
  /\ Running /\ C \in Openers
  /\ depth' = depth + 1
  /\ result' = result \o (IF prev # " " /\ IncludeSpace THEN <<" ">> ELSE <<>>)
                 \o <<C, "\n">> \o Spaces(Indentation * (depth + 1))
  /\ prev' = C
  /\ pos' = pos + 1
  /\ UNCHANGED <<info, pc>>

\* An end marker at depth 0: `depth -= 1` underflows.
CloseUnderflow ==
  /\ Running /\ C \in Closers /\ depth = 0
  /\ pc' = "panic"
  /\ UNCHANGED <<info, pos, result, depth, prev>>

\* Fault variant: an empty pair pops one character more than it pushed.
CloseMarkerPopOneMore ==
  /\ Running /\ C \in Closers /\ depth > 0
  /\ depth' = depth - 1
  /\ result' = IF prev # StartOf(C)
                 THEN (IF prev = " " THEN Pop(result, 1) ELSE result)
                        \o <<",", "\n">> \o Spaces(Indentation * (depth - 1)) \o <<C>>
                 ELSE Append(Pop(result, Indentation * (depth - 1) + 2 + Indentation), C)
  /\ prev' = C
  /\ pos' = pos + 1
  /\ UNCHANGED <<info, pc>>

\* An end marker closes a level: after content, a trailing comma, a newline,
\* the outer indentation and the marker; right after its own start marker,
\* the newline and indentation the start pushed are popped again.
CloseMarker ==
  /\ Running /\ C \in Closers /\ depth > 0
  /\ depth' = depth - 1
  /\ result' = IF prev # StartOf(C)
                 THEN (IF prev = " " THEN Pop(result, 1) ELSE result)
                        \o <<",", "\n">> \o Spaces(Indentation * (depth - 1)) \o <<C>>
                 ELSE Append(Pop(result, Indentation * (depth - 1) + 1 + Indentation), C)
  /\ prev' = C
  /\ pos' = pos + 1
  /\ UNCHANGED <<info, pc>>

\* A comma inside a level ends the line; prev is left as it was.
Comma ==
  /\ Running /\ C = "," /\ depth > 0
  /\ result' = (IF prev = " " THEN Pop(result, 1) ELSE result)
                 \o <<",", "\n">> \o Spaces(Indentation * depth)
  /\ pos' = pos + 1
  /\ UNCHANGED <<info, depth, prev, pc>>

\* A colon is followed by a space.
Colon ==
  /\ Running /\ C = ":" /\ IncludeSpace
  /\ result' = result \o <<":", " ">>
  /\ prev' = " "
  /\ pos' = pos + 1
  /\ UNCHANGED <<info, depth, pc>>

\* Any other character (a comma at depth 0 included) is copied.
Other ==
  /\ Running
  /\ C \notin Openers \cup Closers \cup {" ", ":"}
  /\ C = "," => depth = 0
  /\ result' = Append(result, C)
  /\ prev' = C
  /\ pos' = pos + 1
  /\ UNCHANGED <<info, depth, pc>>

\* The loop ends and Display writes the result.
Finish ==
  /\ pc = "run" /\ info # NoInfo /\ pos > Len(info)
  /\ pc' = "done"
  /\ UNCHANGED <<info, pos, result, depth, prev>>

Next ==
  \/ DisplayNoInfo \/ SkipSpace \/ OpenMarker \/ CloseUnderflow \/ CloseMarker
  \/ Comma \/ Colon \/ Other \/ Finish

Spec == Init /\ [][Next]_vars

-----------------------------------------------------------------------------

\* The characters of s without whitespace, and without the commas that
\* stand before a closing marker with only commas between.  A trailing
\* comma is layout: format_str adds one before every closer after content,
\* and a trailing comma of the input (the Debug string of a 1-tuple,
\* "(x,)") comes out as an empty item, "(\n    x,\n    ,\n)", because a
\* comma leaves prev unchanged.
Squeeze(s) ==
  LET t == SelectSeq(s, LAMBDA c : c \notin {" ", "\n"})
      trailing(i) == \E j \in (i + 1)..Len(t) :
                       t[j] \in Closers /\ \A k \in (i + 1)..(j - 1) : t[k] = ","
      keep == {i \in 1..Len(t) : ~(t[i] = "," /\ trailing(i))}
      idx == SelectSeq([i \in 1..Len(t) |-> i], LAMBDA i : i \in keep)
  IN [j \in 1..Len(idx) |-> t[idx[j]]]

\* Display only re-lays the Debug string out: once format_str returns, its
\* result holds the characters of the info's Debug string, in order, up to
\* whitespace and the trailing commas it adds before a closing marker (the
\* pops of an empty pair and of a space before a comma remove only what
\* was pushed).
FormatKeepsTokens ==
  (pc = "done" /\ info # NoInfo) => Squeeze(result) = Squeeze(info)

\* Display of a KernelId never panics, whatever the Debug string of its
\* info (the `depth -= 1` of format_str stays in range).
DisplayNeverPanics == pc # "panic"

=============================================================================
