--------------------------- MODULE CanonicalText ----------------------------
(***************************************************************************)
(* Writing a value as canonical text and reading it back                   *)
(* (rust/src/canonical/mod.rs and the encoders and decoders that use it).  *)
(* An encoder pushes one line after the other; storage may edit the text;  *)
(* a decoder asks its reader for one key after the other and gives up at   *)
(* the first that is not as it should be.  What is encoded is in no table  *)
(* the two share: both name every field themselves, so both are given      *)
(* here, Writes and Reads.                                                 *)
(*                                                                         *)
(* A field is [name, kind, group].  A flag is followed by its group if it  *)
(* is 1, a count by as many of its group as it says.  A line has the key   *)
(* of its field (the indices of the groups it is in are `at'), a datum and *)
(* a spelling: 7 may also be written +7, a hex digit may be upper-case.    *)
(* Some decoders make room for a whole group when they have read its       *)
(* count; if there is none, reading ends there without an error.           *)
(***************************************************************************)
EXTENDS Integers, Sequences

CONSTANTS
  Formats,         \* the names of the formats
  Writes(_),       \* format -> the fields its encoder pushes, in order
  Reads(_),        \* format -> the fields its decoder asks for, in order
  MaxCount(_),     \* model bound: how many of a group a count announces when it is written
  Reserving,       \* the counts for which a decoder makes room before it reads their groups
  MaxCapacity      \* how many of a group there is room for

\* The fields of two sequences that stand at the same place.
Abreast(s, t) == {<<s[i], t[i]>> : i \in 1..Len(s)}

GroupsOf(pairs) == UNION {Abreast(p[1].group, p[2].group) : p \in pairs}

\* The fields of a format as they are pushed and as they are asked for: a group is
\* part of the text, of a group, or of a group of a group.
FieldPairs(f) ==
  LET text   == Abreast(Writes(f), Reads(f))
      groups == GroupsOf(text)
  IN  text \cup groups \cup GroupsOf(groups)

IsSequence(q) == Len(q) \in Nat /\ q = [i \in 1..Len(q) |-> q[i]]

\* How a decoder treats what an encoder pushes.
Treatments ==
  {<<"constant", "fixed">>, <<"constant", "known">>, <<"plain", "free">>, <<"plain", "word">>,
   <<"flag", "flag">>, <<"count", "count">>}

\* A decoder asks for what its encoder pushes.  That is a condition on the two lists of
\* fields; what it means for the texts is what the specification shows.
ASSUME ReadsFollowWrites ==
  \A f \in Formats :
    /\ IsSequence(Writes(f)) /\ IsSequence(Reads(f))
    /\ Len(Reads(f)) = Len(Writes(f)) /\ Len(Writes(f)) > 1
    /\ GroupsOf(FieldPairs(f)) \subseteq FieldPairs(f)
    /\ \A p \in FieldPairs(f) :
         /\ p[2].name = p[1].name /\ <<p[1].kind, p[2].kind>> \in Treatments
         /\ IsSequence(p[1].group) /\ IsSequence(p[2].group) /\ Len(p[2].group) = Len(p[1].group)
         /\ p[1].kind \in {"flag", "count"} => Len(p[1].group) > 0

Members(field) == {field.group[i] : i \in 1..Len(field.group)}

\* The names a field brings with it, its own and those of its group.
GroupNames(field) ==
  UNION {{g.name} \cup {h.name : h \in Members(g)} : g \in Members(field)}

Names(field) == {field.name} \cup GroupNames(field)

\* Within a group, or within the text, no two fields have a name in common.
ASSUME NamesTellTheFields ==
  \A f \in Formats : \A p \in FieldPairs(f) :
    /\ p[1].name # "unknown" /\ p[1].name \notin GroupNames(p[1])
    /\ \A g \in Members(p[1]) : Names(g) \subseteq GroupNames(p[1])
    /\ \A s \in {Writes(f), p[1].group} :
         \A i, j \in 1..Len(s) : i # j => Names(s[i]) \cap Names(s[j]) = {}

\* What has been written had room.
ASSUME CountsAreBounded ==
  /\ MaxCapacity \in Nat
  /\ \A f \in Formats : \A p \in FieldPairs(f) : MaxCount(p[1].name) \in 0..MaxCapacity

VARIABLES
  format,
  todo,            \* the fields that are still to be pushed, or asked for
  lines,           \* the text
  mode,            \* "writing", "stored", "reading", "accepted", "refused" or "aborted"
  index,           \* how many lines the reader has consumed
  consumed_keys,   \* and their keys
  error,           \* why the text was refused
  written,         \* history: the text as it was written
  edit             \* history: what storage has done to it

vars == <<format, todo, lines, mode, index, consumed_keys, error, written, edit>>

\* The fields of a group as entries of todo.
Entries(group, at) == [i \in 1..Len(group) |-> [field |-> group[i], at |-> at]]

\* n groups, one after the other.
Repeated(group, at, n) ==
  [k \in 1..(n * Len(group)) |->
     [field |-> group[((k - 1) % Len(group)) + 1], at |-> Append(at, (k - 1) \div Len(group))]]

\* What a field brings with it, if its datum is d.
Expansion(entry, d) ==
  CASE entry.field.kind = "flag"  -> IF d = 1 THEN Entries(entry.field.group, entry.at) ELSE <<>>
    [] entry.field.kind = "count" -> Repeated(entry.field.group, entry.at, d)
    [] OTHER                      -> <<>>

KeyOf(entry) == [name |-> entry.field.name, at |-> entry.at]

Init ==
  /\ format \in Formats
  /\ todo = Entries(Writes(format), <<>>)
  /\ lines = <<>>
  /\ mode = "writing"
  /\ index = 0
  /\ consumed_keys = {}
  /\ error = "none"
  /\ written = <<>>
  /\ edit = "none"

-----------------------------------------------------------------------------
(***************************************************************************)
(* Writing.                                                                *)
(***************************************************************************)
\* The data a field may be written with; that of a plain field stands for all others.
WrittenData(field) ==
  CASE field.kind = "flag"  -> {0, 1}
    [] field.kind = "count" -> 0..MaxCount(field.name)
    [] OTHER                -> {1}

LineOf(entry, d) == [key |-> KeyOf(entry), kind |-> entry.field.kind, datum |-> d, spelling |-> "canonical"]

\* CanonicalLineWriter::push_display.
Push ==
  /\ mode = "writing"
  /\ todo # <<>>
  /\ \E d \in WrittenData(Head(todo).field) :
       /\ lines' = Append(lines, LineOf(Head(todo), d))
       /\ todo' = Expansion(Head(todo), d) \o Tail(todo)
  /\ UNCHANGED <<format, mode, index, consumed_keys, error, written, edit>>

\* CanonicalLineWriter::finish.
FinishWriting ==
  /\ mode = "writing"
  /\ todo = <<>>
  /\ mode' = "stored"
  /\ written' = lines
  /\ UNCHANGED <<format, todo, lines, index, consumed_keys, error, edit>>

-----------------------------------------------------------------------------
(***************************************************************************)
(* Storage.  At most one edit.                                             *)
(***************************************************************************)
Without(text, i) == SubSeq(text, 1, i - 1) \o SubSeq(text, i + 1, Len(text))

With(text, i, line) == SubSeq(text, 1, i) \o <<line>> \o SubSeq(text, i + 1, Len(text))

Swapped(text, i, j) == [text EXCEPT ![i] = text[j], ![j] = text[i]]

Respelled(text, i, spelling) == [text EXCEPT ![i].spelling = spelling]

Changed(text, i, d) == [text EXCEPT ![i].datum = d]

Unknown == [key |-> [name |-> "unknown", at |-> <<>>], kind |-> "unknown", datum |-> 1, spelling |-> "canonical"]

\* What storage can make of a text, with the name of the edit.
Edits(text) ==
  LET n == Len(text)
  IN  UNION {
        {<<"drop", Without(text, i)>>, <<"repeat", With(text, i, text[i])>>, <<"repeat", With(text, n, text[i])>>,
         <<"insert", With(text, i, Unknown)>>,
         <<"respell", Respelled(text, i, "otherwise")>>,
         <<"garble", Respelled(text, i, "garbage")>>,
         <<"break", Respelled(text, i, "no line")>>}
        \cup {<<"swap", Swapped(text, i, j)>> : j \in {i + 1, n} \cap (i + 1)..n}
        \cup {<<"change", Changed(text, i, d)>> : d \in (0..MaxCapacity + 1) \ {text[i].datum}} : i \in 1..n}

Edit ==
  /\ mode = "stored"
  /\ edit = "none"
  /\ \E e \in Edits(lines) : edit' = e[1] /\ lines' = e[2]
  /\ UNCHANGED <<format, todo, mode, index, consumed_keys, error, written>>

-----------------------------------------------------------------------------
(***************************************************************************)
(* Reading.                                                                *)
(***************************************************************************)
Refuse(e) ==
  /\ mode' = "refused"
  /\ error' = e
  /\ UNCHANGED <<format, todo, lines, index, consumed_keys, written, edit>>

\* CanonicalLineReader::new: the whole text is split before its first line is looked
\* at.  "no line" stands for what is not a key, one delimiter and a value.
Open ==
  /\ mode = "stored"
  /\ IF lines = <<>> \/ \E i \in 1..Len(lines) : lines[i].spelling = "no line"
     THEN Refuse("malformed")
     ELSE /\ mode' = "reading"
          /\ todo' = Entries(Reads(format), <<>>)
          /\ UNCHANGED <<format, lines, index, consumed_keys, error, written, edit>>

(***************************************************************************)
(* What a decoder accepts as the value of a field.  expect_value compares  *)
(* strings ("fixed"); versions and the engine family are parsed first      *)
(* ("known"); what names one of several things is matched ("word" and      *)
(* "flag"); numbers and hexadecimals are parsed ("free" and "count").      *)
(***************************************************************************)
Accepts(field, line) ==
  /\ \/ line.spelling = "canonical"
     \/ line.spelling = "otherwise" /\ field.kind \in {"known", "free", "count"}
  /\ field.kind \in {"fixed", "known"} => line.datum = 1
  /\ field.kind = "flag" => line.datum \in {0, 1}

\* The key of the line the reader has come to.
NextKey == lines[index + 1].key

\* What is wrong with a key that is not the one asked for, or with one behind the last.
Misplaced(otherwise) == IF NextKey \in consumed_keys THEN "duplicate" ELSE otherwise

\* A mutant of Consume: the keys that have been read are not kept.
ConsumeOnly ==
  /\ index' = index + 1
  /\ todo' = Expansion(Head(todo), lines[index + 1].datum) \o Tail(todo)
  /\ UNCHANGED <<format, lines, mode, consumed_keys, error, written, edit>>

\* A mutant of Consume: a group is asked for after all the other fields.
ConsumeGroupLast ==
  /\ index' = index + 1
  /\ consumed_keys' = consumed_keys \cup {NextKey}
  /\ todo' = Tail(todo) \o Expansion(Head(todo), lines[index + 1].datum)
  /\ UNCHANGED <<format, lines, mode, error, written, edit>>

Consume ==
  /\ index' = index + 1
  /\ consumed_keys' = consumed_keys \cup {NextKey}
  /\ todo' = Expansion(Head(todo), lines[index + 1].datum) \o Tail(todo)
  /\ UNCHANGED <<format, lines, mode, error, written, edit>>

\* Vec::with_capacity panics, or the allocator aborts, on a count that memory cannot hold.
LacksRoom(field, line) ==
  field.kind = "count" /\ field.name \in Reserving /\ line.datum > MaxCapacity

Abort ==
  /\ mode' = "aborted"
  /\ UNCHANGED <<format, todo, lines, index, consumed_keys, error, written, edit>>

\* CanonicalLineReader::read_value for the next field of the decoder, and what the
\* decoder does with the value.
ReadValue ==
  /\ mode = "reading"
  /\ todo # <<>>
  /\ IF index = Len(lines) THEN Refuse("missing")
     ELSE IF NextKey # KeyOf(Head(todo)) THEN Refuse(Misplaced("order"))
     ELSE IF ~Accepts(Head(todo).field, lines[index + 1]) THEN Refuse("value")
     ELSE IF LacksRoom(Head(todo).field, lines[index + 1]) THEN Abort
     ELSE Consume

Accept ==
  /\ mode' = "accepted"
  /\ UNCHANGED <<format, todo, lines, index, consumed_keys, error, written, edit>>

\* A mutant of Finish: what follows the last field is not looked at.
FinishAnywhere ==
  /\ mode = "reading"
  /\ todo = <<>>
  /\ Accept

\* CanonicalLineReader::finish.
Finish ==
  /\ mode = "reading"
  /\ todo = <<>>
  /\ IF index < Len(lines) THEN Refuse(Misplaced("trailing")) ELSE Accept

Next == Push \/ FinishWriting \/ Edit \/ Open \/ ReadValue \/ Finish

Spec == Init /\ [][Next]_vars
-----------------------------------------------------------------------------
Keys(text) == [i \in 1..Len(text) |-> text[i].key]

(***************************************************************************)
(* What is written is read.  Each decoder asks for the fields its encoder  *)
(* has pushed, in the same order and under the same flags and counts, and  *)
(* has room for them (rust_architecture.md: export -> import).             *)
(***************************************************************************)
WrittenTextIsRead == mode \in {"refused", "aborted"} => edit # "none"

(***************************************************************************)
(* Nothing else is read.  A text that is accepted has the keys of the one  *)
(* that was written, and differs from it at most in the value of a plain   *)
(* field or in a spelling: not in a header, a version, a flag or a count   *)
(* (canonical/mod.rs:112-159).                                             *)
(***************************************************************************)
OnlyWrittenTextIsAccepted ==
  mode = "accepted" =>
    /\ Keys(lines) = Keys(written)
    /\ \A i \in 1..Len(lines) :
         /\ lines[i].spelling \in {"canonical", "otherwise"}
         /\ lines[i].datum # written[i].datum => written[i].kind = "plain"

\* The errors that an edit may get.
Refusals(name) ==
  CASE name = "drop"    -> {"missing", "order"}
    [] name = "repeat"  -> {"duplicate"}
    [] name = "insert"  -> {"order", "trailing"}
    [] name = "swap"    -> {"order"}
    [] name = "change"  -> {"value", "order", "missing", "trailing"}
    [] name = "respell" -> {"value"}
    [] name = "garble"  -> {"value"}
    [] name = "break"   -> {"malformed"}
    [] OTHER            -> {}

(***************************************************************************)
(* A refusal tells what is wrong, as docs/rust_architecture.md:538 lists   *)
(* it: duplicate keys, missing keys, invalid field order, versions,        *)
(* trailing content.  Which error an edit gets depends on where the reader *)
(* is, and on what it has consumed, when it meets it.  Only a changed      *)
(* count may end the reading without an error (persistence/mod.rs:661).    *)
(***************************************************************************)
RefusalTellsTheEdit ==
  /\ mode = "refused" => error \in Refusals(edit)
  /\ mode = "aborted" => edit = "change"
=============================================================================
