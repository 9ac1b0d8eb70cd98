-------------------------------- MODULE Json --------------------------------
(***************************************************************************)
(* The JSON parser (src/json.cpp): Section, Parser and Match, over every   *)
(* short text, and the writer JsonOut (src/json_fmt.cpp).                  *)
(*                                                                         *)
(* A text is a sequence of characters: the marks, q for a quote, / for a   *)
(* backslash, 1 for a digit, _ for a space, t for the whole word true, and *)
(* a for a longer name.  A section is the place s it starts at; all end at  *)
(* the end of the text, after which the parser reads the terminator NUL.   *)
(***************************************************************************)
EXTENDS Naturals, Sequences, SequencesExt, FiniteSetsExt, FiniteSets

CONSTANTS
  Words,      \* the sequences of characters that texts are made of
  Starts,     \* the texts to begin with
  MaxWords,   \* bound: how many words follow
  Paths,      \* Match: the keys of the items, sequences of names
  MaxNest,    \* Match: max_nest
  Refusals    \* the callback that the handler refuses, 0 for none

VARIABLES text, words

jsonVars == <<text, words>>

JsonInit == text \in Starts /\ words = 0

JsonNext ==
  /\ words < MaxWords
  /\ words' = words + 1
  /\ \E w \in Words : text' = text \o w

JsonSpec == JsonInit /\ [][JsonNext]_jsonVars

-----------------------------------------------------------------------------
(* Class Section and Printer: two pointers into a text that is not copied. *)
(* A section x of these is the places x.s to x.e of the text t; what       *)
(* follows x.e can be read too, as strtol() does.  One that was cleared    *)
(* has no place to read: only empty() may be asked of it.                  *)

\* After the text there is its terminator.
Char(t, p) == IF p \in DOMAIN t THEN t[p] ELSE "NUL"

Section(s, e) == [s |-> s, e |-> e]
clear == Section(0, 0)

\* empty()
IsEmpty(x) == x.s = 0 \/ x.e = 0 \/ x.s > x.e

Places(x) == IF IsEmpty(x) THEN {} ELSE x.s .. x.e

\* strdup()
Dup(t, x) == IF IsEmpty(x) THEN <<>> ELSE SubSeq(t, x.s, x.e)

\* match()
Matches(t, x, name) == Len(name) = Cardinality(Places(x)) /\ name = Dup(t, x)

\* strncpy(): always terminated
StrNCpy(t, x, size) == LET d == Dup(t, x) IN SubSeq(d, 1, Min({Len(d), size - 1}))

\* The text of a Printer
Printed(t, x, limit) ==
  LET size == Min({2 + Len(Dup(t, x)) - 1, limit}) IN SubSeq(Dup(t, x), 1, size - 1)

\* find(): the first place of the character, or 0.
Find(t, x, c) ==
  LET found == {p \in Places(x) : t[p] = c} IN IF found = {} THEN 0 ELSE Min(found)

\* Faulty: the rest begins with the separator if that comes first.
Split_First(t, x, c) ==
  LET f == Find(t, x, c)
  IN IF f > x.s THEN [head |-> Section(x.s, f - 1), rest |-> Section(f + 1, x.e), more |-> TRUE]
     ELSE [head |-> x, rest |-> clear, more |-> FALSE]

\* split(): what is before the separator, and what is left.
Split(t, x, c) ==
  LET f == Find(t, x, c)
  IN IF f # 0 THEN [head |-> Section(x.s, f - 1), rest |-> Section(f + 1, x.e), more |-> TRUE]
     ELSE [head |-> x, rest |-> clear, more |-> FALSE]

\* Faulty: does not look where the number ends.
ToInt_Prefix(t, x) == Char(t, x.s) = "1"

\* strtol(): the place after the last digit, or where it started when there is none.
EndOfNumber(t, s) ==
  LET first == Min({p \in s .. Len(t) + 1 : Char(t, p) # "_"})
      after == Min({p \in first .. Len(t) + 1 : Char(t, p) # "1"})
  IN IF first = after THEN s ELSE after

\* to_int(): the digits end with the section.  One that is empty is 0.
ToInt(t, x) == EndOfNumber(t, x.s) = x.e + 1

-----------------------------------------------------------------------------
(* The parser.  Its sections all end at the end of the text.               *)

\* The first place from s that is not a space: skip() without a character.
SkipTo(t, s) == Min({p \in s .. Len(t) : t[p] # "_"} \cup {Max({s, Len(t) + 1})})

\* Section::skip(c)
Skip(t, s, c) ==
  LET p == SkipTo(t, s)
  IN IF p <= Len(t) /\ t[p] = c THEN [ok |-> TRUE, at |-> p + 1] ELSE [ok |-> FALSE, at |-> p]

Numeric == {"1", "NUL"}    \* strchr() finds the terminator too

Failed(at, err, ev) == [ok |-> FALSE, at |-> at, err |-> err, ev |-> ev]

\* The result of a callback, which the handler may refuse: error_check().
Called(at, ev, e, refuse) ==
  IF Len(ev) + 1 = refuse THEN Failed(at, "USER_ERROR", Append(ev, e))
  ELSE [ok |-> TRUE, at |-> at, err |-> "OKAY", ev |-> Append(ev, e)]

\* Parser::number(): the loop compares s of the section, which it leaves alone,
\* so that only a character ends it.  The terminator does not: the number then
\* takes what follows the text, here one place.
number(t, s, ev, refuse) ==
  IF s > Len(t) THEN Called(s, ev, <<"number", s, 0>>, refuse)
  ELSE LET e == Min({p \in s .. Len(t) + 1 : Char(t, p) \notin Numeric} \cup {Len(t) + 2})
       IN Called(e, ev, <<"number", s, e - 1>>, refuse)

\* Faulty: one escape makes every later quote part of the string.
StringEnd_Sticky(t, s) ==
  LET ends == {p \in s .. Len(t) : t[p] = "q" /\ \A i \in s .. p - 1 : t[i] # "/"}
  IN IF ends = {} THEN 0 ELSE Min(ends)

\* The quote that ends a string that begins at s: no odd run of backslashes is
\* before it.  A character after a backslash is passed whatever it is.
StringEnd(t, s) ==
  LET escaped[p \in s .. Len(t)] == p > s /\ t[p - 1] = "/" /\ ~escaped[p - 1]
      ends == {p \in s .. Len(t) : t[p] = "q" /\ ~escaped[p]}
  IN IF ends = {} THEN 0 ELSE Min(ends)

\* Parser::string(), with s at the leading quote.
string(t, s, key, ev, refuse) ==
  LET e == StringEnd(t, s + 1)
  IN IF e = 0 THEN Failed(s, "UNTERMINATED_STRING", ev)
     ELSE Called(e + 1, ev, <<IF key THEN "key" ELSE "string", s + 1, e - 1>>, refuse)

\* Parser::primitive(): a word that a space, a mark or the terminator follows.
primitive(t, s, ev, refuse) ==
  IF Char(t, s) = "t" /\ Char(t, s + 1) \in {"_", ",", "}", "]", "NUL"}
  THEN Called(s + 1, ev, <<"primitive", s, s>>, refuse)
  ELSE Failed(s, "OKAY", ev)

RECURSIVE value(_, _, _, _), members(_, _, _, _), elements(_, _, _, _)

\* Closes an object or an array.
Closed(t, s, c, err, ev, refuse) ==
  LET k == Skip(t, s, c)
  IN IF ~k.ok THEN Failed(k.at, err, ev) ELSE Called(k.at, ev, <<c>>, refuse)

\* The loop of Parser::object().  A comma may come before the brace.
members(t, s, ev, refuse) ==
  LET p == SkipTo(t, s)
      close(at, e) == Closed(t, at, "}", "CLOSE_BRACE_EXPECTED", e, refuse)
  IN IF s > Len(t) \/ Char(t, p) = "}" THEN close(p, ev)
     ELSE IF Char(t, p) # "q" THEN Failed(p, "KEY_EXPECTED", ev)
     ELSE LET k == string(t, p, TRUE, ev, refuse)
              colon == Skip(t, k.at, ":")
              v == value(t, colon.at, k.ev, refuse)
              comma == Skip(t, v.at, ",")
          IN IF ~k.ok THEN k
             ELSE IF ~colon.ok THEN Failed(colon.at, "COLON_EXPECTED", k.ev)
             ELSE IF ~v.ok THEN v
             ELSE IF comma.ok THEN members(t, comma.at, v.ev, refuse)
             ELSE close(comma.at, v.ev)

\* The loop of Parser::array()
elements(t, s, ev, refuse) ==
  LET p == SkipTo(t, s)
      close(at, e) == Closed(t, at, "]", "CLOSE_BRACKET_EXPECTED", e, refuse)
  IN IF s > Len(t) \/ Char(t, p) = "]" THEN close(p, ev)
     ELSE LET v == value(t, p, ev, refuse)
              comma == Skip(t, v.at, ",")
          IN IF ~v.ok THEN v
             ELSE IF comma.ok THEN elements(t, comma.at, v.ev, refuse)
             ELSE close(comma.at, v.ev)

\* Parser::value(), and the beginnings of object() and array().
value(t, from, ev, refuse) ==
  LET s == SkipTo(t, from)
      c == Char(t, s)
      opened == Called(s + 1, ev, <<c>>, refuse)
  IN CASE c \in Numeric -> number(t, s, ev, refuse)
       [] c = "{" -> IF opened.ok THEN members(t, s + 1, opened.ev, refuse) ELSE opened
       [] c = "[" -> IF opened.ok THEN elements(t, s + 1, opened.ev, refuse) ELSE opened
       [] c = "q" -> string(t, s, FALSE, ev, refuse)
       [] OTHER -> primitive(t, s, ev, refuse)

parse(t, refuse) == value(t, 1, <<>>, refuse)

\* Match: the key and the type of each level, and the items whose on_match() was
\* called, with the value.  A level deeper than MaxNest is not kept.
MatchInit == [nest |-> 0, levels |-> [n \in 0 .. MaxNest - 1 |-> <<>>], matched |-> {}]

\* Match::check(): an item matches when its keys are those of the outer levels.
Checks(m, path) ==
  /\ Len(path) <= m.nest
  /\ \A i \in DOMAIN path : m.levels[i] = <<path[i]>>

\* Faulty: does not leave the level of an array.
MatchStep_Array(m, e) ==
  LET nest == IF e[1] \in {"{", "["} THEN m.nest + 1 ELSE IF e[1] = "}" THEN m.nest - 1 ELSE m.nest
      n == [m EXCEPT !.nest = nest]
  IN IF nest >= MaxNest THEN n
     ELSE IF e[1] \in {"{", "["} THEN [n EXCEPT !.levels[nest] = <<>>]
     ELSE IF e[1] \in {"}", "]"} THEN n
     ELSE IF e[1] = "key" THEN [n EXCEPT !.levels[nest] = <<SubSeq(text, e[2], e[3])>>]
     ELSE [n EXCEPT !.levels[nest] = <<>>, !.matched = @ \cup {<<p, e>> : p \in {q \in Paths : Checks(m, q)}}]

\* The callbacks of Match, for an event of the parser.
MatchStep(m, e) ==
  LET nest == IF e[1] \in {"{", "["} THEN m.nest + 1 ELSE IF e[1] \in {"}", "]"} THEN m.nest - 1 ELSE m.nest
      n == [m EXCEPT !.nest = nest]
  IN IF nest >= MaxNest THEN n
     ELSE IF e[1] \in {"{", "["} THEN [n EXCEPT !.levels[nest] = <<>>]
     ELSE IF e[1] \in {"}", "]"} THEN n
     ELSE IF e[1] = "key" THEN [n EXCEPT !.levels[nest] = <<SubSeq(text, e[2], e[3])>>]
     ELSE [n EXCEPT !.levels[nest] = <<>>, !.matched = @ \cup {<<p, e>> : p \in {q \in Paths : Checks(m, q)}}]

Matched(ev) == FoldLeft(MatchStep, MatchInit, ev).matched

\* JsonOut: an object of the pairs, each value a text or a number.
JsonKey(n, label) == (IF n > 1 THEN <<",">> ELSE <<>>) \o <<"_", "q">> \o label \o <<"q", "_", ":", "_">>
JsonValue(v) == IF v = <<"1">> THEN v ELSE <<"q">> \o v \o <<"q">>
JsonOut(pairs) ==
  <<"{">> \o FlattenSeq([n \in DOMAIN pairs |-> JsonKey(n, pairs[n][1]) \o JsonValue(pairs[n][2])]) \o <<"_", "}">>

-----------------------------------------------------------------------------
(* The grammar, by the places i to j of a text.                            *)

Space(t, i, j) == \A p \in i .. j : t[p] = "_"

Backslashes(t, p) == p - 1 - Max({k \in 0 .. p - 1 : k = 0 \/ t[k] # "/"})
IsString(t, i, j) ==
  /\ i < j /\ t[i] = "q" /\ t[j] = "q"
  /\ \A p \in i + 1 .. j : t[p] = "q" /\ Backslashes(t, p) % 2 = 0 <=> p = j

RECURSIVE IsValue(_, _, _), IsMembers(_, _, _), IsElements(_, _, _)

IsValue(t, i, j) ==
  /\ i <= j
  /\ \/ \A p \in i .. j : t[p] = "1"
     \/ IsString(t, i, j)
     \/ i = j /\ t[i] = "t"
     \/ i < j /\ t[i] = "{" /\ t[j] = "}" /\ IsMembers(t, i + 1, j - 1)
     \/ i < j /\ t[i] = "[" /\ t[j] = "]" /\ IsElements(t, i + 1, j - 1)

\* A comma may follow the last.
IsMembers(t, i, j) ==
  \/ Space(t, i, j)
  \/ \E k \in i .. j : \E c \in k + 1 .. j : \E v \in c + 1 .. j : \E w \in v .. j : \E b \in i .. k :
       /\ Space(t, i, b - 1) /\ IsString(t, b, k)
       /\ Space(t, k + 1, c - 1) /\ t[c] = ":"
       /\ Space(t, c + 1, v - 1) /\ IsValue(t, v, w)
       /\ \/ Space(t, w + 1, j)
          \/ \E m \in w + 1 .. j : t[m] = "," /\ Space(t, w + 1, m - 1) /\ IsMembers(t, m + 1, j)

IsElements(t, i, j) ==
  \/ Space(t, i, j)
  \/ \E v \in i .. j : \E w \in v .. j :
       /\ Space(t, i, v - 1) /\ IsValue(t, v, w)
       /\ \/ Space(t, w + 1, j)
          \/ \E m \in w + 1 .. j : t[m] = "," /\ Space(t, w + 1, m - 1) /\ IsElements(t, m + 1, j)

\* The keys around each callback, an array counting as a level without one.
RECURSIVE PathAt(_, _)
PathAt(ev, i) ==
  IF i = 0 THEN <<>>
  ELSE LET up == PathAt(ev, i - 1)
       IN CASE ev[i][1] \in {"{", "["} -> Append(up, <<>>)
            [] ev[i][1] \in {"}", "]"} -> Front(up)
            [] ev[i][1] = "key" -> Append(Front(up), <<SubSeq(text, ev[i][2], ev[i][3])>>)
            [] OTHER -> up

Scalars(ev) == {i \in DOMAIN ev : ev[i][1] \in {"string", "number", "primitive"}}

\* The parser accepts what begins with a value of the grammar, and nothing else
\* but the end of the text taken for a number; it reads back what JsonOut writes;
\* and after a refusal it calls the handler no more (src/json.cpp).
ParsesTheGrammar ==
  LET r == parse(text, 0)
      s == SkipTo(text, 1)
  IN /\ r.ok <=> s > Len(text) \/ \E j \in s .. Len(text) :
                   /\ IsValue(text, s, j)
                   /\ text[s] = "t" => Char(text, j + 1) \in {"_", ",", "}", "]", "NUL"}
     /\ \A a, b \in Words : words = 0 /\ Range(a \o b) \subseteq {"a", "1"} =>
          LET w == parse(JsonOut(<< <<a, b>>, <<b, a>> >>), 0)
          IN w.ok /\ Len(w.ev) = 6
     /\ \A refuse \in Refusals \cap 1 .. Len(r.ev) :
          LET u == parse(text, refuse)
          IN u.ev = SubSeq(r.ev, 1, refuse) /\ ~u.ok /\ u.err = "USER_ERROR"

\* Of what was parsed, each item is matched by the values that its keys lead to,
\* and by no other, whatever was nested, closed or passed before
\* (Match, src/json.cpp:524).
MatchesByPath ==
  LET ev == parse(text, 0).ev
  IN \A i \in Scalars(ev) : \A p \in Paths :
       <<p, ev[i]>> \in Matched(ev) <=>
         /\ Len(PathAt(ev, i)) < MaxNest
         /\ IsPrefix([k \in DOMAIN p |-> <<p[k]>>], PathAt(ev, i))

RECURSIVE Pieces(_, _, _)
Pieces(t, x, c) ==
  LET p == Split(t, x, c) IN <<Dup(t, p.head)>> \o (IF p.more THEN Pieces(t, p.rest, c) ELSE <<>>)

\* A text split at each comma is the same when joined again, with no comma in a
\* piece (Section::split(), src/json.cpp:112); a section is a number when all of
\* it is, whatever follows it in the text (Section::to_int(), src/json.cpp:68);
\* and copies are cut at the size, not elsewhere (src/json.cpp:45).
SectionsAgree ==
  LET whole == Section(1, Len(text))
      pieces == Pieces(text, whole, ",")
  IN /\ text # <<>> =>
          /\ FlattenSeq([n \in DOMAIN pieces |-> (IF n > 1 THEN <<",">> ELSE <<>>) \o pieces[n]]) = text
          /\ \A n \in DOMAIN pieces : "," \notin ToSet(pieces[n])
     /\ \A s, e \in DOMAIN text : s <= e /\ Char(text, e + 1) # "1" =>
          LET x == Section(s, e)
          IN /\ ToInt(text, x) <=> text[e] = "1" /\ \E k \in s .. e : Space(text, s, k - 1)
                                                         /\ \A p \in k .. e : text[p] = "1"
             /\ \A n \in 1 .. 3 : StrNCpy(text, x, n) = Printed(text, x, n)
=============================================================================
