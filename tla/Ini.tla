--------------------------------- MODULE Ini ---------------------------------
(***************************************************************************)
(* The config reader of src/c/ini.c: what one line of a file does to the   *)
(* sections read so far, and the lookups with their conversions.           *)
(*                                                                         *)
(* A line is what one fgets delivers, without its comment and trimmed: a   *)
(* line of the file that is longer than the buffer is several.  A value is *)
(* the text of a number, the fraction n/d written with digits alone when d *)
(* is 1, with d = 0 for nan and the infinities; or that of a geometry,     *)
(* ROWSxCOLS; or any other word.  A number strtod calls out of range is    *)
(* such a word.                                                            *)
(***************************************************************************)
EXTENDS Integers, SequencesExt

CONSTANTS
  MaxSections,  \* INI_MAX_SECTIONS
  MaxKeys,      \* INI_MAX_KEYS, in one section
  TooLong,      \* the names and words of INI_MAX_LEN characters and more
  Word,         \* the number of values of a uint32_t
  Long          \* the number of values of an unsigned long

ASSUME IniAssumption ==
  /\ MaxSections \in Nat \ {0} /\ MaxKeys \in Nat \ {0}
  /\ TooLong \subseteq STRING
  /\ Word \in Nat \ {0} /\ Long \in Nat /\ Long > Word

Value ==
  [kind : {"number"}, n : Int, d : Nat] \cup [kind : {"grid"}, r : Int, c : Int]
    \cup [kind : {"word"}, word : STRING]

Number(n, d) == [kind |-> "number", n |-> n, d |-> d]
Grid(r, c)   == [kind |-> "grid", r |-> r, c |-> c]
Name(w)      == [kind |-> "word", word |-> w]
Empty        == Name("")

\* The lines: nothing is left of it, [name] or [name, key = value, or words
\* without an equals sign.
Line ==
  [kind : {"blank", "words"}] \cup [kind : {"header"}, name : STRING, closed : BOOLEAN]
    \cup [kind : {"pair"}, key : STRING, value : Value]

Header(name)     == [kind |-> "header", name |-> name, closed |-> TRUE]
Pair(key, value) == [kind |-> "pair", key |-> key, value |-> value]

\* ini_section_t; an ini_t is a sequence of them.
Sections == Seq([name : STRING, pairs : Seq([key : STRING, value : Value])])

-----------------------------------------------------------------------------
FindSection(ini, name) == SelectInSeq(ini, LAMBDA sec : sec.name = name)
FindKey(pairs, key)    == SelectInSeq(pairs, LAMBDA pair : pair.key = key)

HasSection(ini, name) == FindSection(ini, name) # 0

TooLongValue(value) == value.kind = "word" /\ value.word \in TooLong

HeaderRefused(ini, line) ==
  \/ ~line.closed
  \/ line.name \in {""} \cup TooLong
  \/ HasSection(ini, line.name)
  \/ Len(ini) >= MaxSections

\* The current section is the last one.
PairRefused(ini, line) ==
  \/ line.key \in {""} \cup TooLong
  \/ TooLongValue(line.value)
  \/ ini = <<>>
  \/ FindKey(Last(ini).pairs, line.key) # 0
  \/ Len(Last(ini).pairs) >= MaxKeys

\* The lines ini_load fails at.
LineRefused(ini, line) ==
  CASE line.kind = "header" -> HeaderRefused(ini, line)
    [] line.kind = "pair"   -> PairRefused(ini, line)
    [] line.kind = "words"  -> TRUE
    [] line.kind = "blank"  -> FALSE

\* Mutant of Taken: the current section stays the first one.
TakenByFirst(ini, line) ==
  CASE line.kind = "header" -> Append(ini, [name |-> line.name, pairs |-> <<>>])
    [] line.kind = "pair"   -> [ini EXCEPT ![1].pairs =
                                  Append(@, [key |-> line.key, value |-> line.value])]
    [] OTHER -> ini

\* What any other line leaves.
Taken(ini, line) ==
  CASE line.kind = "header" -> Append(ini, [name |-> line.name, pairs |-> <<>>])
    [] line.kind = "pair"   -> [ini EXCEPT ![Len(ini)].pairs =
                                  Append(@, [key |-> line.key, value |-> line.value])]
    [] OTHER -> ini

-----------------------------------------------------------------------------
(***************************************************************************)
(* The lookups give the set of what they may put into out: none when they  *)
(* fail.                                                                   *)
(***************************************************************************)

\* ini_get
Get(ini, section, key) ==
  IF HasSection(ini, section)
  THEN LET pairs == ini[FindSection(ini, section)].pairs
       IN  IF FindKey(pairs, key) = 0 THEN {} ELSE {pairs[FindKey(pairs, key)].value}
  ELSE {}

\* An absent key yields the default; any other, what its text converts to.
OrDefault(raw, def, converted) == IF raw = {} THEN {def} ELSE converted

\* ini_get_str
Str(ini, section, key, def) ==
  LET raw == Get(ini, section, key)
  IN  OrDefault(raw, def, raw \ {Empty})

\* strtoul takes a sign, and negates in an unsigned long.
Unsigned(n) == n % Long

\* ini_get_u32
U32(ini, section, key, def) ==
  LET raw == Get(ini, section, key)
      fit == {value \in raw : /\ value.kind = "number" /\ value.d = 1
                              /\ value.n \in 1 - Long .. Long - 1
                              /\ Unsigned(value.n) < Word}
  IN  OrDefault(raw, def, {Unsigned(value.n) : value \in fit})

\* ini_get_f64
F64(ini, section, key, def) ==
  LET raw == Get(ini, section, key)
  IN  OrDefault(raw, def, {value \in raw : value.kind = "number"})

Yes == {Name("true"), Name("yes"), Name("on"), Number(1, 1)}
No  == {Name("false"), Name("no"), Name("off"), Number(0, 1)}

\* ini_get_bool
Bool(ini, section, key, def) ==
  LET raw == Get(ini, section, key)
  IN  OrDefault(raw, def, {(value \in Yes) : value \in raw \cap (Yes \cup No)})
\* ini_check_keys of a section that is there
CheckKeys(ini, section, allowed) ==
  LET pairs == ini[FindSection(ini, section)].pairs
  IN  \A i \in DOMAIN pairs : pairs[i].key \in allowed
==============================================================================
