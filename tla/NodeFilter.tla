----------------------------- MODULE NodeFilter -----------------------------
(***************************************************************************)
(* The node filter of a query (crates/client-backend/src/filter.rs): a     *)
(* comma-separated list of patterns, with wildcards and one bracket        *)
(* expression per item.                                                    *)
(*                                                                         *)
(* A text is a sequence of one-character strings.  IP addresses and socket *)
(* addresses have one text each, so that parsing a pattern as an address   *)
(* is asking whether it is the text of one.                                *)
(***************************************************************************)
EXTENDS Integers, Sequences, FiniteSets, SequencesExt

CONSTANTS IpTexts,      \* the texts that parse as an IP address
          AddrTexts,    \* the texts that parse as an IP address and a port
          PatternChars, \* bound: the characters of the patterns and texts compared
          MaxPattern,   \* bound: their lengths
          MaxText,
          Stems,        \* bound: the texts, without separators, that names are made of
          RangeEnds     \* bound: the ends of a range

Space == " "
Comma == ","

ASSUME NodeFilterAssumption ==
    /\ IpTexts \cap AddrTexts = {}
    /\ MaxPattern \in Nat /\ MaxText \in Nat /\ RangeEnds \subseteq 0..99
    /\ \A x \in Stems : /\ x \in Seq(STRING) /\ x # <<>>
                       /\ \A i \in DOMAIN x : x[i] \notin {"[", "]", Comma, Space}

Digits == <<"0", "1", "2", "3", "4", "5", "6", "7", "8", "9">>

FindChar(ch, s) ==
    IF \A i \in DOMAIN s : s[i] # ch THEN 0
    ELSE CHOOSE i \in DOMAIN s : s[i] = ch /\ \A j \in 1..(i - 1) : s[j] # ch
FindText(part, s) ==
    IF \E i \in 0..(Len(s) - Len(part)) : IsPrefix(part, SubSeq(s, i + 1, Len(s)))
    THEN 1 + CHOOSE i \in 0..(Len(s) - Len(part)) :
                 /\ IsPrefix(part, SubSeq(s, i + 1, Len(s)))
                 /\ \A j \in 0..(i - 1) : ~IsPrefix(part, SubSeq(s, j + 1, Len(s)))
    ELSE 0
Drop(n, s) == SubSeq(s, n + 1, Len(s))

(* The parts of s between the separators at the positions seps, the k-th of
   which is at Bar(s, seps, k). *)
Bar(s, seps, k) ==
    IF k = 0 THEN 0 ELSE IF k > Cardinality(seps) THEN Len(s) + 1
    ELSE CHOOSE i \in seps : Cardinality({j \in seps : j < i}) = k - 1
Cut(s, seps) ==
    [k \in 1..(Cardinality(seps) + 1) |-> SubSeq(s, Bar(s, seps, k - 1) + 1, Bar(s, seps, k) - 1)]
SplitOn(ch, s) == Cut(s, {i \in DOMAIN s : s[i] = ch})

Trim(s) ==
    LET ink == {i \in DOMAIN s : s[i] # Space}
    IN IF ink = {} THEN <<>>
       ELSE SubSeq(s, CHOOSE i \in ink : \A j \in ink : i <= j,
                      CHOOSE i \in ink : \A j \in ink : j <= i)

-----------------------------------------------------------------------------
(* Deviation: every comma separates two items. *)
split_filter_items_anywhere(raw) == SplitOn(Comma, raw)

(* How many brackets are open after each character; an unmatched closing
   bracket is ignored. *)
Depths(raw) ==
    LET depth[i \in 0..Len(raw)] ==
            IF i = 0 THEN 0
            ELSE CASE raw[i] = "[" -> depth[i - 1] + 1
                   [] raw[i] = "]" /\ depth[i - 1] > 0 -> depth[i - 1] - 1
                   [] OTHER -> depth[i - 1]
    IN depth

(* Commas inside brackets do not separate items. *)
split_filter_items(raw) ==
    Cut(raw, {i \in DOMAIN raw : raw[i] = Comma /\ Depths(raw)[i] = 0})

IsNumber(s) == s # <<>> /\ ToSet(s) \subseteq ToSet(Digits)
Numbers(s) ==
    LET n[i \in 0..Len(s)] == IF i = 0 THEN 0 ELSE 10 * n[i - 1] + FindChar(s[i], Digits) - 1
    IN n
Number(s) == Numbers(s)[Len(s)]

(* The decimal text of n with at least width digits, for numbers below 100. *)
Padded(n, width) ==
    LET plain == IF n < 10 THEN <<Digits[n + 1]>>
                 ELSE <<Digits[(n \div 10) + 1], Digits[(n % 10) + 1]>>
    IN SubSeq([i \in 1..width |-> "0"], 1, width - Len(plain)) \o plain

(* A range that does not parse is taken as it is written. *)
expand_numeric_range(raw, prefix, suffix, start, end) ==
    IF ~IsNumber(start) \/ ~IsNumber(end) \/ Number(start) > Number(end) THEN {raw}
    ELSE LET width == IF Len(start) > Len(end) THEN Len(start) ELSE Len(end)
         IN {prefix \o Padded(n, width) \o suffix : n \in Number(start)..Number(end)}

(* Only the first bracket of an item is expanded, and it holds either one
   range or a list: the range is split at the first dash. *)
expand_bracket_expression(raw) ==
    LET open == FindChar("[", raw)
        close == IF open = 0 THEN 0 ELSE FindChar("]", Drop(open, raw))
    IN IF open = 0 \/ close = 0 THEN {raw}
       ELSE LET expression == SubSeq(raw, open + 1, open + close - 1)
                prefix == SubSeq(raw, 1, open - 1)
                suffix == Drop(open + close, raw)
                dash == FindChar("-", expression)
                items == {Trim(x) : x \in ToSet(SplitOn(Comma, expression))} \ {<<>>}
            IN IF dash # 0
               THEN expand_numeric_range(raw, prefix, suffix,
                        SubSeq(expression, 1, dash - 1), Drop(dash, expression))
               ELSE IF items = {} THEN {raw}
               ELSE {prefix \o x \o suffix : x \in items}

(* NodeFilter::parse: the set of patterns; any of them may match. *)
parse(raw) ==
    UNION {expand_bracket_expression(item) :
              item \in {Trim(x) : x \in ToSet(split_filter_items(raw))} \ {<<>>}}

-----------------------------------------------------------------------------
(* Deviation: the text may begin with anything. *)
AfterPart_unanchored(parts, k, text, from) ==
    LET pos == FindText(parts[k], Drop(from - 1, text))
    IN IF pos = 0 THEN 0 ELSE from + pos + Len(parts[k]) - 1

(* Where the text goes on after the k-th literal part, looked for leftmost in
   what begins at `from'; the first part must be there at once.  0 is failure. *)
AfterPart(parts, k, text, from) ==
    LET rest == Drop(from - 1, text)
        pos == IF k = 1 /\ ~IsPrefix(parts[1], rest) THEN 0 ELSE FindText(parts[k], rest)
    IN IF pos = 0 THEN 0 ELSE from + pos + Len(parts[k]) - 1

(* Each part is looked for once, in what the parts before it left over. *)
Rests(parts, text) ==
    LET from[k \in 0..Len(parts)] ==
            IF k = 0 THEN 1
            ELSE IF from[k - 1] = 0 THEN 0 ELSE AfterPart(parts, k, text, from[k - 1])
    IN from

wildcard_match(pattern, text) ==
    LET parts == SplitOn("*", pattern)
        end == Rests(parts, text)[Len(parts)]
    IN IF ~Contains(pattern, "*") THEN FindText(pattern, text) # 0
       ELSE end # 0 /\ (Last(pattern) = "*" \/ end = Len(text) + 1)

exact_addr_match(pattern, node) ==
    \/ pattern \in AddrTexts /\ pattern = node.addr
    \/ pattern \in IpTexts /\ pattern = node.ip

is_exact_addr_pattern(pattern) ==
    ~Contains(pattern, "*") /\ pattern \in AddrTexts \cup IpTexts

(* A pattern that is an address selects that address and no other; any other
   one is looked for in each of the node's names. *)
matches_pattern(pattern, node) ==
    IF is_exact_addr_pattern(pattern) THEN exact_addr_match(pattern, node)
    ELSE \E text \in {node.host, node.ip, node.addr, node.id} : wildcard_match(pattern, text)

matches_target(patterns, node) ==
    patterns = {} \/ \E p \in patterns : matches_pattern(p, node)

-----------------------------------------------------------------------------
(* What a wildcard pattern means: a star stands for any text, any other
   character for itself.  After i characters of the pattern, Reached[i] is how
   many of the text it may stand for. *)
Reached(pattern, text) ==
    LET at[i \in 0..Len(pattern)] ==
            IF i = 0 THEN {0}
            ELSE IF pattern[i] = "*" THEN {j \in 0..Len(text) : \E h \in at[i - 1] : h <= j}
            ELSE {j \in 1..Len(text) : j - 1 \in at[i - 1] /\ pattern[i] = text[j]}
    IN at
Glob(pattern, text) == Len(text) \in Reached(pattern, text)[Len(pattern)]

Occurrences(part, s) ==
    {i \in 0..(Len(s) - Len(part)) : IsPrefix(part, Drop(i, s))}

Patterns == {p \in BoundedSeq(PatternChars \cup {"*"}, MaxPattern) : Contains(p, "*")}

(* wildcard_match, which looks for each literal part once and leftmost,
   accepts only texts that the pattern stands for; and it accepts all of them
   when it ends with a star or its last literal part occurs once in the text.
   (It refuses "abab" for "*ab": the leftmost "ab" is not at the end.) *)
GlobAgrees ==
    \A p \in Patterns, t \in BoundedSeq(PatternChars, MaxText) :
        /\ wildcard_match(p, t) => Glob(p, t)
        /\ /\ Glob(p, t)
           /\ Last(p) = "*" \/ Cardinality(Occurrences(Last(SplitOn("*", p)), t)) = 1
           => wildcard_match(p, t)

(* The items a user may mean: a name, a list of names or a range of numbers
   inside a name; and the text that asks for each.  A name in a list has no
   dash. *)
Listable == {x \in Stems : ~Contains(x, "-")}
Items ==
    [kind : {"name"}, pre : Stems] \cup
    [kind : {"list"}, pre : Stems \cup {<<>>}, suf : Stems \cup {<<>>},
     of : BoundedSeq(Listable, 2) \ {<<>>}] \cup
    {r \in [kind : {"range"}, pre : Stems \cup {<<>>}, suf : Stems \cup {<<>>},
             lo : RangeEnds, hi : RangeEnds, width : 1..2] : r.lo <= r.hi}
Inside(it) ==
    CASE it.kind = "list" -> IF Len(it.of) = 1 THEN it.of[1] ELSE it.of[1] \o <<Comma>> \o it.of[2]
      [] it.kind = "range" -> Padded(it.lo, it.width) \o <<"-">> \o Padded(it.hi, it.width)
ItemText(it) ==
    IF it.kind = "name" THEN it.pre
    ELSE it.pre \o <<"[">> \o Inside(it) \o <<"]">> \o it.suf
ItemNames(it) ==
    CASE it.kind = "name" -> {it.pre}
      [] it.kind = "list" -> {it.pre \o x \o it.suf : x \in ToSet(it.of)}
      [] it.kind = "range" ->
             {it.pre \o Padded(n, IF it.hi < 10 THEN it.width ELSE 2) \o it.suf : n \in it.lo..it.hi}

(* parse reads a filter of two items, with blanks around them, as the names
   the items stand for. *)
ReadsBack ==
    \A x, y \in Items :
        parse((<<Space>> \o ItemText(x)) \o <<Comma>> \o (<<Space>> \o ItemText(y)))
            = ItemNames(x) \cup ItemNames(y)
=============================================================================
