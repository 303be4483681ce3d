------------------------------- MODULE Texts -------------------------------
(***************************************************************************)
(* The functions on texts, for one row and for a row of a batch.  A text   *)
(* is the sequence of its bytes in UTF-8, so that a position of a byte and *)
(* a position of a character are different things.  A row has its text     *)
(* arguments, the set of those that are null, and its integer arguments.   *)
(***************************************************************************)
EXTENDS Integers, Sequences, SequencesExt, FiniteSets, TLC

Space == 32

\* What a function gives: a null pointer is a null (WrapVarcharVector).
Gives(v)     == [null |-> FALSE, err |-> FALSE, val |-> v]
GivesNull    == [null |-> TRUE, err |-> FALSE, val |-> <<>>]
GivesError   == [null |-> FALSE, err |-> TRUE, val |-> <<>>]

\* memcpy_s fails where the room is none.
CopiedText(bytes) == IF bytes = <<>> THEN GivesError ELSE Gives(bytes)

Spaces(n) == [i \in 1 .. n |-> Space]

-----------------------------------------------------------------------------
(* Characters: bytes are looked at in words of eight and of four.          *)

IsContinuation(byte) == 128 <= byte /\ byte < 192

\* Of the bytes from a position on, what lies after the end does not count.
CountContinuationBytes(s, position, bytes) ==
  Cardinality({i \in position + 1 .. position + bytes : i <= Len(s) /\ IsContinuation(s[i])})

WordsOf(s, word) == word * (Len(s) \div word)

RECURSIVE SkipWords(_, _, _)
SkipWords(s, word, p) ==
  IF p.position < WordsOf(s, word) /\ p.actual >= p.position + word
  THEN SkipWords(s, word, [position |-> p.position + word,
                           actual   |-> p.actual + CountContinuationBytes(s, p.position, word)])
  ELSE p

RECURSIVE SkipBytes(_, _, _)
SkipBytes(s, position, actual) ==
  LET moved == actual + CountContinuationBytes(s, position, 1)
  IN  IF position >= Len(s) THEN -1
      ELSE IF position = moved THEN position ELSE SkipBytes(s, position + 1, moved)

\* Mutant: a character that crosses the end of a word is not looked at again.
OffsetByWords(s, position, count) ==
  LET p == SkipWords(s, 4, SkipWords(s, 8, [position |-> position, actual |-> position + count]))
  IN  IF p.actual < Len(s) THEN p.actual ELSE -1

OffsetOfCodePoint(s, position, count) ==
  IF Len(s) - position <= count THEN -1
  ELSE IF count = 0 THEN position
  ELSE LET p == SkipWords(s, 4, SkipWords(s, 8, [position |-> position,
                                                 actual   |-> position + count]))
       IN  SkipBytes(s, p.position, p.actual)

\* The words of eight bytes, one of four and the bytes that are left.
CountCodePoints(s) ==
  LET eights == WordsOf(s, 8)
      fours  == IF eights + 4 < WordsOf(s, 4) THEN eights + 4 ELSE eights
  IN  Len(s) - CountContinuationBytes(s, 0, eights)
             - CountContinuationBytes(s, eights, fours - eights)
             - CountContinuationBytes(s, fours, Len(s) - fours)

LengthOfCodePoint(byte) ==
  CASE byte < 128 -> 1 [] byte \in 192 .. 223 -> 2 [] byte \in 224 .. 239 -> 3
    [] byte \in 240 .. 247 -> 4 [] OTHER -> -1

\* Of a lead byte; 0 of the others.
BytesOfCodePointInUTF8(byte) ==
  CASE byte < 128 -> 1 [] byte \in 194 .. 223 -> 2 [] byte \in 224 .. 239 -> 3
    [] byte \in 240 .. 244 -> 4 [] OTHER -> 0

RECURSIVE NumCharsFrom(_, _)
NumCharsFrom(s, i) ==
  IF i >= Len(s) THEN 0
  ELSE LET bytes == BytesOfCodePointInUTF8(s[i + 1])
       IN  1 + NumCharsFrom(s, i + IF bytes = 0 THEN 1 ELSE bytes)

NumChars(s) == NumCharsFrom(s, 0)

\* Where a text occurs in another from a position on, or -1 (std::string::find).
FindFrom(s, part, position) ==
  LET at == {i \in position .. Len(s) - Len(part) : SubSeq(s, i + 1, i + Len(part)) = part}
  IN  IF at = {} THEN -1 ELSE CHOOSE i \in at : \A j \in at : i <= j

\* The last place not after a position (std::string::rfind).
FindBefore(s, part, position) ==
  LET at == {i \in 0 .. Len(s) - Len(part) :
               i <= position /\ SubSeq(s, i + 1, i + Len(part)) = part}
  IN  IF at = {} THEN -1 ELSE CHOOSE i \in at : \A j \in at : j <= i

-----------------------------------------------------------------------------
(* Parts of texts.                                                         *)

FromByte(s, start) == SubSeq(s, start + 1, Len(s))

SubstrVarcharWithStart(c, s, start) ==
  LET first == IF c.zero /\ start = 0 THEN 1 ELSE start
      begin == first + CountCodePoints(s)
  IN  IF first = 0 \/ s = <<>> \/ first > Len(s) THEN <<>>
      ELSE IF first > 0
      THEN IF OffsetOfCodePoint(s, 0, first - 1) < 0 THEN <<>>
           ELSE FromByte(s, OffsetOfCodePoint(s, 0, first - 1))
      ELSE IF begin < 0 /\ ~c.negative THEN <<>>
      ELSE FromByte(s, OffsetOfCodePoint(s, 0, IF begin < 0 THEN 0 ELSE begin))

\* From a byte on, so many characters or what there is.
CodePointsFrom(s, start, length) ==
  LET end == OffsetOfCodePoint(s, start, length)
  IN  SubSeq(s, start + 1, IF end < 0 THEN Len(s) ELSE end)

\* The characters from a position that is relative to the end of the text.
FromTheEnd(s, begin, length) ==
  LET start == OffsetOfCodePoint(s, 0, begin)
  IN  IF begin + length < CountCodePoints(s) THEN CodePointsFrom(s, start, length)
                                             ELSE FromByte(s, start)

SubstrVarchar(c, s, start, length) ==
  LET first == IF c.zero /\ start = 0 THEN 1 ELSE start
      begin == first + CountCodePoints(s)
  IN  IF first = 0 \/ length <= 0 \/ s = <<>> \/ first > Len(s) THEN <<>>
      ELSE IF first > 0
      THEN IF OffsetOfCodePoint(s, 0, first - 1) < 0 THEN <<>>
           ELSE CodePointsFrom(s, OffsetOfCodePoint(s, 0, first - 1), length)
      ELSE IF begin >= 0 THEN FromTheEnd(s, begin, length)
      ELSE IF ~c.negative \/ begin + length <= 0 THEN <<>>
      ELSE FromTheEnd(s, 0, begin + length)

\* A length before the beginning is not looked at: the caller keeps begin + length >= 0.
BatchSubstrVarchar(c, s, start, length) ==
  LET first == IF c.zero /\ start = 0 THEN 1 ELSE start
      begin == first + CountCodePoints(s)
  IN  IF first = 0 \/ length <= 0 \/ s = <<>> \/ first > Len(s) THEN <<>>
      ELSE IF first > 0
      THEN IF OffsetOfCodePoint(s, 0, first - 1) < 0 THEN <<>>
           ELSE CodePointsFrom(s, OffsetOfCodePoint(s, 0, first - 1), length)
      ELSE IF begin < 0 /\ ~c.negative THEN <<>>
      ELSE IF begin < 0 THEN FromTheEnd(s, 0, begin + length)
      ELSE FromTheEnd(s, begin, length)

BatchSubstrVarcharWithStart(c, s, start) ==
  LET first == IF c.zero /\ start = 0 THEN 1 ELSE start
      begin == first + CountCodePoints(s)
      from  == CASE first > 0 -> OffsetOfCodePoint(s, 0, first - 1)
                 [] first <= 0 /\ begin >= 0 -> OffsetOfCodePoint(s, 0, begin)
                 [] first <= 0 /\ begin < 0 -> IF c.negative THEN 0 ELSE -1
  IN  IF first = 0 \/ s = <<>> \/ first > Len(s) \/ from < 0 THEN <<>> ELSE FromByte(s, from)

\* The piece between two separators, or none.
RECURSIVE PieceFrom(_, _, _, _)
PieceFrom(s, separator, start, index) ==
  LET end == FindFrom(s, <<separator>>, start)
  IN  IF index = 0 THEN <<SubSeq(s, start + 1, IF end < 0 THEN Len(s) ELSE end)>>
      ELSE IF end < 0 THEN <<>> ELSE PieceFrom(s, separator, end + 1, index - 1)

SplitIndexRetNull(s, target, index) ==
  LET piece == IF index < 0 THEN <<>> ELSE PieceFrom(s, target[1], 0, index)
  IN  IF piece = <<>> THEN GivesNull ELSE Gives(piece[1])

\* Each byte is passed over until the piece ends there.
RECURSIVE BatchPiece(_, _, _, _, _, _)
BatchPiece(s, separator, index, i, start, current) ==
  IF i > Len(s) THEN GivesNull
  ELSE IF i # Len(s) /\ s[i + 1] # separator
  THEN BatchPiece(s, separator, index, i + 1, start, current)
  ELSE IF current = index THEN Gives(SubSeq(s, start + 1, i))
  ELSE BatchPiece(s, separator, index, i + 1, i + 1, current + 1)

BatchSplitIndex(s, target, index) == BatchPiece(s, target[1], index, 0, 0, 0)

RECURSIVE FindNthInstanceByteIndexFromStart(_, _, _, _)
FindNthInstanceByteIndexFromStart(s, part, instance, position) ==
  LET at == IF position >= Len(s) THEN -1 ELSE FindFrom(s, part, position)
  IN  IF at < 0 \/ instance = 1 THEN at
      ELSE FindNthInstanceByteIndexFromStart(s, part, instance - 1, at + 1)

RECURSIVE FindNthBefore(_, _, _, _)
FindNthBefore(s, part, instance, index) ==
  LET at == IF index = 0 THEN -1 ELSE FindBefore(s, part, index - 1)
  IN  IF at < 0 \/ instance = 1 THEN at ELSE FindNthBefore(s, part, instance - 1, at)

FindNthInstanceByteIndexFromEnd(s, part, instance) == FindNthBefore(s, part, instance, Len(s))

\* The place, counted from one, or 0; an empty text is found at once.
StringPosition(s, part, count) ==
  IF part = <<>> THEN 1
  ELSE 1 + IF count > 0 THEN FindNthInstanceByteIndexFromStart(s, part, count, 0)
                        ELSE FindNthInstanceByteIndexFromEnd(s, part, -count)

\* What is before the n-th delimiter, or after the n-th from the end.
SubstringIndex(s, delim, count) ==
  LET index == StringPosition(s, delim, count)
  IN  IF count = 0 THEN GivesNull
      ELSE IF index = 0 THEN CopiedText(s)
      ELSE IF count > 0 THEN CopiedText(SubSeq(s, 1, index - 1))
      ELSE CopiedText(SubSeq(s, index + Len(delim), Len(s)))

-----------------------------------------------------------------------------
(* Texts made of others.                                                   *)

ConcatStrDiffWidths(a, b) == a \o b

\* A text of a CHAR column is stored without the spaces at its end.
ConcatCharDiffWidths(a, aWidth, b) ==
  a \o Spaces(IF b = <<>> THEN 0 ELSE aWidth - CountCodePoints(a)) \o b

ConcatWsWithoutStr == <<>>

ConcatWsWith1Str(s, isNull) == IF isNull THEN <<>> ELSE s

ConcatWsStrDiffWidths(separator, a, b) == a \o separator \o b

ConcatWsStr(separator, a, aIsNull, b, bIsNull) ==
  CASE aIsNull -> IF bIsNull THEN <<>> ELSE b
    [] ~aIsNull /\ bIsNull -> a
    [] OTHER -> ConcatWsStrDiffWidths(separator, a, b)

\* The texts before it, if there are any.
ConcatWsAppend(separator, tmp, s) ==
  IF tmp = <<>> THEN <<s>> ELSE <<ConcatWsStrDiffWidths(separator, tmp[1], s)>>

\* Three, four or five texts; those that are null are passed over.
ConcatWsMany(separator, args, nulls) ==
  LET kept == SelectSeq([i \in DOMAIN args |-> i], LAMBDA i : i \notin nulls)
      all  == FoldLeft(LAMBDA tmp, i : ConcatWsAppend(separator, tmp, args[i]), <<>>, kept)
  IN  IF kept = <<>> THEN <<>> ELSE all[1]

\* The first argument is the separator.
ConcatWs(r) ==
  LET sep == r.args[1]
  IN  CASE 1 \in r.nulls -> GivesNull
        [] 1 \notin r.nulls /\ Len(r.args) = 1 -> Gives(ConcatWsWithoutStr)
        [] 1 \notin r.nulls /\ Len(r.args) = 2 ->
             Gives(ConcatWsWith1Str(r.args[2], 2 \in r.nulls))
        [] 1 \notin r.nulls /\ Len(r.args) = 3 ->
             Gives(ConcatWsStr(sep, r.args[2], 2 \in r.nulls, r.args[3], 3 \in r.nulls))
        [] OTHER -> Gives(ConcatWsMany(sep, Tail(r.args), {i - 1 : i \in r.nulls}))

RECURSIVE RemoveFrom(_, _, _)
RemoveFrom(s, search, position) ==
  LET at == FindFrom(s, search, position)
  IN  IF at < 0 THEN s
      ELSE RemoveFrom(SubSeq(s, 1, at) \o FromByte(s, at + Len(search)), search, at)

RECURSIVE ReplaceFrom(_, _, _, _)
ReplaceFrom(s, search, replacement, position) ==
  LET at == FindFrom(s, search, position)
  IN  IF at < 0 THEN s
      ELSE ReplaceFrom(SubSeq(s, 1, at) \o replacement \o FromByte(s, at + Len(search)),
                       search, replacement, at + Len(replacement))

ReplaceWithSearchNotEmpty(s, search, replacement) ==
  IF s = <<>> THEN <<>>
  ELSE IF replacement = <<>> THEN RemoveFrom(s, search, 0)
  ELSE ReplaceFrom(s, search, replacement, 0)

RECURSIVE ReplaceEmptyFrom(_, _, _)
ReplaceEmptyFrom(s, replacement, index) ==
  IF index >= Len(s) THEN replacement
  ELSE LET bytes == LengthOfCodePoint(s[index + 1])
       IN  replacement \o SubSeq(s, index + 1, index + bytes)
             \o ReplaceEmptyFrom(s, replacement, index + bytes)

\* The replacement goes before each character and to the end.
ReplaceWithSearchEmpty(s, replacement) == ReplaceEmptyFrom(s, replacement, 0)

ReplaceRow(c, s, search, replacement) ==
  IF search # <<>> THEN ReplaceWithSearchNotEmpty(s, search, replacement)
  ELSE IF c.replaceEmpty THEN ReplaceWithSearchEmpty(s, replacement) ELSE s

\* The lambda is what is done for an empty search.
ReplaceWithReplaceNotEmpty(c, s, search, replacement) ==
  IF search = <<>> THEN IF c.replaceEmpty THEN ReplaceWithSearchEmpty(s, replacement) ELSE s
  ELSE ReplaceWithSearchNotEmpty(s, search, replacement)

ReplaceWithReplaceEmpty(c, s, search) ==
  IF search = <<>> THEN IF c.replaceEmpty THEN ReplaceWithSearchEmpty(s, <<>>) ELSE s
  ELSE ReplaceWithSearchNotEmpty(s, search, <<>>)

UpperByte(byte) == IF byte \in 97 .. 122 THEN byte - 32 ELSE byte
LowerByte(byte) == IF byte \in 65 .. 90 THEN byte + 32 ELSE byte

ToUpperStr(s) == [i \in DOMAIN s |-> UpperByte(s[i])]
ToLowerStr(s) == [i \in DOMAIN s |-> LowerByte(s[i])]

BatchToUpperStr(s) == [i \in DOMAIN s |-> IF s[i] \in 97 .. 122 THEN s[i] - 32 ELSE s[i]]
BatchToLowerStr(s) == [i \in DOMAIN s |-> IF s[i] \in 65 .. 90 THEN s[i] + 32 ELSE s[i]]

\* Of a CHAR its width.
LengthOf(c, s)      == IF c.char THEN c.width ELSE CountCodePoints(s)
BatchLengthOf(c, s) == IF c.char THEN c.width ELSE CountCodePoints(s)

\* CHAR or VARCHAR, first.
ConcatRow(c, a, b) ==
  IF c.char THEN ConcatCharDiffWidths(a, c.width, b) ELSE ConcatStrDiffWidths(a, b)

BatchConcat(c, a, b) ==
  IF c.char THEN ConcatCharDiffWidths(a, c.width, b) ELSE ConcatStrDiffWidths(a, b)

\* Both widths bound the characters that are kept.
RECURSIVE CastStrFrom(_, _, _)
CastStrFrom(s, dstLen, left) ==
  IF dstLen >= Len(s) \/ left = 0 THEN dstLen
  ELSE CastStrFrom(s, dstLen + LengthOfCodePoint(s[dstLen + 1]), left - 1)

CastStrStr(s, srcWidth, dstWidth) ==
  SubSeq(s, 1, CastStrFrom(s, 0, IF srcWidth < dstWidth THEN srcWidth ELSE dstWidth))

CastStrWithDiffWidths(s, srcWidth, dstWidth) == CastStrStr(s, srcWidth, dstWidth)
BatchCastStrWithDiffWidths(s, srcWidth, dstWidth) == CastStrStr(s, srcWidth, dstWidth)

-----------------------------------------------------------------------------
(* Searching and comparing.                                                *)

\* The border of each prefix, -1 for the empty one (the table of Knuth, Morris and Pratt).
RECURSIVE Borders(_, _, _, _)
Borders(match, next, i, j) ==
  IF i >= Len(match) - 1 THEN next
  ELSE IF j = -1 \/ match[i + 1] = match[j + 1]
  THEN Borders(match, next @@ (i + 1 :> j + 1), i + 1, j + 1)
  ELSE Borders(match, next, i, next[j])

RECURSIVE Scan(_, _, _, _, _)
Scan(s, match, next, i, j) ==
  IF i >= Len(s) \/ j >= Len(match) THEN j = Len(match)
  ELSE IF j = -1 \/ s[i + 1] = match[j + 1]
  THEN Scan(s, match, next, i + 1, j + 1)
  ELSE Scan(s, match, next, i, next[j])

StrContainsStr(s, match) == Scan(s, match, Borders(match, 0 :> -1, 0, -1), 0, 0)

ContainsStr(s, match) == Len(match) <= Len(s) /\ (match = <<>> \/ StrContainsStr(s, match))

StartsWithStr(s, match) == Len(match) <= Len(s) /\ SubSeq(s, 1, Len(match)) = match

EndsWithStr(s, match) ==
  Len(match) <= Len(s) /\ SubSeq(s, Len(s) - Len(match) + 1, Len(s)) = match

BatchContainsStr(s, match) ==
  CASE Len(match) > Len(s) -> FALSE [] match = <<>> -> TRUE [] OTHER -> StrContainsStr(s, match)

BatchStartsWithStr(s, match) ==
  CASE Len(match) > Len(s) -> FALSE [] match = <<>> -> TRUE
    [] OTHER -> \A i \in DOMAIN match : s[i] = match[i]

BatchEndsWithStr(s, match) ==
  CASE Len(match) > Len(s) -> FALSE [] match = <<>> -> TRUE
    [] OTHER -> \A i \in DOMAIN match : s[Len(s) - Len(match) + i] = match[i]

\* The character, counted from one, or 0.
InStr(s, sub) ==
  LET at == FindFrom(s, sub, 0)
  IN  CASE Len(sub) > Len(s) -> 0
        [] sub = <<>> -> 1
        [] OTHER -> IF at < 0 THEN 0 ELSE CountCodePoints(SubSeq(s, 1, at)) + 1

\* The byte, counted from one, or 0.
BatchInStr(s, sub) ==
  CASE Len(sub) > Len(s) -> 0 [] sub = <<>> -> 1 [] OTHER -> FindFrom(s, sub, 0) + 1

CountChar(s, target) == Cardinality({i \in DOMAIN s : s[i] = target[1]})

BatchCountChar(s, target) == Len(SelectSeq(s, LAMBDA byte : byte = target[1]))

SmallerLength(a, b) == IF Len(a) < Len(b) THEN Len(a) ELSE Len(b)

\* memcmp of the first bytes, its sign.
MemCmp(a, b, n) ==
  LET differ == {i \in 1 .. n : a[i] # b[i]}
      first  == CHOOSE i \in differ : \A j \in differ : i <= j
  IN  IF differ = {} THEN 0 ELSE IF a[first] < b[first] THEN -1 ELSE 1

StrCompare(a, b) ==
  LET order == MemCmp(a, b, SmallerLength(a, b))
  IN  IF order # 0 THEN order ELSE Len(a) - Len(b)

StrEquals(a, b) == \A i \in DOMAIN a : a[i] = b[i]

\* The six comparisons of a row come from one call (StringCmp), texts of unequal length
\* are not given to StrEquals.
RowCompareStr(op, a, b) ==
  CASE op = "lt" -> StrCompare(a, b) < 0 [] op = "le" -> StrCompare(a, b) <= 0
    [] op = "gt" -> StrCompare(a, b) > 0 [] op = "ge" -> StrCompare(a, b) >= 0
    [] op = "eq" -> Len(a) = Len(b) /\ StrEquals(a, b)
    [] op = "ne" -> ~(Len(a) = Len(b) /\ StrEquals(a, b))

BatchCompareStr(op, a, b) ==
  CASE op = "lt" -> StrCompare(a, b) < 0 [] op = "le" -> StrCompare(a, b) <= 0
    [] op = "gt" -> StrCompare(a, b) > 0 [] op = "ge" -> StrCompare(a, b) >= 0
    [] op = "eq" -> Len(a) = Len(b) /\ MemCmp(a, b, Len(a)) = 0
    [] op = "ne" -> Len(a) # Len(b) \/ MemCmp(a, b, Len(a)) # 0

ExtremeStr(r, pickGreater) ==
  LET l == r.args[1]
      q == r.args[2]
      order     == MemCmp(l, q, SmallerLength(l, q))
      pickRight == IF order = 0
                   THEN IF pickGreater THEN Len(q) > Len(l) ELSE Len(q) < Len(l)
                   ELSE IF pickGreater THEN order < 0 ELSE order > 0
  IN  CASE r.nulls = {1, 2} -> GivesNull
        [] r.nulls = {1} -> Gives(q)
        [] r.nulls = {2} -> Gives(l)
        [] r.nulls = {}  -> Gives(IF pickRight THEN q ELSE l)

BatchGreatestStr(r) ==
  LET x == r.args[1]
      y == r.args[2]
      order == MemCmp(x, y, SmallerLength(x, y))
  IN  CASE r.nulls = {1, 2} -> GivesNull
        [] r.nulls = {1} -> Gives(y)
        [] 1 \notin r.nulls ->
             IF 2 \notin r.nulls /\ (order < 0 \/ (order = 0 /\ Len(y) > Len(x)))
             THEN Gives(y) ELSE Gives(x)

EmptyToNull(s) == IF s = <<>> THEN GivesNull ELSE Gives(s)
BatchEmptyToNull(s) == IF s = <<>> THEN GivesNull ELSE Gives(s)

-----------------------------------------------------------------------------
(* Lengths that a column's type limits.                                    *)

\* Spaces at the end, one for each character too many.
RECURSIVE TrimmedTo(_, _, _)
TrimmedTo(s, end, trimTo) ==
  IF end > trimTo /\ s[end] = Space THEN TrimmedTo(s, end - 1, trimTo) ELSE SubSeq(s, 1, end)

\* The text without the spaces that are too many, if that is enough.
TrimTail(s, limit) ==
  LET trimmed == TrimmedTo(s, Len(s), Len(s) - (NumChars(s) - limit))
  IN  IF NumChars(trimmed) > limit THEN GivesError ELSE CopiedText(trimmed)

VarcharTypeWriteSideCheck(s, limit) ==
  IF NumChars(s) <= limit THEN Gives(s) ELSE TrimTail(s, limit)

\* The batch does not count again after it has trimmed.
BatchVarcharTypeWriteSideCheck(s, limit) ==
  IF NumChars(s) <= limit THEN Gives(s) ELSE GivesError

PaddedTo(s, limit) == s \o Spaces(limit - NumChars(s))

CharTypeWriteSideCheck(s, limit) ==
  CASE NumChars(s) = limit -> Gives(s)
    [] NumChars(s) < limit -> IF s = <<>> THEN GivesError ELSE Gives(PaddedTo(s, limit))
    [] NumChars(s) > limit -> TrimTail(s, limit)

CharReadPadding(s, limit) ==
  IF NumChars(s) >= limit THEN Gives(s) ELSE Gives(PaddedTo(s, limit))

BatchCharReadPadding(s, limit) ==
  IF NumChars(s) >= limit THEN Gives(s)
  ELSE Gives(s \o [i \in 1 .. limit - NumChars(s) |-> Space])

-----------------------------------------------------------------------------
(* Patterns: one is the set of texts that match it as a whole.             *)

LikeStr(s, pattern) == s \in pattern
BatchLikeStr(s, pattern) == s \in pattern

LikeChar(s, width, pattern) == s \o Spaces(width - CountCodePoints(s)) \in pattern

BatchLikeChar(s, width, pattern) ==
  LET paddingCount == width - CountCodePoints(s)
  IN  s \o [i \in 1 .. paddingCount |-> Space] \in pattern

\* Some part of the text.
RegexMatch(s, pattern) ==
  \E i \in 1 .. Len(s) + 1 : \E j \in i - 1 .. Len(s) : SubSeq(s, i, j) \in pattern

\* The first place that matches; its length is of the match, its place in characters is
\* taken for one in bytes.
RegexpExtract(s, pattern) ==
  LET at == {i \in 1 .. Len(s) : \E j \in i .. Len(s) : SubSeq(s, i, j) \in pattern}
      start  == CHOOSE i \in at : \A k \in at : i <= k
      match  == CHOOSE j \in start .. Len(s) :
                  /\ SubSeq(s, start, j) \in pattern
                  /\ \A k \in j + 1 .. Len(s) : SubSeq(s, start, k) \notin pattern
      place  == CountCodePoints(SubSeq(s, 1, start - 1))
  IN  IF at = {} THEN GivesNull ELSE Gives(SubSeq(s, place + 1, place + match - start + 1))

-----------------------------------------------------------------------------
(* Calls.                                                                  *)

\* These look at the nulls themselves; for the others any null gives one.
SeesNulls == {"concat_ws", "greatest", "least"}

TextFunction(c, r, s, t) ==
  CASE c.op = "substr"      -> Gives(SubstrVarchar(c, s, r.n, r.m))
    [] c.op = "substr_from" -> Gives(SubstrVarcharWithStart(c, s, r.n))
    [] c.op = "split"       -> SplitIndexRetNull(s, t, r.n)
    [] c.op = "substring_index" -> SubstringIndex(s, t, r.n)
    [] c.op = "replace"     -> Gives(ReplaceRow(c, s, t, r.args[3]))
    [] c.op = "upper"       -> Gives(ToUpperStr(s))
    [] c.op = "lower"       -> Gives(ToLowerStr(s))
    [] c.op = "length"      -> Gives(LengthOf(c, s))
    [] c.op = "concat"      -> Gives(ConcatRow(c, s, t))
    [] c.op = "cast"        -> Gives(CastStrWithDiffWidths(s, c.width, r.n))
    [] c.op = "contains"    -> Gives(ContainsStr(s, t))
    [] c.op = "starts"      -> Gives(StartsWithStr(s, t))
    [] c.op = "ends"        -> Gives(EndsWithStr(s, t))
    [] c.op = "instr"       -> Gives(InStr(s, t))
    [] c.op = "count"       -> Gives(CountChar(s, t))
    [] c.op = "compare"     -> Gives(RowCompareStr(c.order, s, t))
    [] c.op = "empty_to_null" -> EmptyToNull(s)
    [] c.op = "varchar_check" -> VarcharTypeWriteSideCheck(s, r.n)
    [] c.op = "char_check"  -> CharTypeWriteSideCheck(s, r.n)
    [] c.op = "char_read"   -> CharReadPadding(s, r.n)
    [] c.op = "like"        -> Gives(IF c.char THEN LikeChar(s, c.width, c.pattern)
                                               ELSE LikeStr(s, c.pattern))
    [] c.op = "rlike"       -> Gives(RegexMatch(s, c.pattern))
    [] c.op = "extract"     -> RegexpExtract(s, c.pattern)

BatchTextFunction(c, r, s, t) ==
  CASE c.op = "substr"      -> Gives(BatchSubstrVarchar(c, s, r.n, r.m))
    [] c.op = "substr_from" -> Gives(BatchSubstrVarcharWithStart(c, s, r.n))
    [] c.op = "split"       -> BatchSplitIndex(s, t, r.n)
    [] c.op = "replace"     ->
         Gives(IF r.args[3] = <<>> THEN ReplaceWithReplaceEmpty(c, s, t)
                                   ELSE ReplaceWithReplaceNotEmpty(c, s, t, r.args[3]))
    [] c.op = "upper"       -> Gives(BatchToUpperStr(s))
    [] c.op = "lower"       -> Gives(BatchToLowerStr(s))
    [] c.op = "length"      -> Gives(BatchLengthOf(c, s))
    [] c.op = "concat"      -> Gives(BatchConcat(c, s, t))
    [] c.op = "cast"        -> Gives(BatchCastStrWithDiffWidths(s, c.width, r.n))
    [] c.op = "contains"    -> Gives(BatchContainsStr(s, t))
    [] c.op = "starts"      -> Gives(BatchStartsWithStr(s, t))
    [] c.op = "ends"        -> Gives(BatchEndsWithStr(s, t))
    [] c.op = "instr"       -> Gives(BatchInStr(s, t))
    [] c.op = "count"       -> Gives(BatchCountChar(s, t))
    [] c.op = "compare"     -> Gives(BatchCompareStr(c.order, s, t))
    [] c.op = "empty_to_null" -> BatchEmptyToNull(s)
    [] c.op = "varchar_check" -> BatchVarcharTypeWriteSideCheck(s, r.n)
    [] c.op = "char_read"   -> BatchCharReadPadding(s, r.n)
    [] c.op = "like"        -> Gives(IF c.char THEN BatchLikeChar(s, c.width, c.pattern)
                                               ELSE BatchLikeStr(s, c.pattern))

TextRow(c, r) ==
  CASE r.nulls # {} /\ c.op \notin SeesNulls -> GivesNull
    [] c.op = "concat_ws" -> ConcatWs(r)
    [] c.op = "greatest"  -> ExtremeStr(r, TRUE)
    [] c.op = "least"     -> ExtremeStr(r, FALSE)
    [] OTHER -> TextFunction(c, r, r.args[1], IF Len(r.args) > 1 THEN r.args[2] ELSE <<>>)

TextBatch(c, r) ==
  CASE r.nulls # {} /\ c.op \notin SeesNulls -> GivesNull
    [] c.op = "greatest" -> BatchGreatestStr(r)
    [] OTHER -> BatchTextFunction(c, r, r.args[1], IF Len(r.args) > 1 THEN r.args[2] ELSE <<>>)

-----------------------------------------------------------------------------
(* What the functions mean, in characters.                                 *)

CharactersOf(s) ==
  LET leads == SelectSeq([i \in DOMAIN s |-> i], LAMBDA i : ~IsContinuation(s[i]))
      \* The next lead byte, or the end.
      NextOf(k) == IF k = Len(leads) THEN Len(s) ELSE leads[k + 1] - 1
  IN  [k \in DOMAIN leads |-> SubSeq(s, leads[k], NextOf(k))]

BytesOfChars(chars) == FlattenSeq(chars)

Blanks(n) == [i \in 1 .. n |-> <<Space>>]

\* The window of a length from a place, the negative ones counted from the end.
SubstrMeant(c, chars, start, length) ==
  LET place == CASE start > 0 -> start
                 [] start = 0 -> IF c.zero THEN 1 ELSE Len(chars) + 1
                 [] start < 0 -> IF start + Len(chars) >= 0 \/ c.negative
                                 THEN start + Len(chars) + 1 ELSE Len(chars) + 1
  IN  SelectSeq([i \in DOMAIN chars |-> <<i, chars[i]>>],
                LAMBDA p : place <= p[1] /\ p[1] < place + length)

PlacesOf(s, part) == {i \in 0 .. Len(s) - Len(part) : SubSeq(s, i + 1, i + Len(part)) = part}

\* The numbers of a set between two, in their order.
Ascending(set, low, high) ==
  SelectSeq([i \in 1 .. high - low + 1 |-> low + i - 1], LAMBDA i : i \in set)

\* The pieces of a text between its separators.
PiecesMeant(s, separator) ==
  LET cuts == Ascending(PlacesOf(s, separator) \union {-1, Len(s)}, -1, Len(s))
  IN  [k \in 1 .. Len(cuts) - 1 |-> SubSeq(s, cuts[k] + 2, cuts[k + 1])]

RECURSIVE ReplacedMeant(_, _, _)
ReplacedMeant(chars, search, replacement) ==
  IF chars = <<>> THEN <<>>
  ELSE IF IsPrefix(search, chars)
  THEN replacement \o ReplacedMeant(SubSeq(chars, Len(search) + 1, Len(chars)), search, replacement)
  ELSE <<chars[1]>> \o ReplacedMeant(Tail(chars), search, replacement)

\* In the order of their characters.
OrderedBefore(a, b) ==
  \/ a # b /\ IsPrefix(a, b)
  \/ \E k \in 1 .. SmallerLength(a, b) : MemCmp(a, b, k - 1) = 0 /\ a[k] < b[k]

SmallerOf(m, n) == IF m < n THEN m ELSE n

Letters == [byte \in 97 .. 122 |-> byte - 32]

\* A text without the blanks that are too many.
FittedMeant(chars, limit) ==
  IF \A i \in limit + 1 .. Len(chars) : chars[i] = <<Space>>
  THEN Gives(BytesOfChars(SubSeq(chars, 1, limit))) ELSE GivesError

\* What is before the n-th place, or after the n-th from the end; all if there are fewer.
IndexMeant(s, n, width, cuts) ==
  CASE n = 0 -> GivesNull
    [] n # 0 /\ (n > Len(cuts) \/ -n > Len(cuts)) -> Gives(s)
    [] 0 < n /\ n <= Len(cuts)  -> Gives(SubSeq(s, 1, cuts[n]))
    [] n < 0 /\ -n <= Len(cuts) -> Gives(SubSeq(s, cuts[Len(cuts) + n + 1] + width + 1, Len(s)))

TextMeant(c, r, s, t) ==
  LET chars == CharactersOf(s)
      part  == CharactersOf(t)
      found == PlacesOf(chars, part)
      pieces == PiecesMeant(s, t)
      padded == s \o Spaces(c.width - Len(chars))
      cuts  == Ascending(PlacesOf(s, t), -1, Len(s))
  IN  CASE c.op = "substr" ->
             Gives(FlattenSeq([i \in DOMAIN SubstrMeant(c, chars, r.n, r.m) |->
                                 SubstrMeant(c, chars, r.n, r.m)[i][2]]))
        [] c.op = "substr_from" ->
             Gives(FlattenSeq([i \in DOMAIN SubstrMeant(c, chars, r.n, 1000) |->
                                 SubstrMeant(c, chars, r.n, 1000)[i][2]]))
        [] c.op = "split" -> IF r.n + 1 \in DOMAIN pieces THEN Gives(pieces[r.n + 1]) ELSE GivesNull
        [] c.op = "substring_index" -> IndexMeant(s, r.n, Len(t), cuts)
        [] c.op = "replace" ->
             LET new == r.args[3]
             IN  Gives(IF t # <<>> THEN BytesOfChars(ReplacedMeant(chars, part, CharactersOf(new)))
                       ELSE IF c.replaceEmpty
                       THEN BytesOfChars([i \in DOMAIN chars |-> new \o chars[i]]) \o new ELSE s)
        [] c.op = "upper" -> Gives([i \in DOMAIN s |-> IF s[i] \in DOMAIN Letters
                                                      THEN Letters[s[i]] ELSE s[i]])
        [] c.op = "lower" -> Gives([i \in DOMAIN s |-> IF s[i] \in Range(Letters)
                                                      THEN s[i] + 32 ELSE s[i]])
        [] c.op = "length" -> Gives(IF c.char THEN c.width ELSE Len(chars))
        [] c.op = "concat" -> Gives(IF c.char /\ t # <<>> THEN padded \o t ELSE s \o t)
        [] c.op = "cast" ->
             Gives(BytesOfChars(SubSeq(chars, 1, SmallerOf(Len(chars), SmallerOf(c.width, r.n)))))
        [] c.op = "contains" -> Gives(found # {})
        [] c.op = "starts" -> Gives(IsPrefix(part, chars))
        [] c.op = "ends" -> Gives(IsSuffix(part, chars))
        [] c.op = "instr" -> Gives(IF found = {} THEN 0
                                   ELSE (CHOOSE i \in found : \A j \in found : i <= j) + 1)
        [] c.op = "count" -> Gives(Cardinality(found))
        [] c.op = "compare" ->
             Gives(CASE c.order = "lt" -> OrderedBefore(s, t)
                     [] c.order = "le" -> ~OrderedBefore(t, s)
                     [] c.order = "gt" -> OrderedBefore(t, s)
                     [] c.order = "ge" -> ~OrderedBefore(s, t)
                     [] c.order = "eq" -> s = t
                     [] c.order = "ne" -> s # t)
        [] c.op = "empty_to_null" -> IF s = <<>> THEN GivesNull ELSE Gives(s)
        [] c.op = "varchar_check" ->
             IF Len(chars) <= r.n THEN Gives(s) ELSE FittedMeant(chars, r.n)
        [] c.op = "char_check" ->
             IF Len(chars) <= r.n THEN Gives(BytesOfChars(chars \o Blanks(r.n - Len(chars))))
                                  ELSE FittedMeant(chars, r.n)
        [] c.op = "char_read" ->
             Gives(IF Len(chars) >= r.n THEN s ELSE BytesOfChars(chars \o Blanks(r.n - Len(chars))))
        [] c.op = "like" -> Gives((IF c.char THEN padded ELSE s) \in c.pattern)
        [] c.op = "rlike" -> Gives(\E p \in c.pattern : PlacesOf(s, p) # {})
        [] c.op = "extract" ->
             LET at == {p \in c.pattern : PlacesOf(s, p) # {}}
             IN  IF at = {} THEN GivesNull ELSE Gives(CHOOSE p \in at : TRUE)

\* Nulls are passed over, or make the result null.
AnswerOfText(c, r) ==
  LET values == {r.args[i] : i \in DOMAIN r.args \ r.nulls}
      others == SelectSeq([i \in 1 .. Len(r.args) - 1 |-> i + 1], LAMBDA i : i \notin r.nulls)
  IN  CASE c.op = "concat_ws" ->
             IF 1 \in r.nulls THEN GivesNull
             ELSE Gives(FlattenSeq([k \in DOMAIN others |->
                          (IF k = 1 THEN <<>> ELSE r.args[1]) \o r.args[others[k]]]))
        [] c.op \in {"greatest", "least"} ->
             IF values = {} THEN GivesNull
             ELSE Gives(CHOOSE x \in values : \A y \in values :
                          IF c.op = "greatest" THEN ~OrderedBefore(x, y) ELSE ~OrderedBefore(y, x))
        [] c.op \notin SeesNulls /\ r.nulls # {} -> GivesNull
        [] OTHER -> TextMeant(c, r, r.args[1], IF Len(r.args) > 1 THEN r.args[2] ELSE <<>>)
=============================================================================
