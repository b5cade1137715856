------------------------------- MODULE TextEntry --------------------------------
(***************************************************************************)
(* elements/text_entry.rs: a line of text that is typed in.  Characters    *)
(* may take several bytes, and the cursor is kept twice, as an index of    *)
(* bytes, to cut the text at, and as one of characters, to draw it; so is  *)
(* the length of the text, whose bytes the string knows.                   *)
(***************************************************************************)
EXTENDS Integers, Sequences, SequencesExt, FiniteSetsExt

CONSTANTS
    MaxChars,       \* max_length
    CharBytes(_),   \* len_utf8
    IsWord(_),      \* is_alphanumeric
    NoCursor        \* None, as a cursor

ASSUME TextEntryAssumption == MaxChars \in Nat /\ NoCursor \notin [bytes : Nat, chars : Nat]

Bytes(text) ==
    LET upTo[n \in 0 .. Len(text)] == IF n = 0 THEN 0 ELSE upTo[n - 1] + CharBytes(text[n])
    IN  upTo[Len(text)]

NewEntry == [text |-> <<>>, length |-> 0, cursor |-> NoCursor]

\* receive_focus: the cursor goes to the end of the text.
EntryFocused(entry) ==
    [entry EXCEPT !.cursor = [bytes |-> Bytes(entry.text), chars |-> entry.length]]

EntryUnfocused(entry) == [entry EXCEPT !.cursor = NoCursor]

\* The text up to the cursor, and from it: slices at index_bytes.
Cut(entry) == CHOOSE n \in 0 .. Len(entry.text) :
                  Bytes(SubSeq(entry.text, 1, n)) = entry.cursor.bytes

BeforeCursor(entry) == SubSeq(entry.text, 1, Cut(entry))

AfterCursor(entry) == SubSeq(entry.text, Cut(entry) + 1, Len(entry.text))

\* How many characters a text begins with that are, or are not, of a word.
Leading(text, word) ==
    Min({n \in 0 .. Len(text) : n = Len(text) \/ IsWord(text[n + 1]) # word})

WordSkip(text, wordFirst) ==
    LET first == Leading(text, wordFirst)
    IN  first + Leading(SubSeq(text, first + 1, Len(text)), ~wordFirst)

\* What a key goes over to the left of the cursor, and to the right.
SkippedLeft(entry, ctrl) ==
    LET before == BeforeCursor(entry)
        n == IF ctrl THEN WordSkip(Reverse(before), FALSE) ELSE Min({1, Len(before)})
    IN  SubSeq(before, Len(before) - n + 1, Len(before))

SkippedRight(entry, ctrl) ==
    LET after == AfterCursor(entry)
    IN  SubSeq(after, 1, IF ctrl THEN WordSkip(after, TRUE) ELSE Min({1, Len(after)}))

Typed(entry, c) ==
    [text |-> BeforeCursor(entry) \o <<c>> \o AfterCursor(entry), length |-> entry.length + 1,
     cursor |-> [bytes |-> entry.cursor.bytes + CharBytes(c), chars |-> entry.cursor.chars + 1]]

MovedBack(entry, text) ==
    [entry EXCEPT !.cursor.bytes = @ - Bytes(text), !.cursor.chars = @ - Len(text)]

\* Mutation of Erased: the cursor goes back by one character, whatever was erased.
ErasedAsOne(entry, ctrl) ==
    LET gone == SkippedLeft(entry, ctrl)
        left == Len(BeforeCursor(entry)) - Len(gone)
    IN  IF gone = <<>> THEN entry
        ELSE [entry EXCEPT !.text = SubSeq(@, 1, left) \o AfterCursor(entry),
                           !.length = @ - Len(gone),
                           !.cursor.bytes = @ - Bytes(gone), !.cursor.chars = @ - 1]

\* Backspace
Erased(entry, ctrl) ==
    LET gone == SkippedLeft(entry, ctrl)
        left == Len(BeforeCursor(entry)) - Len(gone)
    IN  [MovedBack(entry, gone) EXCEPT !.text = SubSeq(@, 1, left) \o AfterCursor(entry),
                                       !.length = @ - Len(gone)]

\* Delete
ErasedNext(entry, ctrl) ==
    LET gone == SkippedRight(entry, ctrl)
        after == AfterCursor(entry)
    IN  [entry EXCEPT !.text = BeforeCursor(entry) \o SubSeq(after, Len(gone) + 1, Len(after)),
                      !.length = @ - Len(gone)]

\* The keys that only change the text or move the cursor.
EntryKey(entry, key) ==
    CASE key.code = "Backspace" -> Erased(entry, key.ctrl)
      [] key.code = "Delete" -> ErasedNext(entry, key.ctrl)
      [] key.code = "Left" -> MovedBack(entry, SkippedLeft(entry, key.ctrl))
      [] key.code = "Right" ->
            LET over == SkippedRight(entry, key.ctrl)
            IN  [entry EXCEPT !.cursor.bytes = @ + Bytes(over), !.cursor.chars = @ + Len(over)]
      [] key.code = "Home" -> [entry EXCEPT !.cursor = [bytes |-> 0, chars |-> 0]]
      [] key.code = "End" -> EntryFocused(entry)
      [] OTHER -> entry

\* render, of an entry with a cursor, in a width: how many characters are drawn before
\* the cursor, in a column each, and how many after it.
EntryDrawn(entry, width) ==
    LET c == entry.cursor.chars
        start == c - (width + 1) \div 2
        end == c + width \div 2 + (IF start < 0 THEN 0 - start ELSE 0)
        over == IF end > entry.length THEN end - entry.length ELSE 0
        from == Max({0, Max({0, start}) - over})
        before == Max({0, c - from})
        room == IF c # MaxChars /\ before = width THEN Max({0, before - 1}) ELSE before
    IN  [column |-> room, before |-> Min({room, Len(BeforeCursor(entry))}),
         after |-> Min({Max({0, end - over - c}), Len(AfterCursor(entry))})]

\* The cursor lies between two characters of the text, the same ones by both its indices,
\* and the count of characters is right.
EntryCoherent(entry) ==
    /\ entry.length = Len(entry.text) /\ entry.length <= MaxChars
    /\ entry.cursor # NoCursor =>
          /\ entry.cursor.chars \in 0 .. entry.length
          /\ entry.cursor.bytes = Bytes(SubSeq(entry.text, 1, entry.cursor.chars))

\* What is drawn is as much of the text as fits, next to the cursor on both sides, with a
\* column for the cursor unless no more can be typed after it.
EntryVisible(entry, width) ==
    LET d == EntryDrawn(entry, width)
        atEnd == entry.cursor.chars = entry.length /\ entry.length # MaxChars
    IN  /\ d.before = d.column /\ d.column + d.after <= width
        /\ d.before + d.after = Min({entry.length, IF atEnd THEN Max({0, width - 1}) ELSE width})

=================================================================================
