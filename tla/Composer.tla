------------------------------ MODULE Composer ------------------------------
(***************************************************************************)
(* The buffer an operator writes a message in (tui/composer.ts): lines, a   *)
(* cursor, the pasted blocks that are drawn as one row, and what undo can   *)
(* walk back.  A key is a pure function of the buffer; a line is a sequence *)
(* of code points, of which the model has a letter and the blank.  Lines    *)
(* count from 1, the column is the number of code points left of the cursor.*)
(***************************************************************************)
EXTENDS Integers, Sequences, FiniteSets, SequencesExt, FiniteSetsExt

CONSTANTS
  CollapseLines,  \* PASTE_COLLAPSE_LINES
  UndoLimit,      \* UNDO_LIMIT
  Pastes,         \* the texts pasted: non-empty sequences of lines
  MaxLines,       \* bound: lines of the buffer
  MaxColumns      \* bound: code points of a line

VARIABLE buf

Blank == " "
Letter == "x"
EmptyText == << <<>> >>

(* composerFromText: the cursor at the end. *)
FromText(lines) ==
  [lines |-> lines, line |-> Len(lines), column |-> Len(Last(lines)), pastes |-> {}, history |-> <<>>]

LineOf(s) == s.lines[s.line]
Covers(mark) == mark.at .. mark.at + mark.count - 1
EndOf(mark) == mark.at + mark.count - 1

-----------------------------------------------------------------------------
(* Edits.  Each goes through Edited, which keeps the buffer it was made on. *)

Snapshot(s) == [lines |-> s.lines, line |-> s.line, column |-> s.column, pastes |-> s.pastes]

LastOnes(seq, n) == IF Len(seq) > n THEN SubSeq(seq, Len(seq) - n + 1, Len(seq)) ELSE seq

Edited(s, next) ==
  [lines |-> next.lines, line |-> next.line, column |-> next.column, pastes |-> next.pastes,
   history |-> LastOnes(Append(s.history, Snapshot(s)), UndoLimit)]

(* A block that is written into is a paste no longer, unless the writing is *)
(* appended to it; a block below moves with the lines.                      *)
AdjustMarks(marks, line, delta, appending) ==
  {IF line < m.at THEN [m EXCEPT !.at = @ + delta] ELSE m :
     m \in {mark \in marks : line \in Covers(mark) => appending /\ line = EndOf(mark)}}

AppendingAfterBlock(s) ==
  s.column = Len(LineOf(s)) /\ \E m \in s.pastes : s.line = EndOf(m)

WithLine(s, text, column) ==
  [lines |-> [s.lines EXCEPT ![s.line] = text], line |-> s.line, column |-> column,
   pastes |-> AdjustMarks(s.pastes, s.line, 0, AppendingAfterBlock(s))]

Before(s) == SubSeq(LineOf(s), 1, s.column)
After(s)  == SubSeq(LineOf(s), s.column + 1, Len(LineOf(s)))
Splice(s, from, to, lines) ==
  SubSeq(s.lines, 1, from - 1) \o lines \o SubSeq(s.lines, to + 1, Len(s.lines))

(* insertText; parts are the lines of the text. *)
InsertText(s, parts) ==
  IF parts = EmptyText THEN s
  ELSE IF Len(parts) = 1
  THEN Edited(s, WithLine(s, Before(s) \o parts[1] \o After(s), s.column + Len(parts[1])))
  ELSE Edited(s,
         [lines  |-> Splice(s, s.line, s.line,
                       <<Before(s) \o Head(parts)>> \o SubSeq(parts, 2, Len(parts) - 1) \o <<Last(parts) \o After(s)>>),
          line   |-> s.line + Len(parts) - 1,
          column |-> Len(Last(parts)),
          pastes |-> AdjustMarks(s.pastes, s.line, Len(parts) - 1, AppendingAfterBlock(s))])

InsertNewline(s) == InsertText(s, << <<>>, <<>> >>)

(* Mutant: a long paste starts a block of its own, wherever it lands. *)
PasteAlwaysMarks(s, parts) ==
  LET next == InsertText(s, parts)
  IN IF Len(parts) <= CollapseLines THEN next
     ELSE [next EXCEPT !.pastes = @ \cup {[at |-> s.line, count |-> Len(parts)]}]

(* insertPaste: a long block is marked, or grows the block it is appended to. *)
InsertPaste(s, parts) ==
  LET next      == InsertText(s, parts)
      enclosing == {m \in next.pastes : s.line \in Covers(m)}
  IN IF Len(parts) <= CollapseLines THEN next
     ELSE IF enclosing # {}
     THEN [next EXCEPT !.pastes = {IF m \in enclosing THEN [m EXCEPT !.count = @ + Len(parts) - 1] ELSE m : m \in @}]
     ELSE [next EXCEPT !.pastes = @ \cup {[at |-> s.line, count |-> Len(parts)]}]

(* Lines at and at + 1 become one. *)
Join(s, at, column) ==
  Edited(s, [lines  |-> Splice(s, at, at + 1, <<s.lines[at] \o s.lines[at + 1]>>), line |-> at, column |-> column,
             pastes |-> AdjustMarks(s.pastes, at, -1, FALSE)])

Backspace(s) ==
  IF s.column > 0 THEN Edited(s, WithLine(s, RemoveAt(LineOf(s), s.column), s.column - 1))
  ELSE IF s.line = 1 THEN s
  ELSE Join(s, s.line - 1, Len(s.lines[s.line - 1]))

DeleteForward(s) ==
  IF s.column < Len(LineOf(s)) THEN Edited(s, WithLine(s, RemoveAt(LineOf(s), s.column + 1), s.column))
  ELSE IF s.line = Len(s.lines) THEN s
  ELSE Join(s, s.line, s.column)

(* The start of the word left of the cursor, and of the one right of it. *)
WordLeftColumn(line, column) ==
  LET word == Max({i \in 0..column : i = 0 \/ line[i] # Blank})
  IN Max({i \in 0..word : i = 0 \/ line[i] = Blank})

WordRightColumn(line, column) ==
  LET gap == Min({i \in column..Len(line) : i = Len(line) \/ line[i + 1] = Blank})
  IN Min({i \in gap..Len(line) : i = Len(line) \/ line[i + 1] # Blank})

DeleteWordLeft(s) ==
  LET to == WordLeftColumn(LineOf(s), s.column)
  IN IF s.column = 0 THEN Backspace(s)
     ELSE Edited(s, WithLine(s, SubSeq(LineOf(s), 1, to) \o After(s), to))

(* Undo takes back the last edit, its cursor and its marks. *)
Undo(s) ==
  IF s.history = <<>> THEN s
  ELSE [lines |-> Last(s.history).lines, line |-> Last(s.history).line, column |-> Last(s.history).column,
        pastes |-> Last(s.history).pastes, history |-> Front(s.history)]

(* What $EDITOR wrote. *)
ReplaceText(s, lines) == Edited(s, FromText(lines))

-----------------------------------------------------------------------------
(* Moves, which undo does not know. *)

Moved(s, line, column) == [s EXCEPT !.line = line, !.column = column]
Width(s, line) == Len(s.lines[line])

MoveLeft(s) ==
  IF s.column > 0 THEN Moved(s, s.line, s.column - 1)
  ELSE IF s.line = 1 THEN s ELSE Moved(s, s.line - 1, Width(s, s.line - 1))
MoveRight(s) ==
  IF s.column < Width(s, s.line) THEN Moved(s, s.line, s.column + 1)
  ELSE IF s.line = Len(s.lines) THEN s ELSE Moved(s, s.line + 1, 0)
MoveUp(s) ==
  IF s.line = 1 THEN Moved(s, 1, 0) ELSE Moved(s, s.line - 1, Min({s.column, Width(s, s.line - 1)}))
MoveDown(s) ==
  IF s.line = Len(s.lines) THEN Moved(s, s.line, Width(s, s.line))
  ELSE Moved(s, s.line + 1, Min({s.column, Width(s, s.line + 1)}))
WordLeft(s) == IF s.column = 0 THEN MoveLeft(s) ELSE Moved(s, s.line, WordLeftColumn(LineOf(s), s.column))
WordRight(s) ==
  IF s.column = Width(s, s.line) THEN MoveRight(s) ELSE Moved(s, s.line, WordRightColumn(LineOf(s), s.column))

-----------------------------------------------------------------------------
(* composerRows: the rows that are drawn, a block being one; each is the lines *)
(* it stands for.  cursorRow: the one the cursor is on.                        *)
ComposerRows(s) ==
  LET n == Len(s.lines)
      rows[i \in Nat] ==
        IF i > n THEN <<>>
        ELSE IF \E m \in s.pastes : m.at = i
        THEN LET m == CHOOSE m \in s.pastes : m.at = i IN <<Covers(m)>> \o rows[i + m.count]
        ELSE <<{i}>> \o rows[i + 1]
  IN rows[1]

RowsUpTo(rows, k) == UNION {rows[i] : i \in 1..k}
CursorRow(s) ==
  LET rows == ComposerRows(s)
      held == {k \in DOMAIN rows : s.line <= Cardinality(RowsUpTo(rows, k))}
  IN IF held = {} THEN Len(rows) ELSE Min(held)

-----------------------------------------------------------------------------
Edits(s) ==
  {InsertText(s, <<<<c>>>>) : c \in {Letter, Blank}} \cup {InsertPaste(s, p) : p \in Pastes}
    \cup {InsertNewline(s), Backspace(s), DeleteForward(s), DeleteWordLeft(s), ReplaceText(s, EmptyText)}

Moves(s) ==
  {MoveLeft(s), MoveRight(s), MoveUp(s), MoveDown(s), WordLeft(s), WordRight(s),
   Moved(s, s.line, 0), Moved(s, s.line, Width(s, s.line))}

Small(s) == Len(s.lines) <= MaxLines /\ \A i \in DOMAIN s.lines : Width(s, i) <= MaxColumns

InitBuffer == buf = FromText(EmptyText)
NextBuffer == buf' \in {s \in Edits(buf) \cup Moves(buf) \cup {Undo(buf)} : Small(s)}

-----------------------------------------------------------------------------
(* The cursor is on the text, and the blocks are apart and within it. *)
Fits(s) ==
  /\ s.line \in DOMAIN s.lines /\ s.column \in 0..Len(LineOf(s))
  /\ \A m \in s.pastes : m.count > CollapseLines /\ Covers(m) \subseteq DOMAIN s.lines
  /\ \A m, n \in s.pastes : m = n \/ Covers(m) \cap Covers(n) = {}

(* The text as it is sent: the lines, with the end of each but the last. *)
Sent(lines) ==
  LET upTo[i \in 1..Len(lines)] == IF i = 1 THEN lines[1] ELSE upTo[i - 1] \o <<"end of line">> \o lines[i]
  IN upTo[Len(lines)]

LeftText(s)  == Sent(Splice(s, s.line, Len(s.lines), <<Before(s)>>))
RightText(s) == Sent(Splice(s, 1, s.line, <<After(s)>>))

(* The text is what was written, where the cursor was: an insertion stands *)
(* between the two sides of the cursor, deleting forward is moving over a  *)
(* code point and deleting it, and undo gives back the buffer before an    *)
(* edit, its blocks with it.                                               *)
EditsTrue(s) ==
  /\ \A p \in Pastes \cup {<<<<Letter>>>>, << <<>>, <<>> >>} :
       LET t == InsertPaste(s, p)
       IN /\ LeftText(t) = LeftText(s) \o Sent(p) /\ RightText(t) = RightText(s)
          /\ Snapshot(Undo(t)) = Snapshot(s)
  /\ Snapshot(Backspace(InsertNewline(s))).lines = s.lines
  /\ DeleteForward(s).lines = (IF MoveRight(s) = s THEN s ELSE Backspace(MoveRight(s))).lines
  /\ RightText(DeleteWordLeft(s)) = RightText(s)

(* What is drawn is the buffer: every line is in one row, in order, and the *)
(* cursor is on the row of its line.                                        *)
RowsTrue(s) ==
  LET rows == ComposerRows(s)
  IN /\ RowsUpTo(rows, Len(rows)) = DOMAIN s.lines
     /\ \A i, j \in DOMAIN rows : i < j => \A k \in rows[i], l \in rows[j] : k < l
     /\ s.line \in rows[CursorRow(s)]

(* A message is written, pasted, taken back and drawn without a line of it  *)
(* lost, shown twice or out of the cursor's reach, whatever the order of    *)
(* the keys, and so is every state undo can go back to (composer.ts).       *)
BufferTrue ==
  /\ \A s \in {Snapshot(buf)} \cup Range(buf.history) : Fits(s)
  /\ EditsTrue(buf) /\ RowsTrue(buf)
=============================================================================
