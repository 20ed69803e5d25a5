---------------------------- MODULE MaskingReader ----------------------------
(***************************************************************************)
(* MaskingReader and MaskLine (crypto/mask.go), read by io.Copy through a  *)
(* buffer that may be shorter than a line.                                 *)
(*                                                                         *)
(* A text is a sequence of cells: line ends, KEY for a keyword with the    *)
(* space behind it, and any other characters.  KEY is one of the keywords  *)
(* whose pattern ends in (.+), the rest of the line, which is what a cut   *)
(* or a misplaced line end could change; the patterns that hide one word   *)
(* are not told apart from other characters.                               *)
(***************************************************************************)
EXTENDS Naturals, Sequences, SequencesExt

CONSTANT BufSize    \* length of io.Copy's buffer

BufSizeAssumption == BufSize \in Nat \ {0}

LF == "LF"  CR == "CR"  KEY == "key"  MASKED == "[MASKED]"

VARIABLES
  source,      \* what the wrapped reader has left
  line,        \* mr.buf
  eof,         \* mr.err
  copied,      \* what io.Copy has written
  copying      \* io.Copy has not returned

vars == <<source, line, eof, copied, copying>>

Init == source = <<>> /\ line = <<>> /\ eof = FALSE /\ copied = <<>> /\ copying = FALSE

-----------------------------------------------------------------------------
TrimSuffix(t, c) == IF t # <<>> /\ Last(t) = c THEN Front(t) ELSE t
Suffix(t, c)     == IF t # <<>> /\ Last(t) = c THEN <<c>> ELSE <<>>

(* The first keyword that has something behind it swallows the rest *)
MaskLine(t) ==
  LET at == SelectInSeq(t, LAMBDA c : c = KEY)
  IN IF at = 0 \/ at = Len(t) THEN t ELSE SubSeq(t, 1, at) \o <<MASKED>>

Masked(t) ==
  LET noLF == TrimSuffix(t, LF)  bare == TrimSuffix(noLF, CR)
  IN MaskLine(bare) \o Suffix(noLF, CR) \o Suffix(t, LF)

(* ReadString: up to the next line feed, or all there is and io.EOF *)
LineLen(t) ==
  LET at == SelectInSeq(t, LAMBDA c : c = LF) IN IF at = 0 THEN Len(t) ELSE at

Copy(t) ==
  /\ ~ copying /\ copying' = TRUE
  /\ source' = t /\ line' = <<>> /\ eof' = FALSE /\ copied' = <<>>

Gives(t) ==
  LET n == IF Len(t) < BufSize THEN Len(t) ELSE BufSize
  IN copied' = copied \o SubSeq(t, 1, n) /\ line' = SubSeq(t, n + 1, Len(t))

(* Slip: mr.err is looked at before mr.buf *)
PendingUnlessEOF == line # <<>> /\ ~ eof
Pending == line # <<>>
ReadPending ==
  /\ copying /\ Pending
  /\ Gives(line)
  /\ UNCHANGED <<source, eof, copying>>

(* A line of nothing but CR that no LF ends counts as no line at all *)
Nothing(t) == t \in {<<>>, <<CR>>}
ReadLine ==
  /\ copying /\ ~ Pending /\ ~ eof
  /\ LET n == LineLen(source)  t == SubSeq(source, 1, n)
     IN /\ source' = SubSeq(source, n + 1, Len(source))
        /\ eof' = (n = 0 \/ Last(t) # LF)
        /\ IF Nothing(t) THEN copying' = FALSE /\ UNCHANGED <<line, copied>>
           ELSE Gives(Masked(t)) /\ UNCHANGED copying
ReadEOF ==
  /\ copying /\ ~ Pending /\ eof
  /\ copying' = FALSE
  /\ UNCHANGED <<source, line, eof, copied>>

Read == ReadPending \/ ReadLine \/ ReadEOF

-----------------------------------------------------------------------------
(* Reference: position by position, what the masked copy of a text shows *)

EndsLine(t, i) == t[i] = LF \/ (t[i] = CR /\ (i = Len(t) \/ t[i + 1] = LF))
Hidden(t, i) ==
  ~ EndsLine(t, i) /\ \E j \in 1 .. i - 1 : t[j] = KEY /\ \A k \in j .. i : t[k] # LF
Shown(t) ==
  FlattenSeq([i \in 1 .. Len(t) |->
    IF ~ Hidden(t, i) THEN <<t[i]>>
    ELSE IF Hidden(t, i - 1) THEN <<>> ELSE <<MASKED>>])
=============================================================================
