----------------------------- MODULE Multiline ------------------------------
(***************************************************************************)
(* How a message of several lines crosses IRC (multiline.go).  sendLines   *)
(* drops the blank lines at the end and, where the server has             *)
(* draft/multiline, planMultiline cuts lines longer than a frame between   *)
(* words and packs the frames into batches under the limits the server     *)
(* announced; otherwise every line that is not blank is a PRIVMSG of its   *)
(* own.  The other side joins the frames of a batch again (accLines).      *)
(* A character is one byte, a letter or a space; a PRIVMSG outside a batch *)
(* is a batch of one frame.                                                *)
(***************************************************************************)
EXTENDS SequencesExt

CONSTANTS
  FrameBudget,   \* frameBudget, the bytes of one frame
  MaxChars,      \* the characters of the message, newlines not counted
  LineLimits, ByteLimits   \* what servers announce as max-lines and max-bytes

ASSUME MultilineAssumption ==
  /\ FrameBudget \in Nat \ {0} /\ MaxChars \in Nat
  /\ LineLimits \subseteq Nat \ {0} /\ ByteLimits \subseteq Nat \ {0}

VARIABLES
  message,       \* the lines of the message as typed
  hasCap, maxLines, maxBytes,   \* what the server offers
  lines,         \* the lines still to be cut into frames
  glued,         \* the head of lines is the rest of a line that was cut
  planned,       \* the frames still to be packed
  cur, curBytes, \* the batch being filled
  sentBatches,   \* what went out
  planPhase      \* "start", "cut", "pack", "done"

lineVars == <<message, hasCap, maxLines, maxBytes, lines, glued, planned,
              cur, curBytes, sentBatches, planPhase>>

Texts == BoundedSeq({"a", " "}, MaxChars)

IsBlank(line) == \A i \in DOMAIN line : line[i] = " "

OutFrame(text, concat) == [text |-> text, concat |-> concat]

MultilineInit ==
  /\ message = <<>>
  /\ hasCap \in BOOLEAN /\ maxLines \in LineLimits /\ maxBytes \in ByteLimits
  /\ lines = <<>> /\ glued = FALSE /\ planned = <<>>
  /\ cur = <<>> /\ curBytes = 0 /\ sentBatches = <<>> /\ planPhase = "start"

\* The messages of one, two and three lines that make up the text.
Split(text) ==
  LET to(i, j) == SubSeq(text, i + 1, j)   n == Len(text)
  IN  {<<text>>} \cup {<<to(0, i), to(i, n)>> : i \in 0..n}
        \cup UNION {{<<to(0, i), to(i, j), to(j, n)>> : j \in i..n} : i \in 0..n}

\* What is left when the blank lines at the end are gone.
Trimmed(content) ==
  SubSeq(content, 1, Max({0} \cup {i \in DOMAIN content : ~IsBlank(content[i])}))

Alone(line) == <<OutFrame(line, FALSE)>>

\* The lines that are not blank.
NonBlank(content) ==
  LET said[n \in 0..Len(content)] ==
        IF n = 0 THEN <<>>
        ELSE IF IsBlank(content[n]) THEN said[n - 1] ELSE Append(said[n - 1], content[n])
  IN  said[Len(content)]

\* sendLines: one line is sent as it is, without the capability each line
\* that is not blank by itself, else the plan is made.
SendLines(content) ==
  /\ message' = content
  /\ IF Len(content) = 1
     THEN sentBatches' = <<Alone(content[1])>> /\ planPhase' = "done" /\ UNCHANGED lines
     ELSE IF hasCap
     THEN lines' = Trimmed(content) /\ planPhase' = "cut" /\ UNCHANGED sentBatches
     ELSE LET spoken == NonBlank(Trimmed(content))
          IN  /\ sentBatches' = [i \in 1..Len(spoken) |-> Alone(spoken[i])]
              /\ planPhase' = "done" /\ UNCHANGED lines
  /\ UNCHANGED <<hasCap, maxLines, maxBytes, glued, planned, cur, curBytes>>

\* A frame's worth of the line, up to its last space unless that comes first.
Chunk(line) ==
  LET spaces == {i \in 2..FrameBudget : line[i] = " "}
  IN  IF Len(line) <= FrameBudget THEN line
      ELSE SubSeq(line, 1, IF spaces = {} THEN FrameBudget ELSE Max(spaces))

\* Mutant: the frames of a cut line are not tagged concat.
CutFrameUnglued ==
  /\ planPhase = "cut"
  /\ IF lines = <<>>
     THEN planPhase' = "pack" /\ UNCHANGED <<lines, glued, planned>>
     ELSE LET text == Chunk(Head(lines))
              rest == SubSeq(Head(lines), Len(text) + 1, Len(Head(lines)))
          IN  /\ planned' = Append(planned, OutFrame(text, FALSE))
              /\ glued' = (rest # <<>>)
              /\ lines' = (IF rest = <<>> THEN <<>> ELSE <<rest>>) \o Tail(lines)
              /\ UNCHANGED planPhase
  /\ UNCHANGED <<message, hasCap, maxLines, maxBytes, cur, curBytes, sentBatches>>

\* planMultiline, first loop: the next frame of the line in hand.
CutFrame ==
  /\ planPhase = "cut"
  /\ IF lines = <<>>
     THEN planPhase' = "pack" /\ UNCHANGED <<lines, glued, planned>>
     ELSE LET text == Chunk(Head(lines))
              rest == SubSeq(Head(lines), Len(text) + 1, Len(Head(lines)))
          IN  /\ planned' = Append(planned, OutFrame(text, glued))
              /\ glued' = (rest # <<>>)
              /\ lines' = (IF rest = <<>> THEN <<>> ELSE <<rest>>) \o Tail(lines)
              /\ UNCHANGED planPhase
  /\ UNCHANGED <<message, hasCap, maxLines, maxBytes, cur, curBytes, sentBatches>>

\* What the frame adds to the batch in hand, the joining newline included.
JoinedCost(text) == Len(text) + (IF cur # <<>> THEN 1 ELSE 0)

\* planMultiline, second loop: the frame joins the batch, or opens the next.
PackFrame ==
  /\ planPhase = "pack" /\ planned # <<>>
  /\ LET f    == Head(planned)
         full == cur # <<>> /\ (Len(cur) >= maxLines \/ curBytes + JoinedCost(f.text) > maxBytes)
     IN  IF full
         THEN /\ sentBatches' = Append(sentBatches, cur)
              /\ cur' = <<f>> /\ curBytes' = Len(f.text)
         ELSE /\ cur' = Append(cur, f) /\ curBytes' = curBytes + JoinedCost(f.text)
              /\ UNCHANGED sentBatches
  /\ planned' = Tail(planned)
  /\ UNCHANGED <<message, hasCap, maxLines, maxBytes, lines, glued, planPhase>>

\* The last flush.
FlushPlan ==
  /\ planPhase = "pack" /\ planned = <<>> /\ planPhase' = "done"
  /\ sentBatches' = IF cur = <<>> THEN sentBatches ELSE Append(sentBatches, cur)
  /\ cur' = <<>> /\ curBytes' = 0
  /\ UNCHANGED <<message, hasCap, maxLines, maxBytes, lines, glued, planned>>

MultilineNext ==
  \/ planPhase = "start" /\ \E text \in Texts : \E content \in Split(text) : SendLines(content)
  \/ CutFrame \/ PackFrame \/ FlushPlan

MultilineSpec == MultilineInit /\ [][MultilineNext]_lineVars

\* accLines: a frame tagged concat is glued to the line before it, if any.
Glue(out, f) ==
  IF f.concat /\ out # <<>> THEN [out EXCEPT ![Len(out)] = @ \o f.text] ELSE Append(out, f.text)

accLines(frames) ==
  LET out[n \in 0..Len(frames)] == IF n = 0 THEN <<>> ELSE Glue(out[n - 1], frames[n])
  IN  out[Len(frames)]
-----------------------------------------------------------------------------
\* The frames' texts and the newlines between them.
WireBytes(frames) ==
  LET sum[n \in 0..Len(frames)] ==
        IF n = 0 THEN 0 ELSE sum[n - 1] + Len(frames[n].text) + (IF n = 1 THEN 0 ELSE 1)
  IN  sum[Len(frames)]

\* The frames of all batches, one behind the other.
OnTheWire(batches) ==
  LET all[n \in 0..Len(batches)] == IF n = 0 THEN <<>> ELSE all[n - 1] \o batches[n]
  IN  all[Len(batches)]

\* The plan keeps what the server announced: no batch has more lines than
\* max-lines, no frame of a cut line is longer than the frame budget, and the
\* frames of a batch joined by newlines fit max-bytes (planMultiline), a frame
\* that is larger by itself excepted.
LimitsKept ==
  hasCap /\ Len(message) > 1 =>
    \A b \in Range(sentBatches) \cup ({cur} \ {<<>>}) :
      /\ Len(b) <= maxLines
      /\ \A i \in DOMAIN b : Len(b[i].text) <= FrameBudget
      /\ WireBytes(b) <= maxBytes \/ Len(b) = 1

\* The lines that ought to arrive.
Meant ==
  IF Len(message) = 1 THEN message
  ELSE IF hasCap THEN Trimmed(message) ELSE NonBlank(Trimmed(message))

\* Nothing a user typed is lost or doubled on the way: the frames of all
\* batches joined again (accLines) are the lines of the message, blank lines
\* at its end and, without draft/multiline, blank lines inside it excepted;
\* and what fits one batch arrives as exactly one message.
LinesSurvive ==
  planPhase = "done" =>
    /\ accLines(OnTheWire(sentBatches)) = Meant
    /\ hasCap /\ Len(sentBatches) = 1 => accLines(sentBatches[1]) = Meant

\* The plan keeps the server's limits and the user's lines (planMultiline,
\* accLines).
LinesKept ==
  LimitsKept /\ LinesSurvive

=============================================================================
